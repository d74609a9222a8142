-------------------------- MODULE SessionRecord_proofs --------------------------
(***************************************************************************)
(* For any number of drivers, recovery tools, memory handles and crashes,  *)
(* and for any clock tree the firmware may leave: what a dead session      *)
(* leaves behind is on record, the next one restores it, and nothing runs  *)
(* from memory or clocks it should not on the way. The invariant follows   *)
(* one record from the allocation to the release, and one clock tree       *)
(* through every register write: the writes a session has still to do      *)
(* lead, by legal writes only, to the tree they were planned for.          *)
(***************************************************************************)
EXTENDS SessionRecord, SequenceTheorems, TLAPS

-----------------------------------------------------------------------------
(* Register writes. A reprogramming is a sequence of writes, and the        *)
(* process may die after any of them: what matters is what holds in         *)
(* between.                                                                 *)

(* The registers of a clock tree, and the writes to them.                   *)
Settings == {"ana", "ctrl", "core0", "per", "pacing"}

Registers == Generators \cup Settings

Writes == (Generators \X Clock) \cup (Settings \X Setting)

(* A write to a tree changes the register it names.                         *)
LEMMA WrittenTree ==
  ASSUME NEW t \in Trees, NEW w \in Writes
  PROVE  /\ Written(t, w) \in Trees
         /\ DOMAIN t = Generators \cup Settings
         /\ w[1] \in Generators \cup Settings
         /\ Written(t, w)[w[1]] = w[2]
         /\ \A g \in (Generators \cup Settings) \ {w[1]} : Written(t, w)[g] = t[g]
BY SMTT(30) DEF Trees, Writes, Written, Generators, Settings, Clock, Setting

(* A clock is its source and whether it runs.                               *)
LEMMA ClockGen ==
  ASSUME NEW c \in Clock
  PROVE c = Gen(c.src, c.run) /\ c.src \in Sources /\ c.run \in BOOLEAN
BY DEF Gen, Clock

(* Trees with the same registers are the same tree.                         *)
LEMMA TreesAgree ==
  ASSUME NEW t \in Trees, NEW u \in Trees, \A g \in Registers : t[g] = u[g]
  PROVE  t = u
BY SMTT(30) DEF Trees, Registers, Generators, Settings

(* What one write may do: no generator but the VPU's changes its source     *)
(* while it runs, and a SoC without an EMMC2 generator does not write to    *)
(* one.                                                                     *)
Legal(t, u) ==
  /\ \A g \in Generators \ {"vpu"} : u[g].src # t[g].src => ~t[g].run /\ ~u[g].run
  /\ ~Bcm2711 => u.emmc2 = t.emmc2

(* Stands for a record when it does not matter what PLLC feeds: a channel   *)
(* that could not be stopped modulates it.                                  *)
Any == CHOOSE s : s \notin Trees \cup {NoTree}

LEMMA AnyTree == Any \notin Trees \cup {NoTree}
BY NoSetContainsEverything DEF Any

(* A tree no storage or processor clock of which runs from a modulated      *)
(* PLLC, and none would if it were restored from the record s: what PLLC    *)
(* feeds, now or in s, has its settings in s as found.                      *)
Fits(t, s) ==
  \/ s = Any
  \/ /\ ~FedByModulated(t)
     /\ s # NoTree => \A g \in Generators \ {"gp0"} :
          /\ t[g] = Gen("pllc", TRUE) => Undisturbed(s, g)
          /\ s[g] = Gen("pllc", TRUE) => Undisturbed(s, g)

(* The writes w lead from t to e, through trees that fit and by legal       *)
(* writes.                                                                  *)
Path(w, t, e, s) ==
  \E f \in [0..Len(w) -> Trees] :
    /\ f[0] = t /\ f[Len(w)] = e
    /\ \A i \in 1..Len(w) : f[i] = Written(f[i - 1], w[i]) /\ Fits(f[i], s) /\ Legal(f[i - 1], f[i])

(* No writes lead nowhere.                                                  *)
LEMMA PathEmpty ==
  ASSUME NEW t \in Trees, NEW s
  PROVE  Path(<<>>, t, t, s)
<1> DEFINE f == [i \in 0..Len(<<>>) |-> t]
<1>1. f \in [0..Len(<<>>) -> Trees] /\ f[0] = t /\ f[Len(<<>>)] = t
  OBVIOUS
<1>2. \A i \in 1..Len(<<>>) : FALSE
  OBVIOUS
<1> HIDE DEF f
<1>3. QED
  BY <1>1, <1>2 DEF Path

LEMMA PathNil ==
  ASSUME NEW t, NEW e, NEW s, Path(<<>>, t, e, s)
  PROVE  e = t
BY DEF Path

(* One write leads to the tree it writes.                                   *)
LEMMA PathOne ==
  ASSUME NEW t \in Trees, NEW w \in Writes, NEW s, NEW u, u = Written(t, w),
         Fits(u, s), Legal(t, u)
  PROVE  Path(<<w>>, t, u, s)
<1> DEFINE v == <<w>>
           f == [i \in 0..Len(v) |-> IF i = 0 THEN t ELSE u]
<1>1. Len(v) = 1 /\ v[1] = w
  OBVIOUS
<1>2. u \in Trees
  BY WrittenTree
<1>3. f \in [0..Len(v) -> Trees] /\ f[0] = t /\ f[Len(v)] = u /\ f[1] = u
  BY <1>1, <1>2
<1>4. \A i \in 1..Len(v) : i = 1
  BY <1>1
<1> HIDE DEF f, v
<1>5. \A i \in 1..Len(v) : f[i] = Written(f[i - 1], v[i]) /\ Fits(f[i], s) /\ Legal(f[i - 1], f[i])
  BY <1>1, <1>3, <1>4
<1>6. Path(v, t, u, s)
  BY <1>3, <1>5 DEF Path
<1>7. QED
  BY <1>6 DEF v

(* What is left after the first write leads on from there.                  *)
LEMMA PathHead ==
  ASSUME NEW w \in Seq(Writes), w # <<>>, NEW t, NEW e, NEW s, Path(w, t, e, s)
  PROVE  /\ Written(t, Head(w)) \in Trees
         /\ Fits(Written(t, Head(w)), s) /\ Legal(t, Written(t, Head(w)))
         /\ Path(Tail(w), Written(t, Head(w)), e, s)
<1>1. PICK f \in [0..Len(w) -> Trees] :
    /\ f[0] = t /\ f[Len(w)] = e
    /\ \A i \in 1..Len(w) : f[i] = Written(f[i - 1], w[i]) /\ Fits(f[i], s) /\ Legal(f[i - 1], f[i])
  BY DEF Path
<1>2. /\ Len(w) \in Nat \ {0} /\ Len(Tail(w)) = Len(w) - 1
      /\ Head(w) = w[1] /\ \A i \in 1..Len(Tail(w)) : Tail(w)[i] = w[i + 1]
  BY HeadTailProperties, EmptySeq
<1>3. f[1] = Written(t, Head(w)) /\ f[1] \in Trees /\ Fits(f[1], s) /\ Legal(t, f[1])
  <2>1. 1 \in 1..Len(w) /\ 1 - 1 = 0 /\ 1 \in 0..Len(w)
    BY <1>2
  <2>2. QED
    BY <1>1, <1>2, <2>1
<1> DEFINE v == Tail(w)
           g == [i \in 0..Len(v) |-> f[i + 1]]
<1>4. \A i \in 0..Len(v) : i + 1 \in 0..Len(w) /\ g[i] = f[i + 1]
  BY <1>2
<1>5. g \in [0..Len(v) -> Trees] /\ g[0] = f[1] /\ g[Len(v)] = e
  BY <1>1, <1>2, <1>4
<1>6. ASSUME NEW i \in 1..Len(v)
      PROVE  g[i] = Written(g[i - 1], v[i]) /\ Fits(g[i], s) /\ Legal(g[i - 1], g[i])
  <2>1. /\ i + 1 \in 1..Len(w) /\ (i + 1) - 1 = i /\ i \in 0..Len(v) /\ i - 1 \in 0..Len(v) /\ (i - 1) + 1 = i
        /\ i \in Int
    BY <1>2
  <2>2. g[i] = f[i + 1] /\ g[i - 1] = f[i] /\ v[i] = w[i + 1]
    BY <2>1, <1>2, <1>4
  <2> HIDE DEF g, v
  <2>3. f[i + 1] = Written(f[i], w[i + 1]) /\ Fits(f[i + 1], s) /\ Legal(f[i], f[i + 1])
    BY <1>1, <2>1
  <2>4. QED
    BY <2>2, <2>3
<1> HIDE DEF g, v
<1>7. Path(v, f[1], e, s)
  BY <1>5, <1>6 DEF Path
<1>8. QED
  BY <1>3, <1>7 DEF v

(* Two sequences, one after the other.                                      *)
LEMMA PathConcat ==
  ASSUME NEW v \in Seq(Writes), NEW w \in Seq(Writes), NEW t, NEW m, NEW e, NEW s,
         Path(v, t, m, s), Path(w, m, e, s)
  PROVE  Path(v \o w, t, e, s)
<1>1. PICK f \in [0..Len(v) -> Trees] :
    /\ f[0] = t /\ f[Len(v)] = m
    /\ \A i \in 1..Len(v) : f[i] = Written(f[i - 1], v[i]) /\ Fits(f[i], s) /\ Legal(f[i - 1], f[i])
  BY DEF Path
<1>2. PICK g \in [0..Len(w) -> Trees] :
    /\ g[0] = m /\ g[Len(w)] = e
    /\ \A i \in 1..Len(w) : g[i] = Written(g[i - 1], w[i]) /\ Fits(g[i], s) /\ Legal(g[i - 1], g[i])
  BY DEF Path
<1> DEFINE x == v \o w
           h == [i \in 0..Len(x) |-> IF i <= Len(v) THEN f[i] ELSE g[i - Len(v)]]
<1>3. /\ Len(v) \in Nat /\ Len(w) \in Nat /\ Len(x) = Len(v) + Len(w)
      /\ \A i \in 1..Len(x) : x[i] = IF i <= Len(v) THEN v[i] ELSE w[i - Len(v)]
  BY ConcatProperties, LenProperties
<1>4. \A i \in 0..Len(x) : h[i] = IF i <= Len(v) THEN f[i] ELSE g[i - Len(v)]
  OBVIOUS
<1>5. h \in [0..Len(x) -> Trees]
  BY <1>1, <1>2, <1>3
<1> HIDE DEF h, x
<1>6. h[0] = t
  BY <1>1, <1>3, <1>4
<1>7. h[Len(x)] = e
  <2>1. Len(x) \in 0..Len(x) /\ Len(x) - Len(v) = Len(w) /\ (Len(x) <= Len(v) => Len(w) = 0 /\ Len(x) = Len(v))
    BY <1>3
  <2>2. QED
    BY <1>1, <1>2, <1>4, <2>1
<1>8. ASSUME NEW i \in 1..Len(x)
      PROVE  h[i] = Written(h[i - 1], x[i]) /\ Fits(h[i], s) /\ Legal(h[i - 1], h[i])
  <2>1. i \in Int /\ i \in 0..Len(x) /\ i - 1 \in 0..Len(x)
    BY <1>3
  <2>2. CASE i <= Len(v)
    <3> DEFINE k == i - 1
    <3>1. i \in 1..Len(v) /\ k \in 0..Len(x) /\ k <= Len(v) /\ i \in 1..Len(x)
      BY <2>1, <2>2, <1>3
    <3> HIDE DEF k
    <3>2. h[i] = f[i] /\ h[k] = f[k] /\ x[i] = v[i]
      BY <3>1, <2>1, <2>2, <1>3, <1>4
    <3>3. QED
      BY <3>1, <3>2, <1>1 DEF k
  <2>3. CASE ~(i <= Len(v))
    <3> DEFINE j == i - Len(v)
    <3>1. j \in 1..Len(w) /\ (i - 1) - Len(v) = j - 1
      BY <2>1, <2>3, <1>3
    <3>4. h[i] = g[j] /\ x[i] = w[j]
      BY <2>1, <2>3, <1>3, <1>4
    <3>2. h[i - 1] = g[j - 1]
      <4>1. CASE i - 1 <= Len(v)
        <5>1. i - 1 = Len(v) /\ j - 1 = 0
          BY <4>1, <2>1, <2>3, <1>3
        <5>2. QED
          BY <5>1, <4>1, <2>1, <1>1, <1>2, <1>4
      <4>2. CASE ~(i - 1 <= Len(v))
        BY <4>2, <2>1, <1>4, <3>1
      <4>3. QED
        BY <4>1, <4>2
    <3> HIDE DEF j
    <3>3. QED
      BY <3>1, <3>4, <3>2, <1>2
  <2>4. QED
    BY <2>2, <2>3
<1>9. Path(x, t, e, s)
  BY <1>5, <1>6, <1>7, <1>8 DEF Path
<1>10. QED
  BY <1>9 DEF x

(* The same, of well-formed writes, to a tree that fits.                    *)
Leads(w, t, u, s) ==
  /\ w \in Seq(Writes) /\ u \in Trees /\ Fits(u, s) /\ Path(w, t, u, s)

(* u is t with the value v in register g.                                   *)
Sets(g, v, t, u) == u[g] = v /\ \A k \in Registers \ {g} : u[k] = t[k]

LEMMA LeadsConcat ==
  ASSUME NEW v, NEW w, NEW t, NEW m, NEW e, NEW s, Leads(v, t, m, s), Leads(w, m, e, s)
  PROVE  Leads(v \o w, t, e, s)
BY PathConcat, ConcatProperties DEF Leads

LEMMA Nothing ==
  ASSUME NEW t \in Trees, NEW s, Fits(t, s)
  PROVE  Leads(<<>>, t, t, s)
BY PathEmpty DEF Leads

(* Five single writes in a row (and two).                                   *)
LEMMA LeadsFive ==
  ASSUME NEW a, NEW b, NEW c, NEW d, NEW e, NEW t, NEW t1, NEW t2, NEW t3, NEW t4, NEW t5, NEW s,
         Leads(<<a>>, t, t1, s), Leads(<<b>>, t1, t2, s), Leads(<<c>>, t2, t3, s),
         Leads(<<d>>, t3, t4, s), Leads(<<e>>, t4, t5, s)
  PROVE  Leads(<<a, b>>, t, t2, s) /\ Leads(<<a, b, c, d, e>>, t, t5, s)
<1> DEFINE S == {a, b, c, d, e}
<1>1. <<a, b>> = <<a>> \o <<b>>
  <2> DEFINE u == <<a>>   v == <<b>>   w == <<a, b>>
  <2>1. /\ u \in Seq(S) /\ v \in Seq(S) /\ w \in Seq(S)
        /\ Len(u) = 1 /\ u[1] = a /\ Len(v) = 1 /\ v[1] = b /\ Len(w) = 2 /\ w[1] = a /\ w[2] = b
    OBVIOUS
  <2> HIDE DEF u, v, w
  <2>2. u \o v \in Seq(S) /\ Len(u \o v) = 2 /\ (u \o v)[1] = a /\ (u \o v)[2] = b
    BY <2>1, ConcatProperties
  <2>3. u \o v = w
    BY <2>1, <2>2, SeqEqual
  <2>4. QED
    BY <2>3 DEF u, v, w
<1>2. <<a, b, c>> = <<a, b>> \o <<c>>
  OBVIOUS
<1>3. <<a, b, c, d>> = <<a, b, c>> \o <<d>>
  OBVIOUS
<1>4. <<a, b, c, d, e>> = <<a, b, c, d>> \o <<e>>
  OBVIOUS
<1>5. Leads(<<a, b>>, t, t2, s)
  BY <1>1, LeadsConcat
<1>6. Leads(<<a, b, c>>, t, t3, s)
  BY <1>2, <1>5, LeadsConcat
<1>7. Leads(<<a, b, c, d>>, t, t4, s)
  BY <1>3, <1>6, LeadsConcat
<1>8. Leads(<<a, b, c, d, e>>, t, t5, s)
  BY <1>4, <1>7, LeadsConcat
<1>9. QED
  BY <1>5, <1>8

(* Writing a generator: it must not put a clock on a modulated PLLC, nor    *)
(* change the source of one that runs.                                      *)
LEMMA Generator ==
  ASSUME NEW t \in Trees, NEW s \in Trees \cup {NoTree, Any}, Fits(t, s),
         NEW g \in Generators, NEW c \in Clock, NEW u, u = Written(t, W(g, c)),
         c = Gen("pllc", TRUE) /\ g # "gp0" /\ s # Any => Undisturbed(t, g) /\ (s # NoTree => Undisturbed(s, g)),
         g # "vpu" /\ c.src # t[g].src => ~t[g].run /\ ~c.run,
         g = "emmc2" => Bcm2711
  PROVE  Leads(<<W(g, c)>>, t, u, s) /\ Sets(g, c, t, u)
<1> DEFINE w == W(g, c)
<1>1. w \in Writes /\ w[1] = g /\ w[2] = c
  BY DEF W, Writes
<1> HIDE DEF w
<1>2. u \in Trees /\ u[g] = c /\ \A k \in Registers \ {g} : u[k] = t[k]
  BY <1>1, WrittenTree DEF w, Registers
<1>3. /\ \A k \in Settings : u[k] = t[k]
      /\ \A k \in Generators \ {g} : u[k] = t[k]
  BY <1>2 DEF Registers, Settings, Generators
<1>4. \A k \in Generators \ {"gp0"} : Undisturbed(u, k) <=> Undisturbed(t, k)
  BY <1>3 DEF Undisturbed, Settings
<1>5. s # Any => ~FedByModulated(u)
  BY <1>2, <1>3, <1>4 DEF FedByModulated, Fits
<1>6. Fits(u, s)
  BY <1>5, <1>2, <1>3 DEF Fits
<1>7. Legal(t, u)
  BY <1>2, <1>3 DEF Legal, Generators
<1>8. Path(<<w>>, t, u, s)
  BY <1>1, <1>6, <1>7, PathOne DEF w
<1>9. <<w>> \in Seq(Writes)
  BY <1>1
<1>10. QED
  BY <1>2, <1>6, <1>8, <1>9 DEF Leads, Sets, w

(* Writing a setting: back to the record's, or one that no storage clock    *)
(* depends on.                                                              *)
LEMMA SettingWrite ==
  ASSUME NEW t \in Trees, NEW s \in Trees \cup {NoTree, Any}, Fits(t, s),
         NEW k \in Settings, NEW v \in Setting, NEW u, u = Written(t, W(k, v)),
         \/ s = Any
         \/ s # NoTree /\ v = s[k]
         \/ k = "pacing"
         \/ \A g \in Generators \ {"gp0"} : t[g] # Gen("pllc", TRUE)
  PROVE  Leads(<<W(k, v)>>, t, u, s) /\ Sets(k, v, t, u)
<1> DEFINE w == W(k, v)
<1>1. w \in Writes /\ w[1] = k /\ w[2] = v
  BY DEF W, Writes
<1> HIDE DEF w
<1>2. u \in Trees /\ u[k] = v /\ \A g \in Registers \ {k} : u[g] = t[g]
  BY <1>1, WrittenTree DEF w, Registers
<1>3. /\ \A g \in Generators : u[g] = t[g]
      /\ \A g \in Settings \ {k} : u[g] = t[g]
  BY <1>2 DEF Registers, Settings, Generators
<1>4. ASSUME s # Any, NEW g \in Generators \ {"gp0"}, t[g] = Gen("pllc", TRUE)
      PROVE  Undisturbed(u, g)
  <2>1. Undisturbed(t, g) /\ (s # NoTree => Undisturbed(s, g))
    BY <1>4 DEF Fits, FedByModulated
  <2>2. CASE s # NoTree /\ v = s[k]
    BY <2>1, <2>2, <1>2, <1>3 DEF Undisturbed, Settings
  <2>3. CASE k = "pacing"
    BY <2>1, <2>3, <1>2, <1>3 DEF Undisturbed, Settings
  <2>4. QED
    BY <1>4, <2>2, <2>3
<1>5. s # Any => ~FedByModulated(u)
  BY <1>3, <1>4 DEF FedByModulated
<1>6. Fits(u, s)
  BY <1>5, <1>3 DEF Fits
<1>7. Legal(t, u)
  BY <1>3 DEF Legal, Generators
<1>8. Path(<<w>>, t, u, s)
  BY <1>1, <1>6, <1>7, PathOne DEF w
<1>9. <<w>> \in Seq(Writes)
  BY <1>1
<1>10. QED
  BY <1>2, <1>6, <1>8, <1>9 DEF Leads, Sets, w

(* Stop() leads to a stopped generator with the source it had.              *)
LEMMA Stopped ==
  ASSUME NEW t \in Trees, NEW s \in Trees \cup {NoTree, Any}, Fits(t, s),
         NEW g \in Generators, NEW now, now.src = t[g].src, g = "emmc2" => Bcm2711
  PROVE  \E u \in Trees : Leads(Stop(g, now), t, u, s) /\ Sets(g, Gen(t[g].src, FALSE), t, u)
<1> DEFINE c == Gen(t[g].src, FALSE)   u == Written(t, W(g, c))
<1>1. t[g] \in Clock
  BY DEF Trees, Generators
<1>2. c \in Clock /\ c.src = t[g].src /\ ~c.run /\ c # Gen("pllc", TRUE)
  BY <1>1 DEF Gen, Clock
<1>3. Stop(g, now) = <<W(g, c)>>
  BY DEF Stop
<1> HIDE DEF c
<1>4. Leads(<<W(g, c)>>, t, u, s) /\ Sets(g, c, t, u)
  BY <1>2, Generator
<1>5. QED
  BY <1>3, <1>4 DEF Leads, c

(* Program() leads to the source and state asked for.                       *)
LEMMA Programmed ==
  ASSUME NEW t \in Trees, NEW s \in Trees \cup {NoTree, Any}, Fits(t, s),
         NEW g \in Generators, NEW now, now.src = t[g].src, g = "emmc2" => Bcm2711,
         NEW src \in Sources, NEW run \in BOOLEAN,
         src = "pllc" /\ run /\ g # "gp0" /\ s # Any => Undisturbed(t, g) /\ (s # NoTree => Undisturbed(s, g))
  PROVE  \E u \in Trees : Leads(Program(g, now, src, run), t, u, s) /\ Sets(g, Gen(src, run), t, u)
<1>1. PICK t1 \in Trees : Leads(Stop(g, now), t, t1, s) /\ Sets(g, Gen(t[g].src, FALSE), t, t1)
  BY Stopped
<1> DEFINE off == Gen(src, FALSE)   on == Gen(src, TRUE)
           t2 == Written(t1, W(g, off))   t3 == Written(t2, W(g, on))
<1>2. /\ off \in Clock /\ ~off.run /\ off # Gen("pllc", TRUE) /\ off.src = src
      /\ on \in Clock /\ (on = Gen("pllc", TRUE) => src = "pllc") /\ on.src = src
      /\ Gen(t[g].src, FALSE).run = FALSE
  BY DEF Gen, Clock
<1>3. t1[g] = Gen(t[g].src, FALSE) /\ ~t1[g].run /\ Fits(t1, s)
  BY <1>1, <1>2 DEF Sets, Leads
<1> HIDE DEF off, on, t2, t3
<1>4. Leads(<<W(g, off)>>, t1, t2, s) /\ Sets(g, off, t1, t2)
  BY <1>2, <1>3, Generator DEF t2
<1>5. Leads(Stop(g, now) \o <<W(g, off)>>, t, t2, s)
  BY <1>1, <1>4, LeadsConcat
<1>6. t2 \in Trees /\ Fits(t2, s) /\ Sets(g, off, t, t2)
  BY <1>1, <1>4 DEF Leads, Sets
<1>7. CASE run
  <2>1. Undisturbed(t2, g) <=> Undisturbed(t, g)
    BY <1>6 DEF Undisturbed, Sets, Registers, Generators, Settings
  <2>2. Leads(<<W(g, on)>>, t2, t3, s) /\ Sets(g, on, t2, t3)
    <3>1. t2[g] = off
      BY <1>6 DEF Sets
    <3>2. on = Gen("pllc", TRUE) /\ g # "gp0" /\ s # Any => Undisturbed(t2, g) /\ (s # NoTree => Undisturbed(s, g))
      BY <1>2, <1>7, <2>1
    <3>3. QED
      BY <1>2, <1>6, <3>1, <3>2, Generator DEF t3
  <2>3. Leads((Stop(g, now) \o <<W(g, off)>>) \o <<W(g, on)>>, t, t3, s)
    BY <1>5, <2>2, LeadsConcat
  <2>4. t3 \in Trees /\ Sets(g, Gen(src, run), t, t3)
    BY <1>6, <1>7, <2>2 DEF Leads, Sets, on
  <2>5. Program(g, now, src, run) = (Stop(g, now) \o <<W(g, off)>>) \o <<W(g, on)>>
    BY <1>7 DEF Program, off, on
  <2>6. QED
    BY <2>3, <2>4, <2>5
<1>8. CASE ~run
  <2>1. Stop(g, now) \o <<W(g, off)>> \in Seq(Writes)
    BY <1>5 DEF Leads
  <2>2. Program(g, now, src, run) = Stop(g, now) \o <<W(g, off)>>
    BY <1>8, <2>1, ConcatEmptySeq DEF Program, off
  <2>3. Gen(src, run) = off
    BY <1>8 DEF off
  <2>4. QED
    BY <1>5, <1>6, <2>2, <2>3
<1>9. QED
  BY <1>7, <1>8

(* What cm_restore_tree() leads to: a SoC without an EMMC2 generator keeps  *)
(* that register.                                                           *)
Back(t, s) == IF Bcm2711 THEN s ELSE [s EXCEPT !.emmc2 = t.emmc2]

LEMMA BackFields ==
  ASSUME NEW t \in Trees, NEW s \in Trees
  PROVE  /\ Back(t, s) \in Trees
         /\ \A g \in Registers \ {"emmc2"} : Back(t, s)[g] = s[g]
         /\ Back(t, s)["emmc2"] = IF Bcm2711 THEN s["emmc2"] ELSE t["emmc2"]
BY DEF Back, Trees, Registers, Generators, Settings

(* cm_restore_tree(), from any tree that has the sources it was planned     *)
(* for.                                                                     *)
LEMMA RestoredTree ==
  ASSUME NEW t \in Trees, NEW t0 \in Trees, NEW s \in Trees, NEW k \in {s, Any}, Fits(t0, k),
         \A g \in Generators : t0[g].src = t[g].src,
         t0.emmc2 = t.emmc2, t0.pacing = s.pacing
  PROVE  Leads(RestoreTree(t, s), t0, Back(t, s), k)
<1>0. /\ {"vpu", "emmc", "emmc2", "gp0"} = Generators
      /\ {"ana", "ctrl", "core0", "per", "pacing"} = Settings
      /\ Generators \cap Settings = {} /\ Registers = Generators \cup Settings
      /\ s \in Trees \cup {NoTree} /\ s # NoTree
      /\ k \in Trees \cup {NoTree, Any} /\ (k # Any => k = s)
  BY SessionAssumption DEF Generators, Settings, Registers
<1>1. PICK t1 \in Trees : Leads(Stop("gp0", t.gp0), t0, t1, k) /\ Sets("gp0", Gen(t0["gp0"].src, FALSE), t0, t1)
  BY <1>0, Stopped
<1> DEFINE t2 == Written(t1, W("ana", s.ana))
           t3 == Written(t2, W("ctrl", s.ctrl))
           t4 == Written(t3, W("per", s.per))
           t5 == Written(t4, W("core0", s.core0))
           t6 == Written(t5, W("vpu", s.vpu))
<1>2. s.ana \in Setting /\ s.ctrl \in Setting /\ s.per \in Setting /\ s.core0 \in Setting
      /\ \A g \in Generators : s[g] \in Clock
  BY DEF Trees, Generators
<1> HIDE DEF t2, t3, t4, t5, t6
<1>3. Leads(<<W("ana", s.ana)>>, t1, t2, k) /\ Sets("ana", s.ana, t1, t2)
  BY <1>0, <1>1, <1>2, SettingWrite DEF t2, Leads
<1>4. Leads(<<W("ctrl", s.ctrl)>>, t2, t3, k) /\ Sets("ctrl", s.ctrl, t2, t3)
  BY <1>0, <1>3, <1>2, SettingWrite DEF t3, Leads
<1>5. Leads(<<W("per", s.per)>>, t3, t4, k) /\ Sets("per", s.per, t3, t4)
  BY <1>0, <1>4, <1>2, SettingWrite DEF t4, Leads
<1>6. Leads(<<W("core0", s.core0)>>, t4, t5, k) /\ Sets("core0", s.core0, t4, t5)
  BY <1>0, <1>5, <1>2, SettingWrite DEF t5, Leads
<1>7. /\ t5 \in Trees /\ Fits(t5, k)
      /\ t5["ana"] = s["ana"] /\ t5["ctrl"] = s["ctrl"] /\ t5["per"] = s["per"] /\ t5["core0"] = s["core0"]
      /\ t5["pacing"] = s["pacing"] /\ \A g \in Generators \ {"gp0"} : t5[g] = t0[g]
      /\ t5["gp0"].src = t["gp0"].src
  <2>1. t1["gp0"].src = t0["gp0"].src
    BY <1>1 DEF Sets, Gen
  <2>2. t2["ana"] = s["ana"] /\ \A g \in Registers \ {"gp0", "ana"} : t2[g] = t0[g]
    BY <1>0, <1>1, <1>3 DEF Sets
  <2>3. /\ t3["ana"] = s["ana"] /\ t3["ctrl"] = s["ctrl"]
        /\ \A g \in Registers \ {"gp0", "ana", "ctrl"} : t3[g] = t0[g]
    BY <1>0, <2>2, <1>4 DEF Sets
  <2>4. /\ t4["ana"] = s["ana"] /\ t4["ctrl"] = s["ctrl"] /\ t4["per"] = s["per"]
        /\ \A g \in Registers \ {"gp0", "ana", "ctrl", "per"} : t4[g] = t0[g]
    BY <1>0, <2>3, <1>5 DEF Sets
  <2>5. /\ t5["ana"] = s["ana"] /\ t5["ctrl"] = s["ctrl"] /\ t5["per"] = s["per"] /\ t5["core0"] = s["core0"]
        /\ \A g \in Registers \ {"gp0", "ana", "ctrl", "per", "core0"} : t5[g] = t0[g]
    BY <1>0, <2>4, <1>6 DEF Sets
  <2>6. t5["gp0"] = t1["gp0"]
    BY <1>0, <1>3, <1>4, <1>5, <1>6 DEF Sets
  <2>7. QED
    BY <2>1, <2>5, <2>6, <1>0, <1>1, <1>6 DEF Leads
<1>8. ASSUME k # Any, NEW g \in Generators \ {"gp0"}, s[g].src = "pllc", s[g].run
      PROVE  \A u \in Trees : u.ana = s.ana /\ u.ctrl = s.ctrl /\ u.per = s.per /\ u.core0 = s.core0
                => Undisturbed(u, g) /\ Undisturbed(s, g)
  <2>1. s[g] = Gen("pllc", TRUE)
    BY <1>2, <1>8, ClockGen
  <2>2. Undisturbed(s, g)
    BY <2>1, <1>8, <1>0, <1>7 DEF Fits
  <2>3. QED
    BY <2>2 DEF Undisturbed
<1>9. Leads(<<W("vpu", s.vpu)>>, t5, t6, k) /\ Sets("vpu", s.vpu, t5, t6)
  <2>1. k # Any /\ s["vpu"] = Gen("pllc", TRUE) => Undisturbed(t5, "vpu") /\ Undisturbed(s, "vpu")
    BY <1>0, <1>7, <1>8 DEF Gen
  <2>2. QED
    BY <2>1, <1>0, <1>2, <1>7, Generator DEF t6
<1>10. /\ t6 \in Trees /\ Fits(t6, k)
       /\ \A g \in Settings \cup {"vpu"} : t6[g] = s[g]
       /\ \A g \in {"emmc", "emmc2"} : t6[g] = t0[g]
       /\ t6["gp0"].src = t["gp0"].src
  BY <1>0, <1>7, <1>9 DEF Sets, Leads
<1>11. PICK t7 \in Trees : /\ Leads(Program("emmc", t.emmc, s.emmc.src, s.emmc.run), t6, t7, k)
                           /\ Sets("emmc", Gen(s.emmc.src, s.emmc.run), t6, t7)
  <2>1. t6["emmc"].src = t.emmc.src /\ s.emmc.src \in Sources /\ s.emmc.run \in BOOLEAN
    BY <1>0, <1>2, <1>10, ClockGen
  <2>2. k # Any /\ s.emmc.src = "pllc" /\ s.emmc.run => Undisturbed(t6, "emmc") /\ Undisturbed(s, "emmc")
    BY <1>0, <1>8, <1>10
  <2>3. QED
    BY <2>1, <2>2, <1>0, <1>10, Programmed
<1>12. /\ t7 \in Trees /\ Fits(t7, k)
       /\ \A g \in Settings \cup {"vpu", "emmc"} : t7[g] = s[g]
       /\ t7["emmc2"] = t0["emmc2"] /\ t7["gp0"].src = t["gp0"].src
  BY <1>0, <1>2, <1>10, <1>11, ClockGen DEF Sets, Leads
<1> DEFINE w8 == IF Bcm2711 THEN Program("emmc2", t.emmc2, s.emmc2.src, s.emmc2.run) ELSE <<>>
<1>13. PICK t8 \in Trees : /\ Leads(w8, t7, t8, k)
                           /\ \A g \in Registers \ {"emmc2"} : t8[g] = t7[g]
                           /\ t8["emmc2"] = IF Bcm2711 THEN s["emmc2"] ELSE t["emmc2"]
  <2>1. CASE Bcm2711
    <3>1. t7["emmc2"].src = t.emmc2.src /\ s.emmc2.src \in Sources /\ s.emmc2.run \in BOOLEAN
      BY <1>0, <1>2, <1>12, ClockGen
    <3>2. k # Any /\ s.emmc2.src = "pllc" /\ s.emmc2.run => Undisturbed(t7, "emmc2") /\ Undisturbed(s, "emmc2")
      BY <1>0, <1>8, <1>12
    <3>3. PICK u \in Trees : /\ Leads(Program("emmc2", t.emmc2, s.emmc2.src, s.emmc2.run), t7, u, k)
                             /\ Sets("emmc2", Gen(s.emmc2.src, s.emmc2.run), t7, u)
      BY <2>1, <3>1, <3>2, <1>0, <1>12, Programmed
    <3>4. Gen(s.emmc2.src, s.emmc2.run) = s["emmc2"]
      BY <1>0, <1>2, ClockGen
    <3>5. QED
      BY <2>1, <3>3, <3>4 DEF Sets
  <2>2. CASE ~Bcm2711
    BY <2>2, <1>12, Nothing
  <2>3. QED
    BY <2>1, <2>2
<1> HIDE DEF w8
<1>14. PICK t9 \in Trees : /\ Leads(Program("gp0", t.gp0, s.gp0.src, s.gp0.run), t8, t9, k)
                           /\ Sets("gp0", Gen(s.gp0.src, s.gp0.run), t8, t9)
  <2>1. t8["gp0"].src = t.gp0.src /\ s.gp0.src \in Sources /\ s.gp0.run \in BOOLEAN
    BY <1>0, <1>2, <1>12, <1>13, ClockGen
  <2>2. QED
    BY <2>1, <1>0, <1>13, Programmed DEF Leads
<1>15. t9 = Back(t, s)
  <2>1. Gen(s.gp0.src, s.gp0.run) = s["gp0"]
    BY <1>0, <1>2, ClockGen
  <2>2. \A g \in Registers : t9[g] = Back(t, s)[g]
    BY <2>1, <1>0, <1>12, <1>13, <1>14, BackFields DEF Sets
  <2>3. QED
    BY <2>2, BackFields, TreesAgree
<1> DEFINE five == <<W("ana", s.ana), W("ctrl", s.ctrl), W("per", s.per), W("core0", s.core0), W("vpu", s.vpu)>>
<1>16. Leads(five, t1, t6, k)
  BY <1>3, <1>4, <1>5, <1>6, <1>9, LeadsFive, Zenon
<1> DEFINE w1 == Stop("gp0", t.gp0)
           w7 == Program("emmc", t.emmc, s.emmc.src, s.emmc.run)
           w9 == Program("gp0", t.gp0, s.gp0.src, s.gp0.run)
<1>17. RestoreTree(t, s) = (((w1 \o five) \o w7) \o w8) \o w9
  BY DEF RestoreTree, w8
<1> HIDE DEF w1, five, w7, w9
<1>18. Leads(w1 \o five, t0, t6, k)
  BY <1>1, <1>16, LeadsConcat DEF w1
<1>19. Leads((w1 \o five) \o w7, t0, t7, k)
  BY <1>18, <1>11, LeadsConcat DEF w7
<1>20. Leads(((w1 \o five) \o w7) \o w8, t0, t8, k)
  BY <1>19, <1>13, LeadsConcat
<1>21. Leads((((w1 \o five) \o w7) \o w8) \o w9, t0, t9, k)
  BY <1>20, <1>14, LeadsConcat DEF w9
<1>22. QED
  BY <1>15, <1>17, <1>21

(* The clocks have been moved off PLLC, and GPCLK0 is on it.                *)
Moved(t) == t.vpu.src = "plla" /\ t.emmc.src = "plld" /\ t.emmc2.src # "pllc" /\ t.gp0.src = "pllc"

(* The writes of a retune.                                                  *)
Retuning == {W("gp0", Gen("pllc", run)) : run \in BOOLEAN} \cup {W(k, "tx") : k \in {"ana", "ctrl", "pacing"}}

(* Once they have been moved, no storage clock runs from PLLC.              *)
LEMMA MovedRuns ==
  ASSUME NEW t \in Trees, t.vpu.src # "pllc", t.emmc.src # "pllc", t.emmc2.src # "pllc"
  PROVE  \A g \in Generators \ {"gp0"} : t[g] # Gen("pllc", TRUE)
BY DEF Generators, Gen

(* No write of a retune disturbs that, or is seen by the record.            *)
LEMMA RetuningKeeps ==
  ASSUME NEW t \in Trees, NEW s \in Trees \cup {NoTree, Any}, Fits(t, s), Moved(t), NEW w \in Retuning
  PROVE  /\ Written(t, w) \in Trees /\ Moved(Written(t, w)) /\ Fits(Written(t, w), s)
         /\ Legal(t, Written(t, w)) /\ w \in Writes
<1> DEFINE u == Written(t, w)
<1>1. \A g \in Generators \ {"gp0"} : t[g] # Gen("pllc", TRUE)
  BY MovedRuns DEF Moved
<1>2. CASE \E run \in BOOLEAN : w = W("gp0", Gen("pllc", run))
  <2>1. PICK run \in BOOLEAN : w = W("gp0", Gen("pllc", run))
    BY <1>2
  <2>2. Gen("pllc", run) \in Clock /\ Gen("pllc", run).src = "pllc" /\ w \in Writes /\ w[1] = "gp0" /\ w[2] = Gen("pllc", run)
    BY <2>1 DEF Gen, Clock, Sources, Writes, W, Generators
  <2>3. t["gp0"].src = "pllc"
    BY DEF Moved
  <2> DEFINE c == Gen("pllc", run)
  <2> HIDE DEF c
  <2>4. Leads(<<W("gp0", c)>>, t, Written(t, W("gp0", c)), s) /\ Sets("gp0", c, t, Written(t, W("gp0", c)))
    BY <2>2, <2>3, Generator DEF Generators, c
  <2>5. u \in Trees /\ Fits(u, s) /\ u["gp0"] = c /\ \A k \in Registers \ {"gp0"} : u[k] = t[k]
    BY <2>1, <2>4 DEF Leads, Sets, c
  <2> HIDE DEF u
  <2>6. Moved(u)
    BY <2>5, <2>2 DEF Moved, Registers, Generators, Settings, c
  <2>7. Legal(t, u)
    BY <2>5, <2>2, <2>3 DEF Legal, Registers, Generators, Settings, c
  <2>8. QED
    BY <2>2, <2>5, <2>6, <2>7 DEF u
<1>3. CASE \E k \in {"ana", "ctrl", "pacing"} : w = W(k, "tx")
  <2>1. PICK k \in {"ana", "ctrl", "pacing"} : w = W(k, "tx")
    BY <1>3
  <2>2. k \in Settings /\ "tx" \in Setting /\ w \in Writes
    BY <2>1 DEF Settings, Setting, Writes, W
  <2>3. Leads(<<W(k, "tx")>>, t, u, s) /\ Sets(k, "tx", t, u)
    BY <1>1, <2>1, <2>2, SettingWrite
  <2> HIDE DEF u
  <2>4. u \in Trees /\ Fits(u, s) /\ \A g \in Generators : u[g] = t[g]
    BY <2>2, <2>3 DEF Leads, Sets, Registers, Generators, Settings
  <2>5. QED
    BY <2>2, <2>4 DEF u, Moved, Legal, Generators
<1>4. QED
  BY <1>2, <1>3 DEF Retuning

(* SetCenterFrequency() and the pacing clock are such writes.               *)
LEMMA TuneIsRetuning == TuneWrites \in Seq(Retuning)
<1> DEFINE off == W("gp0", Gen("pllc", FALSE))   ana == W("ana", "tx")
           ctrl == W("ctrl", "tx")   on == W("gp0", Gen("pllc", TRUE))   pacing == W("pacing", "tx")
<1>1. off \in Retuning /\ ana \in Retuning /\ ctrl \in Retuning /\ on \in Retuning /\ pacing \in Retuning
  BY DEF Retuning
<1>2. TuneWrites = ((((<<off>> \o <<off>>) \o <<>>) \o <<ana>>) \o <<ctrl>>) \o <<on>> \o <<pacing>>
  BY DEF TuneWrites, Program, Stop, MasterWrites, PacingWrites, Gen
<1> HIDE DEF off, ana, ctrl, on, pacing
<1>3. QED
  BY <1>1, <1>2, ConcatProperties, EmptySeq

(* SetAdvancedPllMode(true) leads off PLLC.                                 *)
LEMMA AdvanceLeads ==
  ASSUME NEW t \in Trees, NEW s \in Trees \cup {NoTree, Any}, Fits(t, s), ~Bcm2711 => t.emmc2.src # "pllc"
  PROVE  \E u \in Trees : Leads(AdvanceWrites(t), t, u, s) /\ Moved(u)
<1>0. /\ {"vpu", "emmc", "emmc2", "gp0"} = Generators
      /\ {"ana", "ctrl", "core0", "per", "pacing"} = Settings
      /\ Registers = Generators \cup Settings /\ "tx" \in Setting
      /\ {"osc", "plla", "pllc", "plld"} = Sources
      /\ \A g \in Generators : t[g] \in Clock
  BY DEF Generators, Settings, Registers, Sources, Trees, Setting
<1> DEFINE plla == Gen("plla", TRUE)
           t1 == Written(t, W("vpu", plla))
<1>1. plla \in Clock /\ plla # Gen("pllc", TRUE) /\ plla.src = "plla"
  BY <1>0 DEF Gen, Clock
<1> HIDE DEF plla, t1
<1>2. Leads(<<W("vpu", plla)>>, t, t1, s) /\ Sets("vpu", plla, t, t1)
  BY <1>0, <1>1, Generator DEF t1
<1>3. PICK t2 \in Trees : Leads(Program("emmc", t.emmc, "plld", TRUE), t1, t2, s) /\ Sets("emmc", Gen("plld", TRUE), t1, t2)
  <2>1. t1 \in Trees /\ Fits(t1, s) /\ t1["emmc"] = t["emmc"]
    BY <1>0, <1>2 DEF Sets, Leads
  <2>2. t.emmc.src = t1["emmc"].src /\ "plld" \in Sources /\ "emmc" \in Generators
    BY <1>0, <2>1
  <2>3. QED
    BY <2>1, <2>2, Programmed
<1>4. /\ t2["vpu"].src = "plla" /\ t2["emmc"].src = "plld" /\ Fits(t2, s)
      /\ t2["emmc2"] = t["emmc2"] /\ t2["gp0"] = t["gp0"]
  BY <1>0, <1>1, <1>2, <1>3 DEF Sets, Leads, Gen
<1>5. PICK t3 \in Trees : /\ Leads(MoveEmmc2(t), t2, t3, s) /\ t3["emmc2"].src # "pllc"
                          /\ \A k \in Registers \ {"emmc2"} : t3[k] = t2[k]
  <2>1. CASE Bcm2711 /\ t.emmc2.src = "pllc"
    <3>1. t.emmc2.run \in BOOLEAN
      BY <1>0, ClockGen
    <3>2. PICK u \in Trees : /\ Leads(Program("emmc2", t.emmc2, "plld", t.emmc2.run), t2, u, s)
                             /\ Sets("emmc2", Gen("plld", t.emmc2.run), t2, u)
      BY <2>1, <3>1, <1>0, <1>4, Programmed
    <3>3. QED
      BY <2>1, <3>2 DEF MoveEmmc2, Sets, Gen
  <2>2. CASE ~(Bcm2711 /\ t.emmc2.src = "pllc")
    BY <2>2, <1>4, Nothing DEF MoveEmmc2
  <2>3. QED
    BY <2>1, <2>2
<1>6. /\ Fits(t3, s) /\ t3["gp0"].src = t.gp0.src
      /\ t3["vpu"].src = "plla" /\ t3["emmc"].src = "plld"
  BY <1>0, <1>4, <1>5 DEF Leads
<1>7. PICK t4 \in Trees : Leads(Program("gp0", t.gp0, "pllc", FALSE), t3, t4, s) /\ Sets("gp0", Gen("pllc", FALSE), t3, t4)
  BY <1>0, <1>6, Programmed
<1>8. Fits(t4, s) /\ Moved(t4)
  BY <1>0, <1>5, <1>6, <1>7 DEF Leads, Sets, Moved, Gen
<1> DEFINE t5 == Written(t4, W("core0", "tx"))   t6 == Written(t5, W("per", "tx"))
<1>9. \A g \in Generators \ {"gp0"} : t4[g] # Gen("pllc", TRUE)
  BY <1>8, MovedRuns DEF Moved
<1> HIDE DEF t5, t6
<1>10. Leads(<<W("core0", "tx")>>, t4, t5, s) /\ Sets("core0", "tx", t4, t5)
  BY <1>0, <1>8, <1>9, SettingWrite DEF t5
<1>11. Fits(t5, s) /\ t5 \in Trees /\ \A g \in Generators : t5[g] = t4[g]
  BY <1>0, <1>10 DEF Leads, Sets
<1>12. Leads(<<W("per", "tx")>>, t5, t6, s) /\ Sets("per", "tx", t5, t6)
  BY <1>0, <1>9, <1>11, SettingWrite DEF t6
<1>13. t6 \in Trees /\ Moved(t6)
  BY <1>0, <1>8, <1>11, <1>12 DEF Leads, Sets, Moved
<1> DEFINE w1 == <<W("vpu", plla)>>   w2 == Program("emmc", t.emmc, "plld", TRUE)   w3 == MoveEmmc2(t)
           w4 == Program("gp0", t.gp0, "pllc", FALSE)   w5 == <<W("core0", "tx"), W("per", "tx")>>
<1>14. AdvanceWrites(t) = (((w1 \o w2) \o w3) \o w4) \o w5
  BY DEF AdvanceWrites, plla
<1>15. Leads(w5, t4, t6, s)
  <2> DEFINE a == W("core0", "tx")  b == W("per", "tx")
  <2>1. <<a, b>> = <<a>> \o <<b>>
    OBVIOUS
  <2>2. QED
    BY <1>10, <1>12, <2>1, LeadsConcat
<1> HIDE DEF w1, w2, w3, w4, w5
<1>16. Leads(w1 \o w2, t, t2, s)
  BY <1>2, <1>3, LeadsConcat DEF w1, w2
<1>17. Leads((w1 \o w2) \o w3, t, t3, s)
  BY <1>16, <1>5, LeadsConcat DEF w3
<1>18. Leads(((w1 \o w2) \o w3) \o w4, t, t4, s)
  BY <1>17, <1>7, LeadsConcat DEF w4
<1>19. QED
  BY <1>13, <1>14, <1>15, <1>18, LeadsConcat

(* The destructors, pacing clock first, lead back to the tree as saved.     *)
LEMMA CloseLeads ==
  ASSUME NEW t \in Trees, NEW t0 \in Trees, NEW s \in Trees, NEW k \in {s, Any}, Fits(t0, k), \A g \in Generators : t0[g].src = t[g].src,
         t0.emmc2 = t.emmc2
  PROVE  Leads(RestorePacing(s) \o RestoreTree(t, s), t0, Back(t, s), k)
<1> DEFINE u == Written(t0, W("pacing", s.pacing))
<1>1. "pacing" \in Settings /\ s.pacing \in Setting /\ k \in Trees \cup {NoTree, Any} /\ (k # Any => k = s) /\ s # NoTree
  BY SessionAssumption DEF Settings, Trees
<1> HIDE DEF u
<1>2. Leads(<<W("pacing", s.pacing)>>, t0, u, k) /\ Sets("pacing", s.pacing, t0, u)
  BY <1>1, SettingWrite DEF u
<1>3. /\ u \in Trees /\ Fits(u, k) /\ \A g \in Generators : u[g] = t0[g]
      /\ u["emmc2"] = t["emmc2"] /\ u["pacing"] = s["pacing"]
  BY <1>2 DEF Leads, Sets, Registers, Generators, Settings
<1>4. Leads(RestoreTree(t, s), u, Back(t, s), k)
  BY <1>3, RestoredTree
<1>5. QED
  BY <1>2, <1>4, LeadsConcat DEF RestorePacing

(* The recovery leads there too, or stops GPCLK0 when the record has no     *)
(* tree.                                                                    *)
LEMMA RecoverLeads ==
  ASSUME NEW t \in Trees, NEW s \in Trees \cup {NoTree}, NEW k \in {s, Any}, Fits(t, k)
  PROVE  \E u \in Trees :
           /\ Leads(Stop("gp0", t.gp0) \o (IF s = NoTree THEN <<>> ELSE RestorePacing(s) \o RestoreTree(t, s)), t, u, k)
           /\ IF s = NoTree THEN u = [t EXCEPT !.gp0.run = FALSE] ELSE u = Back(t, s)
<1>1. PICK t1 \in Trees : Leads(Stop("gp0", t.gp0), t, t1, k) /\ Sets("gp0", Gen(t["gp0"].src, FALSE), t, t1)
  BY Stopped DEF Generators
<1>2. CASE s = NoTree
  <2>1. t1 = [t EXCEPT !.gp0.run = FALSE]
    <3> DEFINE u == [t EXCEPT !.gp0.run = FALSE]
    <3>1. u \in Trees /\ u["gp0"] = Gen(t["gp0"].src, FALSE) /\ \A g \in Registers \ {"gp0"} : u[g] = t[g]
      BY DEF Trees, Clock, Gen, Registers, Generators, Settings
    <3> HIDE DEF u
    <3>2. \A g \in Registers : t1[g] = u[g]
      BY <3>1, <1>1 DEF Sets
    <3>3. t1 = u
      BY <3>1, <3>2, TreesAgree
    <3>4. QED
      BY <3>3 DEF u
  <2>2. Leads(Stop("gp0", t.gp0) \o <<>>, t, t1, k)
    BY <1>1, Nothing, LeadsConcat DEF Leads
  <2>3. QED
    BY <1>2, <2>1, <2>2
<1>3. CASE s # NoTree
  <2>1. /\ \A g \in Generators : t1[g].src = t[g].src
        /\ t1["emmc2"] = t["emmc2"] /\ Fits(t1, k)
    BY <1>1 DEF Sets, Leads, Gen, Registers, Generators, Settings
  <2>2. Leads(RestorePacing(s) \o RestoreTree(t, s), t1, Back(t, s), k)
    BY <1>3, <2>1, CloseLeads
  <2>3. Back(t, s) \in Trees
    BY <1>3, BackFields
  <2>4. QED
    BY <1>1, <1>3, <2>2, <2>3, LeadsConcat
<1>4. QED
  BY <1>2, <1>3

(* The first of the writes still to do is legal and fits, and the rest      *)
(* leads on.                                                                *)
LEMMA LeadsHead ==
  ASSUME NEW w, w # <<>>, NEW t, NEW u, NEW s, Leads(w, t, u, s)
  PROVE  /\ Written(t, Head(w)) \in Trees /\ Fits(Written(t, Head(w)), s) /\ Legal(t, Written(t, Head(w)))
         /\ Leads(Tail(w), Written(t, Head(w)), u, s)
BY PathHead, HeadTailProperties DEF Leads

(* The record the clocks have to fit: none once a recovery could not stop   *)
(* the channel.                                                             *)
Level(l, s) == IF l THEN Any ELSE s

LEMMA LevelKind ==
  ASSUME NEW l \in BOOLEAN, NEW s \in Trees \cup {NoTree}
  PROVE  /\ Level(l, s) \in {s, Any} /\ Level(l, s) \in Trees \cup {NoTree, Any}
         /\ (l => Level(l, s) = Any) /\ (~l => Level(l, s) = s /\ Level(l, s) # Any)
BY AnyTree DEF Level

(* What fits a record fits one without a tree, and what fits any fits       *)
(* itself.                                                                  *)
LEMMA FitsNone ==
  ASSUME NEW t, NEW l \in BOOLEAN, NEW s \in Trees \cup {NoTree}, Fits(t, Level(l, s))
  PROVE  Fits(t, Level(l, NoTree))
BY AnyTree DEF Fits, Level

LEMMA FitsSelf ==
  ASSUME NEW t \in Trees, NEW l \in BOOLEAN, NEW s \in Trees \cup {NoTree}, Fits(t, Level(l, s))
  PROVE  Fits(t, Level(l, t))
BY AnyTree DEF Fits, Level, FedByModulated

(* SignalSafeStop() and the recovery tool stop GPCLK0, which disturbs       *)
(* nothing.                                                                 *)
LEMMA Silenced ==
  ASSUME NEW t \in Trees, NEW u, u = [t EXCEPT !.gp0.run = FALSE]
  PROVE  /\ u \in Trees /\ Legal(t, u) /\ (Moved(t) => Moved(u))
         /\ \A g \in Generators \ {"gp0"} : u[g] = t[g]
         /\ \A s : Fits(t, s) => Fits(u, s)
<1>1. /\ u \in Trees /\ u.gp0.src = t.gp0.src
      /\ \A g \in Registers \ {"gp0"} : u[g] = t[g]
  BY DEF Trees, Clock, Registers, Generators, Settings
<1>2. \A g \in Generators : u[g].src = t[g].src
  BY <1>1 DEF Registers, Generators
<1>3. \A g \in Generators \ {"gp0"} : u[g] = t[g] /\ (Undisturbed(u, g) <=> Undisturbed(t, g))
  BY <1>1 DEF Registers, Generators, Settings, Undisturbed
<1>4. Legal(t, u)
  BY <1>2, <1>3 DEF Legal, Generators
<1>5. Moved(t) => Moved(u)
  BY <1>2 DEF Moved, Generators
<1>6. \A s : Fits(t, s) => Fits(u, s)
  BY <1>3 DEF Fits, FedByModulated
<1>7. QED
  BY <1>1, <1>3, <1>4, <1>5, <1>6

(* The engine modulates PLLC, which is harmless when nothing else runs from *)
(* it.                                                                      *)
LEMMA Modulated ==
  ASSUME NEW t \in Trees, NEW u, u = [t EXCEPT !.ctrl = "tx"]
  PROVE  /\ u \in Trees /\ Legal(t, u) /\ (Moved(t) => Moved(u))
         /\ \A g \in Generators : u[g] = t[g]
         /\ \A s : Fits(t, s) /\ (s = Any \/ \A g \in Generators \ {"gp0"} : t[g] # Gen("pllc", TRUE)) => Fits(u, s)
<1>1. u \in Trees /\ \A g \in Registers \ {"ctrl"} : u[g] = t[g]
  BY DEF Trees, Setting, Registers, Generators, Settings
<1>2. \A g \in Generators : u[g] = t[g]
  BY <1>1 DEF Registers, Generators, Settings
<1>3. Legal(t, u)
  BY <1>2 DEF Legal, Generators
<1>4. Moved(t) => Moved(u)
  BY <1>2 DEF Moved, Generators
<1>5. \A s : Fits(t, s) /\ (s = Any \/ \A g \in Generators \ {"gp0"} : t[g] # Gen("pllc", TRUE)) => Fits(u, s)
  BY <1>2 DEF Fits, FedByModulated
<1>6. QED
  BY <1>1, <1>2, <1>3, <1>4, <1>5

(* Whatever is still to be written can be written over a modulated PLLC.    *)
LEMMA ModulatedLeads ==
  ASSUME NEW t \in Trees, NEW w, NEW e \in Trees, Leads(w, t, e, Any), NEW t2, t2 = [t EXCEPT !.ctrl = "tx"]
  PROVE  \E e2 \in Trees : Leads(w, t2, e2, Any)
<1>1. PICK f \in [0..Len(w) -> Trees] :
    /\ f[0] = t /\ f[Len(w)] = e
    /\ \A i \in 1..Len(w) : f[i] = Written(f[i - 1], w[i]) /\ Fits(f[i], Any) /\ Legal(f[i - 1], f[i])
  BY DEF Leads, Path
<1>2. w \in Seq(Writes) /\ Len(w) \in Nat /\ \A i \in 1..Len(w) : w[i] \in Writes
  BY DEF Leads
<1> DEFINE Over(i) == \E j \in 1..i : w[j][1] = "ctrl"
           g == [i \in 0..Len(w) |-> IF Over(i) THEN f[i] ELSE [f[i] EXCEPT !.ctrl = "tx"]]
<1>3. ASSUME NEW u \in Trees
      PROVE  [u EXCEPT !.ctrl = "tx"] \in Trees /\ [u EXCEPT !.ctrl = "tx"]["ctrl"] = "tx"
             /\ \A k \in Registers \ {"ctrl"} : [u EXCEPT !.ctrl = "tx"][k] = u[k]
  BY DEF Trees, Setting, Registers, Generators, Settings
<1>4. \A i \in 0..Len(w) : g[i] = IF Over(i) THEN f[i] ELSE [f[i] EXCEPT !.ctrl = "tx"]
  OBVIOUS
<1>5. ~Over(0)
  OBVIOUS
<1>6. ASSUME NEW i \in 1..Len(w) PROVE Over(i) <=> Over(i - 1) \/ w[i][1] = "ctrl"
  <2>1. i \in Int /\ 1..i = 1..(i - 1) \cup {i}
    BY <1>2
  <2>2. QED
    BY <2>1
<1>7. g \in [0..Len(w) -> Trees]
  <2>1. \A i \in 0..Len(w) : g[i] \in Trees
    <3> HIDE DEF g, Over
    <3> QED
    BY <1>3, <1>4
  <2>2. QED
    BY <2>1
<1> HIDE DEF g, Over
<1>8. g[0] = t2
  BY <1>1, <1>2, <1>4, <1>5
<1>9. ASSUME NEW i \in 0..Len(w)
      PROVE  /\ g[i] \in Trees /\ f[i] \in Trees /\ \A k \in Registers \ {"ctrl"} : g[i][k] = f[i][k]
             /\ g[i]["ctrl"] = IF Over(i) THEN f[i]["ctrl"] ELSE "tx"
  <2>1. f[i] \in Trees /\ g[i] \in Trees
    BY <1>1, <1>7
  <2>2. g[i] = IF Over(i) THEN f[i] ELSE [f[i] EXCEPT !.ctrl = "tx"]
    BY <1>4
  <2>3. CASE Over(i)
    BY <2>1, <2>2, <2>3
  <2>4. CASE ~Over(i)
    <3> DEFINE u == f[i]
    <3>1. g[i] = [u EXCEPT !.ctrl = "tx"] /\ u \in Trees
      BY <2>1, <2>2, <2>4
    <3> HIDE DEF u
    <3>2. g[i]["ctrl"] = "tx" /\ \A k \in Registers \ {"ctrl"} : g[i][k] = u[k]
      BY <3>1, <1>3
    <3>3. QED
      BY <2>1, <2>4, <3>2 DEF u
  <2>5. QED
    BY <2>3, <2>4
<1>10. ASSUME NEW i \in 1..Len(w)
       PROVE  g[i] = Written(g[i - 1], w[i]) /\ Fits(g[i], Any) /\ Legal(g[i - 1], g[i])
  <2> DEFINE h == i - 1   x == w[i]
  <2>1. h \in 0..Len(w) /\ i \in 0..Len(w) /\ x \in Writes
    BY <1>2
  <2>2. /\ f[i] = Written(f[h], x) /\ Legal(f[h], f[i])
        /\ (Over(i) <=> Over(h) \/ x[1] = "ctrl")
    BY <1>1, <1>6
  <2> HIDE DEF h, x
  <2>3. /\ f[i][x[1]] = x[2] /\ x[1] \in Registers
        /\ \A k \in Registers \ {x[1]} : f[i][k] = f[h][k]
    BY <2>1, <2>2, <1>9, WrittenTree DEF Registers
  <2>4. /\ Written(g[h], x) \in Trees /\ Written(g[h], x)[x[1]] = x[2]
        /\ \A k \in Registers \ {x[1]} : Written(g[h], x)[k] = g[h][k]
    BY <2>1, <1>9, WrittenTree DEF Registers
  <2>5. \A k \in Registers : g[i][k] = Written(g[h], x)[k]
    <3>1. ASSUME NEW k \in Registers \ {"ctrl"} PROVE g[i][k] = Written(g[h], x)[k]
      BY <2>1, <2>3, <2>4, <1>9
    <3>2. g[i]["ctrl"] = Written(g[h], x)["ctrl"]
      <4>1. "ctrl" \in Registers
        BY DEF Registers, Settings
      <4>2. CASE x[1] = "ctrl"
        BY <4>2, <2>1, <2>2, <2>3, <2>4, <1>9
      <4>3. CASE x[1] # "ctrl"
        BY <4>1, <4>3, <2>1, <2>2, <2>3, <2>4, <1>9
      <4>4. QED
        BY <4>2, <4>3
    <3>3. QED
      BY <3>1, <3>2
  <2>6. g[i] = Written(g[h], x)
    BY <2>1, <2>4, <2>5, <1>9, TreesAgree
  <2>7. \A k \in Generators : g[i][k] = f[i][k] /\ g[h][k] = f[h][k]
    BY <2>1, <1>9 DEF Registers, Generators
  <2>8. Legal(g[h], g[i])
    BY <2>2, <2>7 DEF Legal, Generators
  <2>9. Fits(g[i], Any)
    BY DEF Fits
  <2>10. QED
    BY <2>6, <2>8, <2>9 DEF h, x
<1>11. Path(w, t2, g[Len(w)], Any) /\ g[Len(w)] \in Trees
  <2>1. g[Len(w)] \in Trees
    BY <1>2, <1>7
  <2>2. \A i \in 1..Len(w) : g[i] = Written(g[i - 1], w[i]) /\ Fits(g[i], Any) /\ Legal(g[i - 1], g[i])
    BY <1>10
  <2>3. QED
    BY <2>1, <2>2, <1>7, <1>8 DEF Path
<1>12. QED
  BY <1>2, <1>11 DEF Leads, Fits

(* The first write of a retune leaves a retune.                             *)
LEMMA TuningHead ==
  ASSUME NEW w \in Seq(Retuning), w # <<>>, NEW t \in Trees, NEW s \in Trees \cup {NoTree, Any}, Fits(t, s), Moved(t)
  PROVE  /\ Written(t, Head(w)) \in Trees /\ Fits(Written(t, Head(w)), s) /\ Legal(t, Written(t, Head(w)))
         /\ Moved(Written(t, Head(w))) /\ Tail(w) \in Seq(Retuning)
BY RetuningKeeps, HeadTailProperties

-----------------------------------------------------------------------------
(* The inductive invariant, one part per concern.                           *)

(* Where a session recovers, has its clocks on its own frequencies,         *)
(* retunes, has its allocation on record, and names a block in its memory.  *)
Recovering == {"recDma", "recPins", "recPlan", "recClocks", "recMem"}

Carrying   == {"ready", "running", "retune", "retuneTx"}

Retuned    == {"tuned", "retune", "retuneTx"}

Published  == {"pinOff", "advance", "tune", "tuned", "undo", "restore", "dmaStop"} \cup Carrying

Naming     == {"pubAlloc", "map", "save", "pubClocks"} \cup Published

(* Types, by what the steps change together.                                *)
Todo == todo \in [Actors -> Seq(Writes)]

BookType ==
  /\ lock \subseteq Actors \cup {Child} /\ signalled \subseteq Drivers /\ crashes \in 0 .. MaxCrashes
  /\ lost \subseteq Handles /\ maskReadable \in BOOLEAN /\ tainted \in BOOLEAN /\ found \in Trees
  /\ loose \in BOOLEAN /\ (loose => tainted)

PcType == pc \in [Actors -> Places]

RecordType == file \in Records /\ rec \in [Actors -> Records]

HardwareType ==
  /\ outcome \in [Actors -> {"none", "recovered", "discarded"}]
  /\ mem \in [Handles -> Actors \cup {"free", "other", "orphan"}]
  /\ dma \in Handles \cup {"idle", "other"} /\ pins \in {"orig", "off", "on"}

QuietType == \A a \in Actors : pc[a] \notin Clocked => todo[a] = <<>>

TreeType == regs \in Trees /\ Todo

Types == BookType /\ PcType /\ RecordType /\ HardwareType /\ QuietType /\ TreeType

(* Only the holder of the lock is in a session, and there is one.           *)
Holder ==
  /\ \A a \in Actors : pc[a] = "idle" <=> a \notin lock
  /\ \A a, b \in Actors : pc[a] # "idle" /\ pc[b] # "idle" => a = b

(* A record in memory has its end marker, and says nothing before the       *)
(* claim.                                                                   *)
RecKept ==
  \A a \in Actors :
    /\ rec[a].end
    /\ pc[a] \in {"idle", "recClear", "claim", "tool"} \cup Recovering => rec[a] = Blank

(* What a session found, and where the tools go.                            *)
Sessions ==
  \A a \in Actors :
       /\ pc[a] = "idle" => outcome[a] = "none"
       /\ pc[a] \in Recovering => outcome[a] = "recovered"
       /\ outcome[a] = "discarded" => tainted
       /\ a \in Tools => pc[a] \in {"idle", "recClear", "tool", "clear", "unlock"} \cup Recovering
       /\ a \in Drivers => pc[a] # "tool"

(* A driver owns the block its record names, from the allocation to the     *)
(* release.                                                                 *)
MemInv ==
  \A a \in Actors :
    /\ pc[a] \in Naming =>
         /\ rec[a].mem \in Handles /\ mem[rec[a].mem] = a
         /\ rec[a].loc = rec[a].mem /\ rec[a].chan
    /\ \A h \in Handles : mem[h] = a => pc[a] \in {"pubFree", "free"} \/ (pc[a] \in Naming /\ h = rec[a].mem)

(* What the file says at each point of a session: nothing before the        *)
(* allocation, and the record of the session after that, as long as no      *)
(* write has failed.                                                        *)
FileAt(a) ==
  /\ pc[a] \in Recovering => file # Empty
  /\ pc[a] \in {"claim", "alloc", "pubAlloc", "tool", "unlock"} => file = Empty
  /\ pc[a] = "recClear" /\ outcome[a] = "none" => file = Empty
  /\ ~tainted =>
       /\ pc[a] \in {"map", "save"} \cup Published => file = rec[a]
       /\ pc[a] = "pubClocks" => file = [rec[a] EXCEPT !.tree = NoTree]
       /\ pc[a] = "pubFree" =>
            /\ rec[a] = Forget(file) /\ file.end /\ file.loc # "none"
            /\ \A h \in Handles : mem[h] = a <=> h = file.mem
       /\ pc[a] = "free" => file = rec[a]
       /\ pc[a] \in {"free", "clear"} => file.mem = "none"

FileInv == \A a \in Actors : FileAt(a)

(* Nobody in a session: a block the file names is an orphan, and not in     *)
(* use.                                                                     *)
NamedInv ==
  (/\ ~tainted /\ ~CrashAfterFree
   /\ \A a \in Actors : pc[a] \in {"idle"} \cup Recovering
   /\ file.end /\ file.mem # "none")
    => mem[file.mem] = "orphan"

(* The channel executes the block of the session that transmits, or an      *)
(* orphan the file names.                                                   *)
DmaInv ==
  ~tainted /\ dma \in Handles =>
    \/ \E a \in Actors : pc[a] \in {"running", "retuneTx"} /\ dma = rec[a].mem
    \/ /\ \A a \in Actors : pc[a] \in {"idle", "recDma"}
       /\ mem[dma] = "orphan" /\ file.chan /\ file.loc = dma /\ file.tree = found

(* A block whose process died is named by the file, or known to be lost.    *)
OrphanInv ==
  ~tainted =>
    /\ \A h \in Handles : mem[h] = "orphan" /\ h \notin lost => file.end /\ file.mem = h
    /\ \A a \in Actors, h \in Handles : pc[a] = "recClear" /\ mem[h] = "orphan" => h \in lost

(* A pin that is not as found belongs to the session that transmits, or the *)
(* file says so.                                                            *)
PinInv ==
  ~tainted =>
    /\ file # Empty => file.pins = "orig"
    /\ \A a \in Actors : pc[a] \in {"alloc", "pubFree"} \cup Naming => rec[a].pins = "orig"
    /\ pins # "orig" =>
         \/ \E a \in Actors : pc[a] \in Carrying
         \/ file # Empty /\ \A a \in Actors : pc[a] \in {"idle", "recDma", "recPins"}

(* The same for the clocks; no record has another tree than the one found.  *)
RegsInv ==
  ~tainted =>
    /\ file.tree \in {NoTree, found}
    /\ \A a \in Actors : rec[a].tree \in {NoTree, found}
    /\ regs # found =>
         \/ \E a \in Actors : pc[a] \in {"advance", "tune", "tuned", "undo", "restore"} \cup Carrying
         \/ file.tree = found /\ \A a \in Actors : pc[a] \in {"idle", "recDma", "recPins", "recPlan", "recClocks"}

(* The clocks fit every record: at each point of each reprogramming the     *)
(* restoration could start without a storage clock running from a modulated *)
(* PLLC.                                                                    *)
FitInv ==
  /\ Fits(regs, Level(loose, file.tree))
  /\ \A a \in Actors : Fits(regs, Level(loose, rec[a].tree))
  /\ ~Bcm2711 => regs.emmc2 = found.emmc2

(* Which records have a clock tree.                                         *)
SavedInv ==
  \A a \in Actors :
    /\ pc[a] \notin {"idle", "recClear"} \cup Recovering => file.tree \in {NoTree, rec[a].tree}
    /\ pc[a] \in {"claim", "alloc", "pubAlloc", "map", "save"} => rec[a].tree = NoTree
    /\ pc[a] \in ({"pubClocks"} \cup Published) \ {"dmaStop"} => rec[a].tree # NoTree

(* The writes a still has to do lead to the tree as found, when nothing has *)
(* been lost.                                                               *)
Restores(a, s) ==
  \E u \in Trees : Leads(todo[a], regs, u, Level(loose, s)) /\ (~tainted => u = found)

(* The writes still to do lead where they were meant to.                    *)
PlanAt(a) ==
  /\ pc[a] \in {"tune"} \cup Retuned \cup Carrying => Moved(regs)
  /\ pc[a] \in Retuned => todo[a] \in Seq(Retuning)
  /\ pc[a] = "advance" => \E u \in Trees : Leads(todo[a], regs, u, Level(loose, rec[a].tree)) /\ Moved(u)
  /\ pc[a] = "restore" => Restores(a, rec[a].tree)
  /\ pc[a] = "recClocks" => Restores(a, file.tree)

PlanInv == \A a \in Actors : PlanAt(a)

(* A recovery without a tree stops GPCLK0 and nothing else.                 *)
StopInv ==
  \A a \in Actors : pc[a] = "recClocks" /\ file.tree = NoTree => todo[a] \in {<<>>, Stop("gp0", regs.gp0)}

(* From the reset of its channel on, nothing runs on it until a session     *)
(* starts it.                                                               *)
Resting ==
  {"save", "pubClocks", "pinOff", "advance", "tune", "tuned", "ready", "retune", "undo", "restore", "dmaStop"}

RestInv == dma \in Handles => \A a \in Actors : pc[a] \notin Resting

(* A tree comes on file with the channel and the block it was saved under.  *)
NamedTree ==
  \A a \in Actors :
    /\ pc[a] = "pubClocks" => file.tree = NoTree
    /\ pc[a] \in {"pinOff", "advance", "tune", "tuned"} \cup Carrying /\ file.tree # NoTree =>
         file.chan /\ file.loc = rec[a].mem

(* While the engine runs, and modulates PLLC, no storage clock is on it, and*)
(* the recovery that would put one back stops the engine first.             *)
EngineInv ==
  dma \in Handles /\ ~loose =>
    /\ \A g \in Generators \ {"gp0"} : regs[g] # Gen("pllc", TRUE)
    /\ file.tree # NoTree => file.chan /\ file.loc = dma
    /\ \A a \in Actors :
         /\ pc[a] \in {"recPins", "recPlan", "recClocks", "recMem"} => file.tree = NoTree
         /\ pc[a] = "pubFree" => rec[a].tree = NoTree

(* What is known of the tree as it was found.                               *)
FoundKept ==
  /\ found \in FoundTrees /\ ~found.gp0.run
  /\ Undisturbed(found, "vpu") /\ Undisturbed(found, "emmc")
  /\ ~Bcm2711 => found.emmc2.src # "pllc"

IInv ==
  /\ Types /\ Holder /\ Sessions /\ RecKept /\ MemInv /\ FileInv /\ NamedInv /\ DmaInv /\ OrphanInv
  /\ PinInv /\ RegsInv /\ FitInv /\ SavedInv /\ PlanInv /\ StopInv /\ FoundKept
  /\ RestInv /\ NamedTree /\ EngineInv

-----------------------------------------------------------------------------
(* What the steps do, without the parts of a record a proof does not need.  *)

(* Forget() clears channel and memory and keeps the rest.                   *)
LEMMA ForgetFields ==
  ASSUME NEW r \in Records
  PROVE  /\ Forget(r) \in Records /\ ~Forget(r).chan /\ Forget(r).mem = "none" /\ Forget(r).loc = "none"
         /\ Forget(r).end = r.end /\ Forget(r).pins = r.pins /\ Forget(r).tree = r.tree
BY DEF Forget, Records

LEMMA RecordNoTree ==
  ASSUME NEW r \in Records
  PROVE  LET e == [r EXCEPT !.tree = NoTree] IN
           e.tree = NoTree /\ e.mem = r.mem /\ e.loc = r.loc /\ e.end = r.end /\ e.pins = r.pins /\ e.chan = r.chan
BY DEF Records

(* The fields of a record.                                                 *)
Keys == {"chan", "mask", "mem", "loc", "pins", "tree", "end"}

LEMMA EmptyKeys ==
  /\ DOMAIN Empty = Keys
  /\ ~Empty.chan /\ Empty.mask /\ Empty.mem = "none" /\ Empty.loc = "none" /\ Empty.pins = "off"
  /\ Empty.tree = NoTree /\ ~Empty.end
BY DEF Empty, Blank, Keys

(* A mixture of two texts reads as a record.                               *)
LEMMA MixedRecord ==
  ASSUME NEW new \in Records, NEW n, NEW old \in Records, NEW m
  PROVE  Mixed(new, n, old, m) \in Records
<1> DEFINE x == Mixed(new, n, old, m)
<1>0. Empty \in Records
  BY DEF Blank, Empty, Records
<1>1. ASSUME NEW k \in Keys PROVE x[k] \in {old[k], new[k], Empty[k]}
  <2> HIDE DEF x
  <2>1. x[k] = old[k] \/ x[k] = new[k] \/ x[k] = Empty[k]
    BY EmptyKeys, Zenon DEF Mixed, x
  <2>2. QED
    BY <2>1
<1>2. /\ x["chan"] \in BOOLEAN /\ x["mask"] \in BOOLEAN /\ x["end"] \in BOOLEAN
      /\ x["mem"] \in Handles \cup {"none"} /\ x["loc"] \in Handles \cup {"none"}
      /\ x["pins"] \in {"orig", "off", "on"} /\ x["tree"] \in Trees \cup {NoTree}
  <2> HIDE DEF x
  <2> QED
  BY <1>0, <1>1 DEF Records, Keys
<1>3. x = [k \in Keys |-> x[k]]
  BY EmptyKeys DEF Mixed
<1> HIDE DEF x
<1>4. x = [chan |-> x["chan"], mask |-> x["mask"], mem |-> x["mem"], loc |-> x["loc"], pins |-> x["pins"],
           tree |-> x["tree"], end |-> x["end"]]
  BY <1>3 DEF Keys
<1>5. x \in Records
  BY <1>2, <1>4 DEF Records
<1>6. QED
  BY <1>5 DEF x

(* The numbers of the lines of the pins and of the end marker.             *)
PinsAt(r) == IF r.loc = "none" THEN 4 ELSE 5

EndAt(r) == IF r.tree = NoTree THEN PinsAt(r) + 1 ELSE PinsAt(r) + 3

LEMMA LineNumbers ==
  ASSUME NEW r
  PROVE  /\ Lines(r)["chan"] = {1} /\ Lines(r)["mask"] = {2} /\ Lines(r)["mem"] = {3}
         /\ Lines(r)["loc"] = 4 .. PinsAt(r) - 1 /\ Lines(r)["pins"] = {PinsAt(r)}
         /\ Lines(r)["tree"] = (PinsAt(r) + 1) .. (EndAt(r) - 1) /\ Lines(r)["end"] = IF r.end THEN {EndAt(r)} ELSE {}
         /\ PinsAt(r) \in {4, 5} /\ (r.loc = "none" <=> PinsAt(r) = 4)
         /\ EndAt(r) \in {PinsAt(r) + 1, PinsAt(r) + 3} /\ (r.tree = NoTree <=> EndAt(r) = PinsAt(r) + 1)
<1>1. PinsAt(r) \in {4, 5} /\ (r.loc = "none" <=> PinsAt(r) = 4)
  BY DEF PinsAt
<1>2. EndAt(r) \in {PinsAt(r) + 1, PinsAt(r) + 3} /\ (r.tree = NoTree <=> EndAt(r) = PinsAt(r) + 1)
  BY <1>1 DEF EndAt
<1>3. /\ Lines(r)["chan"] = {1} /\ Lines(r)["mask"] = {2} /\ Lines(r)["mem"] = {3}
      /\ Lines(r)["loc"] = 4 .. PinsAt(r) - 1 /\ Lines(r)["pins"] = {PinsAt(r)}
      /\ Lines(r)["tree"] = (PinsAt(r) + 1) .. (EndAt(r) - 1) /\ Lines(r)["end"] = IF r.end THEN {EndAt(r)} ELSE {}
  BY DEF Lines, PinsAt, EndAt
<1>4. QED
  BY <1>1, <1>2, <1>3

(* What a torn file can say: no tree but with the location it goes with,    *)
(* what both records say on the same lines, and, when the one that is       *)
(* written over another is the shorter, the end marker of the old one.      *)
LEMMA TornLines ==
  ASSUME NEW new \in Records, NEW old \in Records, NEW text \in Torn(new, old)
  PROVE  /\ text \in Records /\ text.tree \in {NoTree, new.tree, old.tree} /\ (text.end => old.end)
         /\ old.tree = NoTree /\ text.tree # NoTree => text.chan = new.chan /\ text.loc = new.loc
         /\ old = [new EXCEPT !.tree = NoTree] /\ new.tree # NoTree =>
              text.chan = new.chan /\ text.mem = new.mem /\ text.loc = new.loc /\ text.pins = new.pins
         /\ new = Forget(old) /\ old.end /\ old.loc # "none" =>
              text.mem \in {"none", old.mem} /\ text.pins = old.pins /\ text.end
<1>1. PICK n \in 1 .. 7, m \in 1 .. 8 :
    /\ text = Mixed(new, n, old, m) /\ Lines(new)["end"] \cap 1 .. n = {}
    /\ m = n \/ (new.chan # old.chan /\ m = n + 1)
  BY DEF Torn
<1>2. ASSUME NEW k \in Keys
      PROVE  text[k] = IF /\ Lines(old)[k] \ 1 .. m = Lines(old)[k] /\ Lines(old)[k] \ 1 .. m # {}
                          /\ (k = "tree" => Lines(new)[k] \cap 1 .. n = {}) THEN old[k]
                       ELSE IF /\ Lines(new)[k] \cap 1 .. n = Lines(new)[k] /\ Lines(new)[k] \cap 1 .. n # {}
                               /\ Lines(old)[k] \ 1 .. m = {} THEN new[k]
                       ELSE Empty[k]
  BY <1>1, EmptyKeys, Zenon DEF Mixed
<1> DEFINE p == PinsAt(new)   e == EndAt(new)   q == PinsAt(old)   f == EndAt(old)
<1>3. /\ p \in {4, 5} /\ (new.loc = "none" <=> p = 4) /\ q \in {4, 5} /\ (old.loc = "none" <=> q = 4)
      /\ e \in {p + 1, p + 3} /\ (new.tree = NoTree <=> e = p + 1)
      /\ f \in {q + 1, q + 3} /\ (old.tree = NoTree <=> f = q + 1)
  BY LineNumbers
<1> HIDE DEF p, e, q, f
<1>4. text["chan"] = new["chan"]
  <2>1. Lines(old)["chan"] = {1} /\ Lines(new)["chan"] = {1}
    BY LineNumbers
  <2>2. QED
    BY <1>1, <1>2, <2>1 DEF Keys
<1>5. text["mem"] = IF m < 3 THEN old["mem"] ELSE IF n >= 3 THEN new["mem"] ELSE "none"
  <2>1. Lines(old)["mem"] = {3} /\ Lines(new)["mem"] = {3}
    BY LineNumbers
  <2>2. QED
    BY <1>1, <1>2, <2>1, EmptyKeys DEF Keys
<1>6. text["pins"] = IF m < q THEN old["pins"] ELSE IF n >= p THEN new["pins"] ELSE "off"
  <2>1. Lines(old)["pins"] = {q} /\ Lines(new)["pins"] = {p}
    BY LineNumbers DEF p, q
  <2>2. QED
    BY <1>1, <1>2, <1>3, <2>1, EmptyKeys DEF Keys
<1>7. text["loc"] = IF q = 5 /\ m < 4 THEN old["loc"] ELSE IF p = 5 /\ n >= 4 THEN new["loc"] ELSE "none"
  <2>1. Lines(old)["loc"] = 4 .. q - 1 /\ Lines(new)["loc"] = 4 .. p - 1
    BY LineNumbers DEF p, q
  <2>2. Lines(old)["loc"] = (IF q = 5 THEN {4} ELSE {}) /\ Lines(new)["loc"] = (IF p = 5 THEN {4} ELSE {})
    <3>1. 4 .. 4 - 1 = {} /\ 4 .. 5 - 1 = {4}
      OBVIOUS
    <3>2. QED
      BY <2>1, <1>3, <3>1
  <2>3. QED
    BY <1>1, <1>2, <1>3, <2>2, EmptyKeys DEF Keys
<1>8. text["tree"] \in {NoTree, new["tree"], old["tree"]} /\ (old["tree"] = NoTree /\ text["tree"] # NoTree => n >= p + 2)
  <2>1. Lines(new)["tree"] = (p + 1) .. (e - 1)
    BY LineNumbers DEF p, e
  <2>2. Lines(new)["tree"] = IF new["tree"] = NoTree THEN {} ELSE {p + 1, p + 2}
    <3>1. (5 .. 4 = {}) /\ (6 .. 5 = {}) /\ (5 .. 6 = {5, 6}) /\ (6 .. 7 = {6, 7})
      OBVIOUS
    <3>2. CASE new.tree = NoTree
      <4>1. e - 1 = p
        BY <3>2, <1>3
      <4>2. QED
        BY <3>2, <4>1, <2>1, <1>3
    <3>3. CASE new.tree # NoTree
      <4>1. e - 1 = p + 2
        BY <3>3, <1>3
      <4>2. QED
        BY <3>1, <3>3, <4>1, <2>1, <1>3
    <3>4. QED
      BY <3>2, <3>3
  <2>3. QED
    BY <1>1, <1>2, <1>3, <2>2, EmptyKeys DEF Keys
<1>9. (text["end"] => old["end"]) /\ (old["end"] /\ m < f => text["end"])
  <2>1. Lines(old)["end"] = IF old.end THEN {f} ELSE {}
    BY LineNumbers DEF f
  <2>2. old["end"] \in BOOLEAN
    BY DEF Records
  <2>3. QED
    BY <1>1, <1>2, <1>3, <2>1, <2>2, EmptyKeys DEF Keys
<1>10. new.end => n < e
  <2>1. new.end => Lines(new)["end"] = {e}
    BY LineNumbers DEF e
  <2>2. QED
    BY <2>1, <1>1, <1>3
<1>11. text \in Records
  BY <1>1, MixedRecord
<1>12. ASSUME old.tree = NoTree, text.tree # NoTree PROVE text.chan = new.chan /\ text.loc = new.loc
  BY <1>1, <1>3, <1>4, <1>7, <1>8, <1>12
<1>13. ASSUME old = [new EXCEPT !.tree = NoTree], new.tree # NoTree
       PROVE  text.chan = new.chan /\ text.mem = new.mem /\ text.loc = new.loc /\ text.pins = new.pins
  <2>1. old.chan = new.chan /\ old.mem = new.mem /\ old.loc = new.loc /\ old.pins = new.pins
    BY <1>13 DEF Records
  <2>2. m = n /\ p = q
    BY <1>1, <1>3, <2>1
  <2>3. QED
    BY <2>1, <2>2, <1>1, <1>3, <1>4, <1>5, <1>6, <1>7
<1>14. ASSUME new = Forget(old), old.end, old.loc # "none"
       PROVE  text.mem \in {"none", old.mem} /\ text.pins = old.pins /\ text.end
  <2>1. new.mem = "none" /\ new.loc = "none" /\ new.pins = old.pins /\ new.tree = old.tree /\ new.end
    BY <1>14 DEF Forget, Records
  <2>2. p = 4 /\ q = 5 /\ f = e + 1 /\ n < e
    BY <1>3, <1>10, <1>14, <2>1
  <2>3. m < f /\ (m >= q => n >= p)
    BY <2>2, <1>1, <1>3
  <2>4. text["end"]
    BY <2>3, <1>9, <1>14
  <2>5. QED
    BY <2>1, <2>3, <2>4, <1>1, <1>3, <1>5, <1>6
<1>15. QED
  BY <1>8, <1>9, <1>11, <1>12, <1>13, <1>14

LEMMA BlankRecords ==
  /\ Blank \in Records /\ Empty \in Records
  /\ Blank.end /\ ~Empty.end /\ Blank.tree = NoTree /\ Empty.tree = NoTree /\ Empty.mem = "none"
  /\ ~Empty.chan
BY DEF Blank, Empty, Records

(* Each lemma has the name of its action.                                   *)
LEMMA ForgotDoes ==
  ASSUME IInv, NEW a \in Actors, rec' = [rec EXCEPT ![a] = Forget(@)]
  PROVE  \E r \in Records :
           /\ rec' = [rec EXCEPT ![a] = r] /\ r = Forget(rec[a]) /\ ~r.chan /\ r.mem = "none" /\ r.loc = "none"
           /\ r.end = rec[a].end /\ r.pins = rec[a].pins /\ r.tree = rec[a].tree
<1>1. rec[a] \in Records /\ rec \in [Actors -> Records]
  BY DEF IInv, Types, RecordType
<1>2. rec' = [rec EXCEPT ![a] = Forget(rec[a])]
  BY <1>1
<1>3. QED
  BY <1>1, <1>2, ForgetFields

LEMMA TakeLockDoes ==
  ASSUME IInv, NEW a \in Actors, TakeLock(a)
  PROVE  /\ \A b \in Actors : pc[b] = "idle"
         /\ UNCHANGED <<file, rec, todo, hardware, maskReadable, signalled, crashes, found, loose>>
         /\ lock' = {a} /\ (tainted => tainted')
         /\ \/ /\ file = Empty /\ pc' = [pc EXCEPT ![a] = "recClear"]
               /\ outcome' = [outcome EXCEPT ![a] = "none"] /\ lost' = lost
            \/ /\ file # Empty /\ pc' = [pc EXCEPT ![a] = "recDma"]
               /\ outcome' = [outcome EXCEPT ![a] = "recovered"] /\ lost' = lost
            \/ /\ pc' = [pc EXCEPT ![a] = "recClear"] /\ outcome' = [outcome EXCEPT ![a] = "discarded"]
               /\ tainted'
<1> DEFINE stale == IF file = Empty THEN "none" ELSE IF Plausible(file) THEN "recovered" ELSE "discarded"
<1>1. /\ outcome' = [outcome EXCEPT ![a] = stale]
      /\ pc' = [pc EXCEPT ![a] = IF stale = "recovered" THEN "recDma" ELSE "recClear"]
      /\ tainted' = (tainted \/ stale = "discarded")
      /\ (stale # "discarded" => lost' = lost)
      /\ UNCHANGED <<file, rec, todo, hardware, maskReadable, signalled, crashes, found, loose>>
      /\ lock' = {a} /\ lock = {}
  BY DEF TakeLock, Goto
<1>2. \A b \in Actors : pc[b] = "idle"
  BY <1>1 DEF IInv, Holder
<1>3. /\ (stale = "none" => file = Empty) /\ (stale = "recovered" => file # Empty)
      /\ stale \in {"none", "recovered", "discarded"}
  OBVIOUS
<1>4. tainted => tainted'
  BY <1>1
<1>5. stale = "discarded" => tainted'
  BY <1>1
<1> HIDE DEF stale
<1>6. QED
  BY <1>1, <1>2, <1>3, <1>4, <1>5

LEMMA RecoverDmaDoes ==
  ASSUME IInv, NEW a \in Actors, RecoverDma(a)
  PROVE  /\ pc[a] = "recDma" /\ pc' = [pc EXCEPT ![a] = "recPins"]
         /\ UNCHANGED <<lock, file, rec, todo, outcome, mem, pins, regs, maskReadable, signalled, crashes, found, lost>>
         /\ (tainted => tainted') /\ dma' \in {dma, "idle"}
         /\ ~loose' /\ file.chan /\ file.loc = dma /\ dma \in Handles => dma' = "idle"
         /\ loose' \in BOOLEAN /\ (loose => loose') /\ (loose' => tainted')
<1>0. loose \in BOOLEAN /\ tainted \in BOOLEAN /\ (loose => tainted)
  BY DEF IInv, Types, BookType
<1>1. ASSUME ~loose', file.chan, file.loc = dma, dma \in Handles PROVE dma' = "idle"
  <2>1. dma # "idle" /\ file.loc # "none"
    BY <1>1, SessionAssumption
  <2>2. Ours(file) = {TRUE}
    BY <1>1, <2>1 DEF Ours
  <2>3. QED
    BY <1>1, <2>1, <2>2 DEF RecoverDma, RunsOn
<1>2. /\ pc[a] = "recDma" /\ pc' = [pc EXCEPT ![a] = "recPins"]
      /\ UNCHANGED <<lock, file, rec, todo, outcome, mem, pins, regs, maskReadable, signalled, crashes, found, lost>>
  BY DEF RecoverDma, RunsOn, At, Goto, hardware, history
<1>4. tainted => tainted'
  BY DEF RecoverDma, RunsOn, history
<1>3. dma' \in {dma, "idle"}
  BY DEF RecoverDma, RunsOn, hardware
<1>5. loose' \in BOOLEAN /\ (loose => loose') /\ (loose' => tainted')
  <2>1. (loose' = loose /\ tainted' = tainted) \/ (loose' = (loose \/ dma \in Handles) /\ tainted' = TRUE)
    BY Zenon DEF RecoverDma, RunsOn, history
  <2>2. CASE loose' = loose /\ tainted' = tainted
    BY <2>2, <1>0
  <2>3. CASE loose' = (loose \/ dma \in Handles) /\ tainted' = TRUE
    <3>1. (loose \/ dma \in Handles) \in BOOLEAN
      OBVIOUS
    <3>2. loose' \in BOOLEAN
      BY <3>1, <2>3, Zenon
    <3>3. loose => loose'
      BY <2>3, Zenon
    <3>4. tainted'
      BY <2>3
    <3>5. QED
      BY <3>2, <3>3, <3>4
  <2>4. QED
    BY <2>1, <2>2, <2>3
<1> QED
  BY <1>1, <1>2, <1>3, <1>4, <1>5

LEMMA RecoverPlanDoes ==
  ASSUME NEW a \in Actors, RecoverPlan(a)
  PROVE  /\ pc[a] = "recPlan"
         /\ UNCHANGED <<lock, file, rec, outcome, hardware, maskReadable, signalled, crashes, found, lost, loose>>
         /\ \/ /\ pc' = [pc EXCEPT ![a] = "recClocks"] /\ tainted' = tainted
               /\ \E w : todo' = [todo EXCEPT ![a] = w]
            \/ pc' = [pc EXCEPT ![a] = "recMem"] /\ tainted' /\ todo' = todo
BY DEF RecoverPlan, Skipped, At, Goto, history

LEMMA RecoverMemDoes ==
  ASSUME IInv, NEW a \in Actors, RecoverMem(a)
  PROVE  /\ pc[a] = "recMem" /\ pc' = [pc EXCEPT ![a] = "recClear"]
         /\ UNCHANGED <<lock, file, rec, todo, outcome, dma, pins, regs, maskReadable, signalled, crashes, found, loose>>
         /\ \/ /\ file.end /\ file.mem # "none" /\ mem' = [mem EXCEPT ![file.mem] = "free"]
               /\ UNCHANGED <<lost, tainted>>
            \/ /\ ~file.end \/ file.mem = "none" \/ tainted'
               /\ (tainted => tainted')
               /\ mem' = mem
               /\ lost' = lost \cup {h \in Handles : h = file.mem /\ mem[h] = "orphan"}
BY DEF RecoverMem, At, Goto, IInv, Types, BookType

LEMMA ClockWriteDoes ==
  ASSUME NEW a \in Actors, ClockWrite(a)
  PROVE  /\ UNCHANGED <<lock, file, rec, outcome, mem, dma, pins, maskReadable, history>>
         /\ \/ /\ todo[a] = <<>> /\ UNCHANGED <<regs, todo>>
               /\ \/ pc[a] = "recClocks" /\ pc' = [pc EXCEPT ![a] = "recMem"]
                  \/ pc[a] = "advance" /\ pc' = [pc EXCEPT ![a] = "tune"]
                  \/ pc[a] \in {"tuned", "retune"} /\ pc' = [pc EXCEPT ![a] = "ready"]
                  \/ pc[a] = "retuneTx" /\ pc' = [pc EXCEPT ![a] = "running"]
                  \/ pc[a] = "restore" /\ pc' = [pc EXCEPT ![a] = "dmaStop"]
            \/ /\ todo[a] # <<>> /\ pc' = pc
               /\ pc[a] \in {"recClocks", "advance", "tuned", "retune", "retuneTx", "restore"}
               /\ regs' = Written(regs, Head(todo[a]))
               /\ todo' = [todo EXCEPT ![a] = Tail(todo[a])]
BY DEF ClockWrite, AfterClocks, Goto

LEMMA ClaimDoes ==
  ASSUME IInv, NEW a \in Actors, Claim(a)
  PROVE  /\ pc[a] = "claim"
         /\ UNCHANGED <<lock, file, todo, outcome, hardware, maskReadable, history>>
         /\ \/ pc' = [pc EXCEPT ![a] = "clear"] /\ rec' = rec
            \/ \E r \in Records :
                 /\ rec' = [rec EXCEPT ![a] = r] /\ pc' = [pc EXCEPT ![a] = "alloc"]
                 /\ r.tree = rec[a].tree /\ r.end = rec[a].end /\ r.pins = pins
<1> DEFINE r == [rec[a] EXCEPT !.pins = pins]
<1>1. rec[a] \in Records /\ rec \in [Actors -> Records] /\ pins \in {"orig", "off", "on"}
  BY DEF IInv, Types, RecordType, HardwareType
<1>2. \/ pc' = [pc EXCEPT ![a] = "clear"] /\ rec' = rec
      \/ pc' = [pc EXCEPT ![a] = "alloc"] /\ rec' = [rec EXCEPT ![a] = r]
  BY <1>1 DEF Claim, Goto
<1>3. r = [rec[a] EXCEPT !.pins = pins]
  OBVIOUS
<1> HIDE DEF r
<1>4. r \in Records /\ r.tree = rec[a].tree /\ r.end = rec[a].end /\ r.pins = pins
  BY <1>1, <1>3 DEF Records
<1>5. QED
  BY <1>2, <1>4 DEF Claim, At

LEMMA AllocateDoes ==
  ASSUME IInv, NEW a \in Actors, Allocate(a)
  PROVE  /\ pc[a] = "alloc"
         /\ UNCHANGED <<lock, file, todo, outcome, dma, pins, regs, maskReadable, history>>
         /\ \/ pc' = [pc EXCEPT ![a] = "clear"] /\ UNCHANGED <<mem, rec>>
            \/ \E h \in Handles, r \in Records :
                 /\ mem[h] = "free" /\ mem' = [mem EXCEPT ![h] = a]
                 /\ rec' = [rec EXCEPT ![a] = r] /\ pc' = [pc EXCEPT ![a] = "pubAlloc"]
                 /\ r.tree = rec[a].tree /\ r.end = rec[a].end /\ r.pins = rec[a].pins
                 /\ r.chan /\ r.mem = h /\ r.loc = h
<1>1. /\ pc[a] = "alloc"
      /\ UNCHANGED <<lock, file, todo, outcome, dma, pins, regs, maskReadable, history>>
  BY DEF Allocate, At
<1>2. CASE pc' = [pc EXCEPT ![a] = "clear"] /\ UNCHANGED <<mem, rec>>
  BY <1>1, <1>2
<1>3. CASE \E h \in Handles :
             /\ mem[h] = "free" /\ mem' = [mem EXCEPT ![h] = a] /\ pc' = [pc EXCEPT ![a] = "pubAlloc"]
             /\ rec' = [rec EXCEPT ![a] = [@ EXCEPT !.chan = TRUE, !.mask = maskReadable, !.mem = h, !.loc = h]]
  <2>1. PICK h \in Handles :
             /\ mem[h] = "free" /\ mem' = [mem EXCEPT ![h] = a] /\ pc' = [pc EXCEPT ![a] = "pubAlloc"]
             /\ rec' = [rec EXCEPT ![a] = [@ EXCEPT !.chan = TRUE, !.mask = maskReadable, !.mem = h, !.loc = h]]
    BY <1>3
  <2>2. rec[a] \in Records /\ maskReadable \in BOOLEAN /\ rec \in [Actors -> Records]
    BY DEF IInv, Types, RecordType, BookType
  <2> DEFINE r == [rec[a] EXCEPT !.chan = TRUE, !.mask = maskReadable, !.mem = h, !.loc = h]
  <2>3. r = [rec[a] EXCEPT !.chan = TRUE, !.mask = maskReadable, !.mem = h, !.loc = h]
    OBVIOUS
  <2>4. rec' = [rec EXCEPT ![a] = r]
    BY <2>1, <2>2
  <2> HIDE DEF r
  <2>5. /\ r \in Records /\ r.tree = rec[a].tree /\ r.end = rec[a].end /\ r.pins = rec[a].pins
        /\ r.chan /\ r.mem = h /\ r.loc = h
    BY <2>2, <2>3 DEF Records
  <2>6. QED
    BY <1>1, <2>1, <2>4, <2>5
<1>4. QED
  BY <1>2, <1>3 DEF Allocate, Goto

LEMMA PublishDoes ==
  ASSUME IInv, NEW a \in Actors, Publish(a)
  PROVE  /\ UNCHANGED <<lock, rec, todo, outcome, hardware, maskReadable, signalled, crashes, found, lost, loose>>
         /\ \/ pc[a] = "pubAlloc" /\ pc' = [pc EXCEPT ![a] = "map"]
            \/ pc[a] = "pubClocks" /\ pc' = [pc EXCEPT ![a] = "pinOff"]
            \/ pc[a] = "pubFree" /\ pc' = [pc EXCEPT ![a] = "free"]
         /\ file' \in Records /\ file'.tree \in {NoTree, file.tree, rec[a].tree}
         /\ (file.tree = NoTree /\ file'.tree # NoTree => file'.chan = rec[a].chan /\ file'.loc = rec[a].loc)
         /\ (~tainted' => ~tainted /\ file' = rec[a])
<1>1. rec[a] \in Records /\ file \in Records /\ tainted \in BOOLEAN
  BY DEF IInv, Types, RecordType, BookType
<1>2. file' \in {rec[a], file} \cup Torn(rec[a], file)
  BY DEF Publish, AfterWrite
<1>3. /\ file' \in Records /\ file'.tree \in {NoTree, file.tree, rec[a].tree}
      /\ (file.tree = NoTree /\ file'.tree # NoTree => file'.chan = rec[a].chan /\ file'.loc = rec[a].loc)
  BY <1>1, <1>2, TornLines
<1>4. tainted' = (tainted \/ file' # rec[a])
  BY DEF Publish
<1>5. \/ pc[a] = "pubAlloc" /\ pc' = [pc EXCEPT ![a] = "map"]
      \/ pc[a] = "pubClocks" /\ pc' = [pc EXCEPT ![a] = "pinOff"]
      \/ pc[a] = "pubFree" /\ pc' = [pc EXCEPT ![a] = "free"]
  <2>1. pc[a] \in {"pubAlloc", "pubClocks", "pubFree"}
    BY DEF Publish, AfterPublish
  <2>2. pc' = [pc EXCEPT ![a] = AfterPublish[pc[a]]]
    BY DEF Publish, Goto
  <2>3. /\ AfterPublish["pubAlloc"] = "map" /\ AfterPublish["pubClocks"] = "pinOff"
        /\ AfterPublish["pubFree"] = "free"
    BY DEF AfterPublish
  <2>4. QED
    BY <2>1, <2>2, <2>3
<1>6. UNCHANGED <<lock, rec, todo, outcome, hardware, maskReadable, signalled, crashes, found, lost, loose>>
  BY DEF Publish
<1>7. QED
  BY <1>1, <1>3, <1>4, <1>5, <1>6

LEMMA MapBlockDoes ==
  ASSUME IInv, NEW a \in Actors, MapBlock(a)
  PROVE  /\ pc[a] = "map"
         /\ UNCHANGED <<lock, file, todo, outcome, mem, pins, regs, maskReadable, history>>
         /\ \/ pc' = [pc EXCEPT ![a] = "save"] /\ dma' = "idle" /\ rec' = rec
            \/ /\ pc' = [pc EXCEPT ![a] = "pubFree"] /\ dma' = dma
               /\ \E r \in Records :
                    /\ rec' = [rec EXCEPT ![a] = r] /\ r = Forget(rec[a]) /\ ~r.chan /\ r.mem = "none"
                    /\ r.loc = "none" /\ r.end = rec[a].end /\ r.pins = rec[a].pins /\ r.tree = rec[a].tree
BY ForgotDoes DEF MapBlock, At, Goto

LEMMA SaveClocksDoes ==
  ASSUME IInv, NEW a \in Actors, SaveClocks(a)
  PROVE  /\ pc[a] = "save"
         /\ UNCHANGED <<lock, file, todo, outcome, hardware, maskReadable, history>>
         /\ \/ pc' = [pc EXCEPT ![a] = "dmaStop"] /\ rec' = rec
            \/ \E r \in Records :
                 /\ rec' = [rec EXCEPT ![a] = r] /\ pc' = [pc EXCEPT ![a] = "pubClocks"]
                 /\ r.tree = regs /\ r.end = rec[a].end /\ r.pins = rec[a].pins
                 /\ r.chan = rec[a].chan /\ r.mem = rec[a].mem /\ r.loc = rec[a].loc
                 /\ (rec[a].tree = NoTree => rec[a] = [r EXCEPT !.tree = NoTree])
<1> DEFINE r == [rec[a] EXCEPT !.tree = regs]
<1>1. rec[a] \in Records /\ rec \in [Actors -> Records] /\ regs \in Trees
  BY DEF IInv, Types, RecordType, TreeType
<1>2. \/ pc' = [pc EXCEPT ![a] = "dmaStop"] /\ rec' = rec
      \/ pc' = [pc EXCEPT ![a] = "pubClocks"] /\ rec' = [rec EXCEPT ![a] = r]
  BY <1>1 DEF SaveClocks, Goto
<1>3. r = [rec[a] EXCEPT !.tree = regs]
  OBVIOUS
<1> HIDE DEF r
<1>4. /\ r \in Records /\ r.tree = regs /\ r.end = rec[a].end /\ r.pins = rec[a].pins
      /\ r.chan = rec[a].chan /\ r.mem = rec[a].mem /\ r.loc = rec[a].loc
      /\ (rec[a].tree = NoTree => rec[a] = [r EXCEPT !.tree = NoTree])
  BY <1>1, <1>3 DEF Records
<1>5. QED
  BY <1>2, <1>4 DEF SaveClocks, At

LEMMA DmaStopDoes ==
  ASSUME IInv, NEW a \in Actors, DmaStop(a)
  PROVE  /\ pc[a] = "dmaStop" /\ pc' = [pc EXCEPT ![a] = "pubFree"] /\ dma' = "idle"
         /\ UNCHANGED <<lock, file, todo, outcome, mem, pins, regs, maskReadable, history>>
         /\ \E r \in Records :
               /\ rec' = [rec EXCEPT ![a] = r] /\ r = Forget(rec[a]) /\ ~r.chan /\ r.mem = "none"
               /\ r.loc = "none" /\ r.end = rec[a].end /\ r.pins = rec[a].pins /\ r.tree = rec[a].tree
BY ForgotDoes DEF DmaStop, At, Goto

LEMMA DiesDoes ==
  ASSUME NEW a \in Actors, NEW text, Dies(a, text)
  PROVE  /\ crashes < MaxCrashes /\ crashes' = crashes + 1
         /\ pc' = [pc EXCEPT ![a] = "idle"] /\ lock' = lock \ {a}
         /\ rec' = [rec EXCEPT ![a] = Blank] /\ todo' = [todo EXCEPT ![a] = <<>>]
         /\ outcome' = [outcome EXCEPT ![a] = "none"]
         /\ file' = text /\ signalled' = signalled \ {a}
         /\ \A h \in Handles : mem'[h] = IF mem[h] = a THEN "orphan" ELSE mem[h]
         /\ lost' = lost \cup {h \in Handles : mem[h] = a /\ Gap(a, h, text)}
         /\ UNCHANGED <<maskReadable, found, loose>>
BY DEF Dies, Ends, Goto, At

(* A process that dies was the only one in a session: afterwards nobody is. *)
LEMMA NobodyLeft ==
  ASSUME IInv, NEW a \in Actors, pc[a] # "idle", pc' = [pc EXCEPT ![a] = "idle"],
         rec' = [rec EXCEPT ![a] = Blank]
  PROVE  \A b \in Actors : pc'[b] = "idle" /\ rec'[b] = Blank /\ (b # a => pc[b] = "idle" /\ rec[b] = Blank)
BY DEF IInv, Holder, RecKept, Types, PcType, RecordType

(* A record as it should be names the block: nothing is lost.               *)
LEMMA NoGap ==
  ASSUME IInv, ~tainted, NEW a \in Actors, NEW h \in Handles, mem[h] = a, pc[a] \notin Unnamed
  PROVE  ~Gap(a, h, file)
<1>1. CASE pc[a] = "pubFree"
  BY <1>1 DEF Gap, At, IInv, FileInv, FileAt, Unnamed
<1>2. CASE pc[a] = "pubClocks"
  <2>1. file = [rec[a] EXCEPT !.tree = NoTree] /\ rec[a].end /\ rec[a] \in Records
    BY <1>2 DEF IInv, FileInv, FileAt, RecKept, Types, RecordType
  <2>2. QED
    BY <1>2, <2>1, RecordNoTree DEF Gap, At, Unnamed
<1>3. QED
  BY <1>1, <1>2 DEF Gap, At

LEMMA CrashDoes ==
  ASSUME IInv, NEW a \in Actors, Crash(a)
  PROVE  /\ pc[a] # "idle" /\ (pc[a] = "recClear" /\ outcome[a] = "recovered" => CrashAfterFree)
         /\ \A b \in Actors : pc'[b] = "idle" /\ rec'[b] = Blank /\ (b # a => pc[b] = "idle")
         /\ UNCHANGED <<file, dma, pins, regs, tainted, found, loose>>
         /\ \A h \in Handles : mem'[h] = IF mem[h] = a THEN "orphan" ELSE mem[h]
         /\ lost' = lost \cup {h \in Handles : mem[h] = a /\ Gap(a, h, file)}
<1>1. Dies(a, file) /\ pc[a] # "idle" /\ UNCHANGED <<dma, pins, regs, tainted>>
      /\ (pc[a] = "recClear" /\ outcome[a] = "recovered" => CrashAfterFree)
  BY DEF Crash
<1>2. QED
  BY <1>1, DiesDoes, NobodyLeft

LEMMA ExitDoes ==
  ASSUME IInv, NEW a \in Actors, Exit(a)
  PROVE  /\ pc[a] \in Carrying
         /\ \A b \in Actors : pc'[b] = "idle" /\ rec'[b] = Blank /\ (b # a => pc[b] = "idle")
         /\ UNCHANGED <<file, tainted, found, loose>> /\ dma' = "idle" /\ pins' = "off"
         /\ regs' = [regs EXCEPT !.gp0.run = FALSE]
         /\ \A h \in Handles : mem'[h] = IF mem[h] = a THEN "orphan" ELSE mem[h]
         /\ lost' = lost
<1>1. Dies(a, file) /\ pc[a] \in Carrying /\ Silence /\ UNCHANGED tainted
  BY DEF Exit, HandlersInstalled, Carrying
<1>2. pc[a] # "idle" /\ \A h \in Handles : ~Gap(a, h, file)
  BY <1>1 DEF Carrying, Unnamed, Gap, At
<1>3. lost' = lost
  <2>1. lost' = lost \cup {h \in Handles : mem[h] = a /\ Gap(a, h, file)}
    BY <1>1, DiesDoes
  <2>2. {h \in Handles : mem[h] = a /\ Gap(a, h, file)} = {}
    BY <1>2
  <2>3. QED
    BY <2>1, <2>2
<1>4. QED
  BY <1>1, <1>2, <1>3, DiesDoes, NobodyLeft DEF Silence

(* A step of no process: it changes the channel, the pins, the blocks of    *)
(* others, a child's lock and the mask at most.                             *)
LEMMA OutsideDoes ==
  ASSUME Environment \/ UNCHANGED vars
  PROVE  /\ UNCHANGED <<file, pc, rec, todo, outcome, signalled, crashes, found, lost, loose, tainted>>
         /\ lock' \ {Child} = lock \ {Child} /\ lock' \subseteq lock \cup {Child} /\ maskReadable' \in {maskReadable, ~maskReadable}
         /\ mem' = mem \/ \E h \in Handles : mem[h] = "free" /\ mem' = [mem EXCEPT ![h] = "other"]
         /\ regs' = regs \/ (dma \in Handles /\ regs' = [regs EXCEPT !.ctrl = "tx"])
         /\ pins' = pins \/ (dma \in Handles /\ pins' \in {"on", "off"})
         /\ dma' = dma \/ (dma' \in {"idle", "other"} /\ \A a \in Drivers : pc[a] \notin {"save", "pubClocks", "pinOff", "advance", "tune", "tuned",
                                      "undo", "restore", "dmaStop"} \cup HandlersInstalled)
<1>1. CASE Environment
  BY <1>1, SessionAssumption DEF Environment, EngineWrites, OtherDma, ForkChild, ChildExits,
     MaskChanges, OtherAllocates, hardware, history
<1>2. CASE UNCHANGED vars
  BY <1>2, SessionAssumption DEF vars, hardware, history
<1>3. QED
  BY <1>1, <1>2

LEMMA CrashInWriteDoes ==
  ASSUME IInv, NEW a \in Actors, CrashInWrite(a)
  PROVE  /\ pc[a] \in {"pubAlloc", "pubClocks", "pubFree"}
         /\ \A b \in Actors : pc'[b] = "idle" /\ rec'[b] = Blank /\ (b # a => pc[b] = "idle")
         /\ UNCHANGED <<dma, pins, regs, found, loose>>
         /\ (tainted => tainted')
         /\ file' \in Records /\ (file'.end => file.end) /\ file'.tree \in {NoTree, file.tree, rec[a].tree}
         /\ (file.tree = NoTree /\ file'.tree # NoTree => file'.chan = rec[a].chan /\ file'.loc = rec[a].loc)
         /\ ~tainted' =>
              /\ file' # Empty => file'.pins = rec[a].pins
              /\ pc[a] = "pubClocks" => file'.mem = rec[a].mem
              /\ pc[a] = "pubFree" => file'.mem \in {"none", file.mem} /\ file'.end
              /\ pc[a] = "pubAlloc" => ~file'.end
         /\ \A h \in Handles : mem'[h] = IF mem[h] = a THEN "orphan" ELSE mem[h]
         /\ lost' = lost \cup {h \in Handles : mem[h] = a /\ Gap(a, h, file')}
<1>1. PICK text \in Torn(rec[a], file) :
        Dies(a, text) /\ tainted' = (tainted \/ (pc[a] = "pubAlloc" /\ text.pins # rec[a].pins))
  BY DEF CrashInWrite, At
<1>2. file' = text
  BY <1>1, DiesDoes
<1>3. pc[a] \in {"pubAlloc", "pubClocks", "pubFree"} /\ UNCHANGED <<dma, pins, regs>>
  BY DEF CrashInWrite, AfterPublish
<1>4. rec[a] \in Records /\ file \in Records /\ tainted \in BOOLEAN
  BY DEF IInv, Types, RecordType, BookType
<1>5. /\ file' \in Records /\ (file'.end => file.end) /\ file'.tree \in {NoTree, file.tree, rec[a].tree}
      /\ (file.tree = NoTree /\ file'.tree # NoTree => file'.chan = rec[a].chan /\ file'.loc = rec[a].loc)
  BY <1>2, <1>4, TornLines
<1>6. ASSUME ~tainted', pc[a] = "pubAlloc" PROVE file'.pins = rec[a].pins /\ ~file'.end
  <2>1. file = Empty
    BY <1>6 DEF IInv, FileInv, FileAt
  <2>2. QED
    BY <1>1, <1>2, <1>5, <1>6, <2>1, BlankRecords
<1>7. ASSUME ~tainted', pc[a] = "pubClocks" PROVE file'.pins = rec[a].pins /\ file'.mem = rec[a].mem
  <2>1. file = [rec[a] EXCEPT !.tree = NoTree] /\ rec[a].tree # NoTree
    BY <1>1, <1>4, <1>7 DEF IInv, FileInv, FileAt, SavedInv
  <2>2. QED
    BY <1>2, <1>4, <2>1, TornLines
<1>8. ASSUME ~tainted', pc[a] = "pubFree"
      PROVE  file'.pins = rec[a].pins /\ file'.mem \in {"none", file.mem} /\ file'.end
  <2>1. rec[a] = Forget(file) /\ file.end /\ file.loc # "none"
    BY <1>1, <1>4, <1>8 DEF IInv, FileInv, FileAt
  <2>2. QED
    BY <1>2, <1>4, <2>1, TornLines, ForgetFields
<1>9. lost' = lost \cup {h \in Handles : mem[h] = a /\ Gap(a, h, file')}
  BY <1>1, <1>2, DiesDoes
<1>10. found' = found /\ loose' = loose /\ \A h \in Handles : mem'[h] = IF mem[h] = a THEN "orphan" ELSE mem[h]
  BY <1>1, DiesDoes
<1>11. \A b \in Actors : pc'[b] = "idle" /\ rec'[b] = Blank /\ (b # a => pc[b] = "idle")
  BY <1>1, <1>3, DiesDoes, NobodyLeft
<1>12. tainted => tainted'
  BY <1>1, <1>4
<1>13. QED
  BY <1>3, <1>5, <1>6, <1>7, <1>8, <1>9, <1>10, <1>11, <1>12

-----------------------------------------------------------------------------
(* What the invariant says at the points the steps need.                    *)

(* From the record of the allocation to that of the release, the file names *)
(* the block.                                                               *)
LEMMA FileNames ==
  ASSUME IInv, ~tainted, NEW a \in Actors,
         pc[a] \in {"map", "save", "pubClocks", "pubFree"} \cup Published
  PROVE  /\ file.end /\ \A h \in Handles : mem[h] = a <=> h = file.mem
<1>1. CASE pc[a] \in {"map", "save"} \cup Published
  <2>1. file = rec[a] /\ rec[a].end
    BY <1>1 DEF IInv, FileInv, FileAt, RecKept
  <2>2. \A h \in Handles : mem[h] = a <=> h = rec[a].mem
    BY <1>1 DEF IInv, MemInv, Naming, Published, Carrying
  <2>3. QED
    BY <2>1, <2>2
<1>2. CASE pc[a] = "pubClocks"
  <2>1. file = [rec[a] EXCEPT !.tree = NoTree] /\ rec[a].end /\ rec[a] \in Records
    BY <1>2 DEF IInv, FileInv, FileAt, RecKept, Types, RecordType
  <2>2. \A h \in Handles : mem[h] = a <=> h = rec[a].mem
    BY <1>2 DEF IInv, MemInv, Naming, Published, Carrying
  <2>3. file.end = rec[a].end /\ file.mem = rec[a].mem
    BY <2>1, RecordNoTree
  <2>4. QED
    BY <2>1, <2>2, <2>3
<1>3. CASE pc[a] = "pubFree"
  BY <1>3 DEF IInv, FileInv, FileAt
<1>4. QED
  BY <1>1, <1>2, <1>3

(* Everywhere else the file names no block of the session's.                *)
LEMMA FileNamesNone ==
  ASSUME IInv, ~tainted, NEW a \in Actors, pc[a] # "idle", pc[a] \notin Recovering,
         pc[a] \notin {"map", "save", "pubClocks", "pubFree"} \cup Published
  PROVE  file.mem = "none" \/ (pc[a] = "recClear" /\ outcome[a] = "recovered")
<1>1. pc[a] \in {"recClear", "claim", "alloc", "pubAlloc", "tool", "unlock", "free", "clear"}
  BY DEF IInv, Types, PcType, Places, Clocked, Published, Carrying, Recovering
<1>2. outcome[a] \in {"none", "recovered"}
  BY DEF IInv, Types, HardwareType, Sessions
<1>3. QED
  BY <1>1, <1>2, BlankRecords DEF IInv, FileInv, FileAt

(* A block without a record is lost for good once the recovery is through.  *)
LEMMA LostHere ==
  ASSUME IInv, ~tainted, NEW a \in Actors, pc[a] # "idle", pc[a] \notin Recovering
  PROVE  \A h \in Handles : mem[h] = "orphan" => h \in lost
<1>1. CASE pc[a] \in {"map", "save", "pubClocks", "pubFree"} \cup Published
  <2>1. \A h \in Handles : h = file.mem => mem[h] # "orphan"
    BY <1>1, FileNames, SessionAssumption
  <2>2. QED
    BY <2>1 DEF IInv, OrphanInv
<1>2. CASE pc[a] \notin {"map", "save", "pubClocks", "pubFree"} \cup Published
  <2>1. file.mem = "none" \/ pc[a] = "recClear"
    BY <1>2, FileNamesNone
  <2>2. QED
    BY <2>1, SessionAssumption DEF IInv, OrphanInv
<1>3. QED
  BY <1>1, <1>2

(* Outside the stretch between the move off PLLC and the restoration, the   *)
(* tree is as found.                                                        *)
LEMMA TreeFound ==
  ASSUME IInv, ~tainted, NEW a \in Actors, pc[a] # "idle",
         pc[a] \notin {"advance", "tune", "tuned", "undo", "restore"} \cup Carrying,
         pc[a] \notin {"recDma", "recPins", "recPlan", "recClocks"} \/ file.tree = NoTree
  PROVE  regs = found
<1>1. found \in Trees /\ NoTree \notin Trees
  BY SessionAssumption DEF IInv, Types, BookType
<1>2. \A b \in Actors \ {a} : pc[b] = "idle"
  BY DEF IInv, Holder
<1>3. QED
  BY <1>1, <1>2 DEF IInv, RegsInv, Carrying

(* Inside it, the record on file has the tree as found.                     *)
LEMMA FileHasTree ==
  ASSUME IInv, ~tainted, NEW a \in Actors,
         pc[a] \in {"advance", "tune", "tuned", "undo", "restore"} \cup Carrying
  PROVE  file = rec[a] /\ file.tree = found /\ file.chan
<1>1. pc[a] \in Published /\ pc[a] \in Published \ {"dmaStop"}
  BY DEF Published, Carrying
<1>2. file = rec[a] /\ rec[a].tree # NoTree /\ rec[a].chan
  BY <1>1 DEF IInv, FileInv, FileAt, SavedInv, MemInv, Naming
<1>3. QED
  BY <1>2 DEF IInv, RegsInv

(* GPCLK0 was found stopped: stopping it again changes nothing.             *)
LEMMA FoundStopped ==
  ASSUME FoundKept
  PROVE  [found EXCEPT !.gp0.run = FALSE] = found /\ Written(found, W("gp0", Gen(found.gp0.src, FALSE))) = found
<1>1. found \in Trees /\ ~found.gp0.run
  BY SessionAssumption DEF FoundKept
<1>2. [found EXCEPT !.gp0.run = FALSE] = found
  BY <1>1 DEF Trees, Clock
<1>3. found.gp0 = Gen(found.gp0.src, FALSE)
  BY <1>1 DEF Trees, Clock, Gen
<1>4. Written(found, W("gp0", Gen(found.gp0.src, FALSE))) = [found EXCEPT !["gp0"] = found["gp0"]]
  BY <1>3 DEF Written, W
<1>5. [found EXCEPT !["gp0"] = found["gp0"]] = found
  BY <1>1 DEF Trees
<1>6. QED
  BY <1>2, <1>4, <1>5

(* What RecoverPlan() plans.                                                *)
RecoveryWrites ==
  Stop("gp0", regs.gp0) \o
    IF file.tree = NoTree THEN <<>> ELSE RestorePacing(file.tree) \o RestoreTree(regs, file.tree)

(* Each plan leads where it should: off PLLC, ...                           *)
LEMMA AdvancePlan ==
  ASSUME IInv, NEW a \in Actors
  PROVE  /\ \E u \in Trees : Leads(AdvanceWrites(regs), regs, u, Level(loose, rec[a].tree)) /\ Moved(u)
         /\ AdvanceWrites(regs) \in Seq(Writes)
<1> DEFINE k == Level(loose, rec[a].tree)
<1>1. /\ regs \in Trees /\ rec[a].tree \in Trees \cup {NoTree} /\ Fits(regs, k)
      /\ ~Bcm2711 => regs.emmc2.src # "pllc"
  BY DEF IInv, Types, TreeType, RecordType, Records, FitInv, FoundKept
<1>2. k \in Trees \cup {NoTree, Any}
  BY <1>1, LevelKind DEF IInv, Types, BookType
<1> HIDE DEF k
<1>3. PICK u \in Trees : Leads(AdvanceWrites(regs), regs, u, k) /\ Moved(u)
  BY <1>1, <1>2, AdvanceLeads
<1>4. QED
  BY <1>3 DEF Leads, k

(* ... around on it, ...                                                    *)
LEMMA TunePlan == TuneWrites \in Seq(Retuning) /\ TuneWrites \in Seq(Writes)
<1>1. Retuning \subseteq Writes
  BY DEF Retuning, Writes, W, Gen, Clock, Sources, Generators, Settings, Setting
<1>2. QED
  BY <1>1, TuneIsRetuning

(* ... back to the tree as saved, which is the one found, ...               *)
LEMMA ClosePlan ==
  ASSUME IInv, NEW a \in Actors, pc[a] \in {"ready", "undo"}
  PROVE  LET s == rec[a].tree
             w == RestorePacing(s) \o RestoreTree(regs, s)
         IN  /\ \E u \in Trees : Leads(w, regs, u, Level(loose, s)) /\ (~tainted => u = found)
             /\ w \in Seq(Writes)
<1> DEFINE s == rec[a].tree
           u == Back(regs, s)
           k == Level(loose, s)
<1>1. /\ regs \in Trees /\ s \in Trees \cup {NoTree} /\ Fits(regs, k) /\ found \in Trees
      /\ ~Bcm2711 => regs.emmc2 = found.emmc2
  BY DEF IInv, Types, TreeType, BookType, RecordType, Records, FitInv
<1>2. s # NoTree
  BY DEF IInv, SavedInv, Published, Carrying
<1>3. k \in {s, Any} /\ s \in Trees
  BY <1>1, <1>2, LevelKind DEF IInv, Types, BookType
<1> HIDE DEF s, u, k
<1>4. Leads(RestorePacing(s) \o RestoreTree(regs, s), regs, u, k) /\ u \in Trees
  BY <1>1, <1>3, CloseLeads, BackFields DEF u
<1>5. ASSUME ~tainted PROVE u = found
  <2>1. s = found
    BY <1>2, <1>5 DEF IInv, RegsInv, s
  <2>2. QED
    BY <1>1, <2>1, BackFields, TreesAgree DEF u
<1>6. QED
  BY <1>4, <1>5 DEF s, k, Leads

(* ... or back to what the record of a dead session says, which is the      *)
(* same.                                                                    *)
LEMMA RecoveryPlan ==
  ASSUME IInv, NEW a \in Actors, pc[a] = "recPlan"
  PROVE  \E u \in Trees : Leads(RecoveryWrites, regs, u, Level(loose, file.tree)) /\ (~tainted => u = found)
<1> DEFINE k == Level(loose, file.tree)
<1>1. /\ regs \in Trees /\ file.tree \in Trees \cup {NoTree} /\ Fits(regs, k) /\ found \in Trees
      /\ ~Bcm2711 => regs.emmc2 = found.emmc2
  BY DEF IInv, Types, TreeType, BookType, RecordType, Records, FitInv
<1>6. k \in {file.tree, Any}
  BY <1>1, LevelKind DEF IInv, Types, BookType
<1> HIDE DEF k
<1>2. PICK u \in Trees : /\ Leads(RecoveryWrites, regs, u, k)
                         /\ IF file.tree = NoTree THEN u = [regs EXCEPT !.gp0.run = FALSE] ELSE u = Back(regs, file.tree)
  BY <1>1, <1>6, RecoverLeads DEF RecoveryWrites
<1>3. ASSUME ~tainted, file.tree = NoTree PROVE u = found
  <2>1. regs = found
    BY <1>3, TreeFound DEF Carrying
  <2>2. QED
    BY <1>2, <1>3, <2>1, FoundStopped DEF IInv
<1>4. ASSUME ~tainted, file.tree # NoTree PROVE u = found
  <2>1. file.tree = found
    BY <1>4 DEF IInv, RegsInv
  <2>2. u = Back(regs, found)
    BY <1>2, <1>4, <2>1
  <2>3. QED
    BY <1>1, <2>2, BackFields, TreesAgree
<1>5. QED
  BY <1>2, <1>3, <1>4 DEF k

(* What one write of a plan leaves: a tree that fits, by a legal write,     *)
(* from which the rest leads on.                                            *)
Following(a) ==
  /\ regs' \in Trees /\ Legal(regs, regs')
  /\ Fits(regs', Level(loose, file.tree)) /\ Fits(regs', Level(loose, rec[a].tree))
  /\ Tail(todo[a]) \in Seq(Writes)
  /\ pc[a] \in Retuned => Moved(regs') /\ Tail(todo[a]) \in Seq(Retuning)
  /\ pc[a] = "advance" => \E u \in Trees : Leads(Tail(todo[a]), regs', u, Level(loose, rec[a].tree)) /\ Moved(u)
  /\ pc[a] \in {"restore", "recClocks"} =>
       \E u \in Trees :
         /\ Leads(Tail(todo[a]), regs', u, Level(loose, IF pc[a] = "restore" THEN rec[a].tree ELSE file.tree))
         /\ ~tainted => u = found

LEMMA Follows ==
  ASSUME IInv, NEW a \in Actors, ClockWrite(a), todo[a] # <<>>
  PROVE  Following(a)
<1>1. /\ pc[a] \in {"recClocks", "advance", "tuned", "retune", "retuneTx", "restore"}
      /\ regs' = Written(regs, Head(todo[a])) /\ todo[a] \in Seq(Writes) /\ Tail(todo[a]) \in Seq(Writes)
      /\ regs \in Trees
  BY ClockWriteDoes, HeadTailProperties DEF IInv, Types, TreeType, Todo
<1>2. /\ rec[a].tree \in Trees \cup {NoTree} /\ file.tree \in Trees \cup {NoTree}
      /\ Fits(regs, Level(loose, rec[a].tree)) /\ Fits(regs, Level(loose, file.tree))
      /\ loose \in BOOLEAN /\ Level(loose, rec[a].tree) \in Trees \cup {NoTree, Any}
  BY LevelKind DEF IInv, Types, BookType, RecordType, Records, FitInv
<1>3. ASSUME pc[a] # "recClocks", Fits(regs', Level(loose, rec[a].tree)) PROVE Fits(regs', Level(loose, file.tree))
  <2>1. file.tree \in {NoTree, rec[a].tree}
    BY <1>1, <1>3 DEF IInv, SavedInv, Recovering
  <2>2. QED
    BY <1>2, <1>3, <2>1, FitsNone
<1>4. CASE pc[a] \in Retuned
  <2>1. Moved(regs) /\ todo[a] \in Seq(Retuning)
    BY <1>4 DEF IInv, PlanInv, PlanAt
  <2>2. /\ regs' \in Trees /\ Fits(regs', Level(loose, rec[a].tree)) /\ Legal(regs, regs') /\ Moved(regs')
        /\ Tail(todo[a]) \in Seq(Retuning)
    BY <1>1, <1>2, <2>1, TuningHead
  <2>3. pc[a] \notin {"recClocks", "advance", "restore"}
    BY <1>4 DEF Retuned
  <2>4. QED
    BY <1>1, <1>3, <2>2, <2>3 DEF Following
<1>5. CASE pc[a] = "advance"
  <2>1. PICK u \in Trees : Leads(todo[a], regs, u, Level(loose, rec[a].tree)) /\ Moved(u)
    BY <1>5 DEF IInv, PlanInv, PlanAt
  <2>2. /\ regs' \in Trees /\ Fits(regs', Level(loose, rec[a].tree)) /\ Legal(regs, regs')
        /\ Leads(Tail(todo[a]), regs', u, Level(loose, rec[a].tree))
    BY <1>1, <2>1, LeadsHead
  <2>3. pc[a] \notin Retuned \cup {"recClocks", "restore"}
    BY <1>5 DEF Retuned
  <2>4. QED
    BY <1>1, <1>3, <2>1, <2>2, <2>3 DEF Following
<1>6. CASE pc[a] = "restore"
  <2>1. PICK u \in Trees : Leads(todo[a], regs, u, Level(loose, rec[a].tree)) /\ (~tainted => u = found)
    BY <1>6 DEF IInv, PlanInv, PlanAt, Restores
  <2>2. /\ regs' \in Trees /\ Fits(regs', Level(loose, rec[a].tree)) /\ Legal(regs, regs')
        /\ Leads(Tail(todo[a]), regs', u, Level(loose, rec[a].tree))
    BY <1>1, <2>1, LeadsHead
  <2>3. pc[a] \notin Retuned \cup {"recClocks", "advance"}
    BY <1>6 DEF Retuned
  <2>4. QED
    BY <1>1, <1>3, <1>6, <2>1, <2>2, <2>3 DEF Following
<1>7. CASE pc[a] = "recClocks"
  <2>1. PICK u \in Trees : Leads(todo[a], regs, u, Level(loose, file.tree)) /\ (~tainted => u = found)
    BY <1>7 DEF IInv, PlanInv, PlanAt, Restores
  <2>2. /\ regs' \in Trees /\ Fits(regs', Level(loose, file.tree)) /\ Legal(regs, regs')
        /\ Leads(Tail(todo[a]), regs', u, Level(loose, file.tree))
    BY <1>1, <2>1, LeadsHead
  <2>3. Fits(regs', Level(loose, rec[a].tree))
    BY <1>2, <1>7, <2>2, FitsNone, BlankRecords DEF IInv, RecKept, Recovering
  <2>4. pc[a] \notin Retuned \cup {"restore", "advance"}
    BY <1>7 DEF Retuned
  <2>5. QED
    BY <1>1, <1>7, <2>1, <2>2, <2>3, <2>4 DEF Following
<1>8. QED
  BY <1>1, <1>4, <1>5, <1>6, <1>7 DEF Retuned

-----------------------------------------------------------------------------
(* Each part of the invariant is preserved by every step: one step of the   *)
(* proof per action.                                                        *)

(* Lock, crashes and history.                                               *)
LEMMA BookStep ==
  ASSUME IInv, [Next]_vars
  PROVE  BookType'
<1>0. loose \in BOOLEAN /\ tainted \in BOOLEAN /\ (loose => tainted)
  BY DEF IInv, Types, BookType
<1>1. ASSUME NEW a \in Actors, RecoverClear(a) \/ MapBlock(a) \/ SaveClocks(a) \/ PinOff(a) \/ Tune(a)
      PROVE BookType'
  BY <1>1 DEF hardware, history, RecoverClear, MapBlock, SaveClocks, PinOff, Tune, IInv, Types, BookType
<1>20. ASSUME NEW a \in Actors, RecoverPins(a) PROVE BookType'
  <2>1. /\ UNCHANGED <<lock, maskReadable, signalled, crashes, found, lost, loose>>
        /\ tainted' = tainted \/ tainted' = TRUE
    BY <1>20, Zenon DEF RecoverPins, Skipped, history, hardware
  <2>2. QED
    BY <1>0, <2>1 DEF IInv, Types, BookType
<1>17. ASSUME NEW a \in Actors, TakeLock(a) PROVE BookType'
  <2>1. tainted' \in BOOLEAN /\ lost' \subseteq Handles
    BY <1>17 DEF TakeLock, IInv, Types, BookType
  <2>2. QED
    BY <1>17, <2>1, TakeLockDoes DEF IInv, Types, BookType
<1>18. ASSUME NEW a \in Actors, RecoverMem(a) PROVE BookType'
  <2>1. tainted' \in BOOLEAN /\ lost' \subseteq Handles
    BY <1>18 DEF RecoverMem, IInv, Types, BookType
  <2>2. tainted => tainted'
    BY <1>18, RecoverMemDoes
  <2>3. QED
    BY <1>0, <1>18, <2>1, <2>2, RecoverMemDoes DEF IInv, Types, BookType
<1>19. ASSUME NEW a \in Actors, Publish(a) PROVE BookType'
  <2>1. tainted' \in BOOLEAN /\ (tainted => tainted')
    BY <1>0, <1>19 DEF Publish
  <2>2. QED
    BY <1>0, <1>19, <2>1, PublishDoes DEF hardware, IInv, Types, BookType
<1>2. ASSUME NEW a \in Actors, RecoverPlan(a) PROVE BookType'
  BY <1>2, SessionAssumption, RecoverPlanDoes DEF hardware, history, IInv, Types, BookType,
     PcType, HandlersInstalled, Carrying, Holder, Sessions, Recovering
<1>3. ASSUME NEW a \in Actors, ClockWrite(a) PROVE BookType'
  BY <1>3, SessionAssumption, ClockWriteDoes DEF hardware, history, IInv, Types, BookType, PcType,
     HandlersInstalled, Carrying, Holder, Sessions, Recovering
<1>4. ASSUME NEW a \in Actors, Claim(a) PROVE BookType'
  BY <1>4, SessionAssumption, ClaimDoes DEF hardware, history, IInv, Types, BookType, PcType,
     HandlersInstalled, Carrying, Holder, Sessions, Recovering
<1>5. ASSUME NEW a \in Actors, Allocate(a) PROVE BookType'
  BY <1>5, SessionAssumption, AllocateDoes DEF hardware, history, IInv, Types, BookType, PcType,
     HandlersInstalled, Carrying, Holder, Sessions, Recovering
<1>6. ASSUME NEW a \in Actors, Retune(a) \/ StartDma(a) \/ StopDma(a) \/ Close(a) \/ DmaStop(a)
      PROVE BookType'
  BY <1>6, SessionAssumption DEF Retune, At, Goto, hardware, history, HandlersInstalled, Carrying,
     Sessions, Recovering, StartDma, StopDma, Close, DmaStop, Actors, Types, PcType, IInv,
     BookType
<1>7. ASSUME NEW a \in Actors, FreeBlock(a) \/ ClearRecord(a) PROVE BookType'
  BY <1>7, SessionAssumption DEF FreeBlock, At, Goto, hardware, history, HandlersInstalled,
     Carrying, Sessions, Recovering, ClearRecord, Actors, Types, PcType, IInv, BookType
<1>8. ASSUME NEW a \in Actors, Unlock(a) PROVE BookType'
  BY <1>8, SessionAssumption DEF Unlock, At, Goto, hardware, history, Ends, HandlersInstalled,
     Carrying, Sessions, Recovering, Actors, Types, PcType, IInv, BookType
<1>9. ASSUME NEW a \in Actors, ToolReset(a) PROVE BookType'
  BY <1>9, SessionAssumption DEF ToolReset, At, Goto, hardware, history, HandlersInstalled,
     Carrying, Sessions, Recovering, Actors, Types, PcType, IInv, BookType
<1>10. ASSUME NEW a \in Actors, Crash(a) PROVE BookType'
  BY <1>10, SessionAssumption, DiesDoes, BlankRecords DEF Crash, At, IInv, Types, BookType,
     PcType, HandlersInstalled, Carrying, Holder, Sessions, Recovering
<1>11. ASSUME NEW a \in Actors, CrashInWrite(a) PROVE BookType'
  BY <1>11, SessionAssumption DEF CrashInWrite, Dies, Ends, Actors, Types, IInv, BookType
<1>12. ASSUME NEW a \in Actors, SignalStop(a) PROVE BookType'
  <2>1. a \in Drivers
    BY <1>12 DEF SignalStop, HandlersInstalled, IInv, Sessions, Recovering, Actors
  <2>2. QED
    BY <1>12, <2>1 DEF SignalStop, Silence, IInv, Types, BookType
<1>13. ASSUME NEW a \in Actors, Exit(a) PROVE BookType'
  BY <1>13, SessionAssumption, DiesDoes, BlankRecords DEF Exit, Silence, At, IInv, Types,
     BookType, PcType, HandlersInstalled, Carrying, Holder, Sessions, Recovering
<1>14. ASSUME Environment \/ UNCHANGED vars PROVE BookType'
  <2>1. /\ UNCHANGED <<signalled, crashes, found, lost, loose, tainted>>
        /\ lock' \subseteq lock \cup {Child} /\ maskReadable' \in {maskReadable, ~maskReadable}
    BY <1>14, OutsideDoes
  <2>2. maskReadable' \in BOOLEAN
    BY <2>1 DEF IInv, Types, BookType
  <2>3. QED
    BY <2>1, <2>2 DEF IInv, Types, BookType
<1>16. ASSUME NEW a \in Actors, RecoverDma(a) PROVE BookType'
  <2>1. tainted' \in BOOLEAN
    BY <1>16 DEF RecoverDma, RunsOn, history, IInv, Types, BookType
  <2>2. QED
    BY <1>16, <2>1, RecoverDmaDoes DEF IInv, Types, BookType
<1>15. QED
  BY <1>16, <1>17, <1>18, <1>19, <1>20, <1>1, <1>2, <1>3, <1>4, <1>5, <1>6, <1>7, <1>8, <1>9, <1>10, <1>11, <1>12, <1>13, <1>14 DEF
     Next, Step, Death

(* Places.                                                                  *)
LEMMA PcStep ==
  ASSUME IInv, [Next]_vars
  PROVE  PcType'
<1>1. ASSUME NEW a \in Actors, TakeLock(a) \/ RecoverPins(a) \/ RecoverClear(a) \/ PinOff(a) \/
        Tune(a) \/ Retune(a) \/ StartDma(a) \/ StopDma(a) \/ Close(a) \/ FreeBlock(a) \/
        ClearRecord(a) \/ Unlock(a) \/ ToolReset(a) \/ CrashInWrite(a) \/ SignalStop(a)
      PROVE PcType'
  BY <1>1 DEF TakeLock, At, Goto, hardware, history, Clocked, AfterClocks, AfterPublish,
     RecoverPins, Skipped, RecoverClear, PinOff, Tune, Retune, StartDma, StopDma, Close,
     FreeBlock, ClearRecord, Unlock, Ends, ToolReset, CrashInWrite, Dies, SignalStop, Silence,
     IInv, Types, PcType, Places
<1>2. ASSUME NEW a \in Actors, RecoverDma(a) PROVE PcType'
  BY <1>2, RecoverDmaDoes DEF IInv, Types, PcType, Places, Clocked, AfterClocks, AfterPublish
<1>3. ASSUME NEW a \in Actors, RecoverPlan(a) PROVE PcType'
  BY <1>3, RecoverPlanDoes DEF hardware, history, IInv, Types, PcType, Places, Clocked,
     AfterClocks, AfterPublish
<1>4. ASSUME NEW a \in Actors, RecoverMem(a) PROVE PcType'
  BY <1>4, RecoverMemDoes DEF IInv, Types, PcType, Places, Clocked, AfterClocks, AfterPublish
<1>5. ASSUME NEW a \in Actors, ClockWrite(a) PROVE PcType'
  BY <1>5, ClockWriteDoes DEF hardware, history, IInv, Types, PcType, Places, Clocked,
     AfterClocks, AfterPublish
<1>6. ASSUME NEW a \in Actors, Claim(a) PROVE PcType'
  BY <1>6, ClaimDoes DEF hardware, history, IInv, Types, PcType, Places, Clocked, AfterClocks,
     AfterPublish
<1>7. ASSUME NEW a \in Actors, Allocate(a) PROVE PcType'
  BY <1>7, AllocateDoes DEF hardware, history, IInv, Types, PcType, Places, Clocked, AfterClocks,
     AfterPublish
<1>8. ASSUME NEW a \in Actors, Publish(a) PROVE PcType'
  BY <1>8, PublishDoes DEF hardware, history, IInv, Types, PcType, Places, Clocked, AfterClocks,
     AfterPublish
<1>9. ASSUME NEW a \in Actors, MapBlock(a) PROVE PcType'
  BY <1>9, ForgotDoes DEF MapBlock, At, Goto, IInv, Types, PcType, Places, Clocked, AfterClocks,
     AfterPublish
<1>10. ASSUME NEW a \in Actors, SaveClocks(a) PROVE PcType'
  BY <1>10, SaveClocksDoes DEF hardware, history, IInv, Types, PcType, Places, Clocked,
     AfterClocks, AfterPublish
<1>11. ASSUME NEW a \in Actors, DmaStop(a) PROVE PcType'
  BY <1>11, ForgotDoes DEF DmaStop, At, Goto, IInv, Types, PcType, Places, Clocked, AfterClocks,
     AfterPublish
<1>12. ASSUME NEW a \in Actors, Crash(a) PROVE PcType'
  BY <1>12, DiesDoes, BlankRecords DEF Crash, At, IInv, Types, PcType, Places, Clocked,
     AfterClocks, AfterPublish
<1>13. ASSUME NEW a \in Actors, Exit(a) PROVE PcType'
  BY <1>13, DiesDoes, BlankRecords DEF Exit, Silence, At, IInv, Types, PcType, Places, Clocked,
     AfterClocks, AfterPublish
<1>14. ASSUME Environment \/ UNCHANGED vars PROVE PcType'
  BY <1>14, OutsideDoes DEF IInv, Types, PcType, Actors
<1>15. QED
  BY <1>1, <1>2, <1>3, <1>4, <1>5, <1>6, <1>7, <1>8, <1>9, <1>10, <1>11, <1>12, <1>13, <1>14 DEF
     Next, Step, Death

(* Records and file.                                                        *)
LEMMA RecordStep ==
  ASSUME IInv, [Next]_vars
  PROVE  RecordType'
<1>1. ASSUME NEW a \in Actors, TakeLock(a) \/ RecoverPins(a) \/ RecoverClear(a) \/ PinOff(a) \/
        Tune(a) \/ Retune(a) \/ StartDma(a) \/ StopDma(a) \/ Close(a) \/ FreeBlock(a) \/
        ClearRecord(a) \/ Unlock(a) \/ ToolReset(a) \/ SignalStop(a)
      PROVE RecordType'
  BY <1>1, BlankRecords, SessionAssumption DEF TakeLock, At, Goto, hardware, history, RecoverPins,
     Skipped, RecoverClear, PinOff, Tune, Retune, StartDma, StopDma, Close, FreeBlock,
     ClearRecord, Unlock, Ends, ToolReset, SignalStop, Silence, Actors, Types, PcType, IInv,
     RecordType
<1>2. ASSUME NEW a \in Actors, RecoverDma(a) PROVE RecordType'
  BY <1>2, SessionAssumption, BlankRecords, RecoverDmaDoes DEF IInv, Types, RecordType, PcType,
     BookType, HardwareType, TreeType
<1>3. ASSUME NEW a \in Actors, RecoverPlan(a) PROVE RecordType'
  BY <1>3, SessionAssumption, BlankRecords, RecoverPlanDoes DEF hardware, history, IInv, Types,
     RecordType, PcType, BookType, HardwareType, TreeType
<1>4. ASSUME NEW a \in Actors, RecoverMem(a) PROVE RecordType'
  BY <1>4, SessionAssumption, BlankRecords, RecoverMemDoes DEF IInv, Types, RecordType, PcType,
     BookType, HardwareType, TreeType
<1>5. ASSUME NEW a \in Actors, ClockWrite(a) PROVE RecordType'
  BY <1>5, SessionAssumption, BlankRecords, ClockWriteDoes DEF hardware, history, IInv, Types,
     RecordType, PcType, BookType, HardwareType, TreeType
<1>6. ASSUME NEW a \in Actors, Claim(a) PROVE RecordType'
  BY <1>6, ClaimDoes DEF IInv, Types, RecordType
<1>7. ASSUME NEW a \in Actors, Allocate(a) PROVE RecordType'
  BY <1>7, AllocateDoes DEF IInv, Types, RecordType
<1>8. ASSUME NEW a \in Actors, Publish(a) PROVE RecordType'
  BY <1>8, PublishDoes DEF IInv, Types, RecordType
<1>9. ASSUME NEW a \in Actors, MapBlock(a) PROVE RecordType'
  BY <1>9, MapBlockDoes DEF IInv, Types, RecordType
<1>10. ASSUME NEW a \in Actors, SaveClocks(a) PROVE RecordType'
  BY <1>10, SaveClocksDoes DEF IInv, Types, RecordType
<1>11. ASSUME NEW a \in Actors, DmaStop(a) PROVE RecordType'
  BY <1>11, DmaStopDoes DEF IInv, Types, RecordType
<1>12. ASSUME NEW a \in Actors, Crash(a) PROVE RecordType'
  BY <1>12, SessionAssumption, BlankRecords, DiesDoes, BlankRecords DEF Crash, At, IInv, Types,
     RecordType, PcType, BookType, HardwareType, TreeType
<1>13. ASSUME NEW a \in Actors, CrashInWrite(a) PROVE RecordType'
  <2>1. file' \in Records
    BY <1>13, CrashInWriteDoes
  <2>2. rec' = [rec EXCEPT ![a] = Blank]
    BY <1>13 DEF CrashInWrite, Dies, Ends
  <2>3. QED
    BY <2>1, <2>2, BlankRecords DEF IInv, Types, RecordType
<1>14. ASSUME NEW a \in Actors, Exit(a) PROVE RecordType'
  BY <1>14, SessionAssumption, BlankRecords, DiesDoes, BlankRecords DEF Exit, Silence, At, IInv,
     Types, RecordType, PcType, BookType, HardwareType, TreeType
<1>15. ASSUME Environment \/ UNCHANGED vars PROVE RecordType'
  BY <1>15, BlankRecords, SessionAssumption, OutsideDoes DEF IInv, Types, PcType, Actors, RecordType
<1>16. QED
  BY <1>1, <1>2, <1>3, <1>4, <1>5, <1>6, <1>7, <1>8, <1>9, <1>10, <1>11, <1>12, <1>13, <1>14,
     <1>15 DEF Next, Step, Death

(* Blocks, channel and pins.                                                *)
LEMMA HardwareStep ==
  ASSUME IInv, [Next]_vars
  PROVE  HardwareType'
<1>1. ASSUME NEW a \in Actors, TakeLock(a) PROVE HardwareType'
  BY <1>1, SessionAssumption DEF TakeLock, At, Goto, hardware, history, Records, Restored, MemInv,
     Actors, Types, IInv, HardwareType
<1>2. ASSUME NEW a \in Actors, RecoverDma(a) PROVE HardwareType'
  BY <1>2, SessionAssumption DEF RecoverDma, Skipped, RunsOn, hardware, history, Actors, Types, IInv,
     HardwareType
<1>3. ASSUME NEW a \in Actors, RecoverPins(a) PROVE HardwareType'
  BY <1>3, SessionAssumption DEF RecoverPins, At, Goto, hardware, history, Skipped, Records,
     Restored, MemInv, IInv, Types, HardwareType, RecordType
<1>4. ASSUME NEW a \in Actors, RecoverPlan(a) PROVE HardwareType'
  BY <1>4, SessionAssumption DEF RecoverPlan, Skipped, hardware, history, Actors, Types, IInv,
     HardwareType
<1>5. ASSUME NEW a \in Actors, RecoverMem(a) PROVE HardwareType'
  BY <1>5, SessionAssumption, RecoverMemDoes DEF IInv, Types, HardwareType, RecordType, Records,
     Restored, MemInv
<1>6. ASSUME NEW a \in Actors, RecoverClear(a) PROVE HardwareType'
  BY <1>6, SessionAssumption DEF RecoverClear, At, Goto, hardware, history, Records, Restored,
     MemInv, Actors, Types, IInv, HardwareType
<1>7. ASSUME NEW a \in Actors, ClockWrite(a) PROVE HardwareType'
  BY <1>7, SessionAssumption, ClockWriteDoes DEF hardware, history, IInv, Types, HardwareType,
     RecordType, Records, Restored, MemInv
<1>8. ASSUME NEW a \in Actors, Claim(a) PROVE HardwareType'
  BY <1>8, SessionAssumption, ClaimDoes DEF hardware, history, IInv, Types, HardwareType,
     RecordType, Records, Restored, MemInv
<1>9. ASSUME NEW a \in Actors, Allocate(a) PROVE HardwareType'
  <2>1. /\ outcome' = outcome /\ dma' = dma /\ pins' = pins
        /\ mem' = mem \/ \E h \in Handles : mem' = [mem EXCEPT ![h] = a]
    BY <1>9 DEF Allocate, history
  <2>2. QED
    BY <2>1 DEF IInv, Types, HardwareType
<1>10. ASSUME NEW a \in Actors, Publish(a) PROVE HardwareType'
  BY <1>10, SessionAssumption, PublishDoes DEF hardware, history, IInv, Types, HardwareType,
     RecordType, Records, Restored, MemInv
<1>11. ASSUME NEW a \in Actors, MapBlock(a) PROVE HardwareType'
  BY <1>11, SessionAssumption, ForgotDoes DEF MapBlock, At, Goto, IInv, Types, HardwareType,
     RecordType, Records, Restored, MemInv
<1>12. ASSUME NEW a \in Actors, SaveClocks(a) PROVE HardwareType'
  BY <1>12, SessionAssumption, SaveClocksDoes DEF hardware, history, IInv, Types, HardwareType,
     RecordType, Records, Restored, MemInv
<1>13. ASSUME NEW a \in Actors, PinOff(a) \/ Tune(a) PROVE HardwareType'
  BY <1>13, SessionAssumption DEF PinOff, history, Restored, Tune, At, Goto, hardware, Records,
     MemInv, Actors, Types, IInv, HardwareType
<1>14. ASSUME NEW a \in Actors, Retune(a) \/ Close(a) \/ FreeBlock(a) \/ ClearRecord(a) \/
        Unlock(a) \/ ToolReset(a) \/ SignalStop(a)
      PROVE HardwareType'
  BY <1>14, SessionAssumption DEF Retune, At, Goto, hardware, history, Records, Restored, MemInv,
     Close, FreeBlock, ClearRecord, Unlock, Ends, ToolReset, SignalStop, Silence, IInv, Types,
     HardwareType, RecordType
<1>15. ASSUME NEW a \in Actors, StartDma(a) PROVE HardwareType'
  <2>1. dma' = rec[a].mem /\ rec[a].mem \in Handles
    BY <1>15 DEF StartDma, At, IInv, MemInv, Naming, Published, Carrying
  <2>2. QED
    BY <1>15, <2>1 DEF StartDma, IInv, Types, HardwareType
<1>16. ASSUME NEW a \in Actors, StopDma(a) PROVE HardwareType'
  <2>1. rec[a].pins \in {"orig", "off", "on"}
    BY DEF IInv, Types, RecordType, Records
  <2>2. QED
    BY <1>16, <2>1 DEF StopDma, Restored, IInv, Types, HardwareType
<1>17. ASSUME NEW a \in Actors, DmaStop(a) PROVE HardwareType'
  BY <1>17, SessionAssumption, ForgotDoes DEF DmaStop, At, Goto, IInv, Types, HardwareType,
     RecordType, Records, Restored, MemInv
<1>18. ASSUME NEW a \in Actors, Crash(a) PROVE HardwareType'
  <2>1. /\ outcome' = [outcome EXCEPT ![a] = "none"] /\ mem' = [h \in Handles |-> IF mem[h] = a THEN "orphan" ELSE mem[h]]
        /\ dma' = dma /\ pins' = pins
    BY <1>18 DEF Crash, Dies, Ends
  <2>2. QED
    BY <2>1 DEF IInv, Types, HardwareType
<1>19. ASSUME NEW a \in Actors, CrashInWrite(a) PROVE HardwareType'
  <2>1. /\ outcome' = [outcome EXCEPT ![a] = "none"] /\ mem' = [h \in Handles |-> IF mem[h] = a THEN "orphan" ELSE mem[h]]
        /\ dma' = dma /\ pins' = pins
    BY <1>19 DEF CrashInWrite, Dies, Ends
  <2>2. QED
    BY <2>1 DEF IInv, Types, HardwareType
<1>20. ASSUME NEW a \in Actors, Exit(a) PROVE HardwareType'
  <2>1. /\ outcome' = [outcome EXCEPT ![a] = "none"] /\ mem' = [h \in Handles |-> IF mem[h] = a THEN "orphan" ELSE mem[h]]
        /\ dma' = "idle" /\ pins' = "off"
    BY <1>20 DEF Exit, Dies, Ends, Silence
  <2>2. QED
    BY <2>1 DEF IInv, Types, HardwareType
<1>21. ASSUME Environment \/ UNCHANGED vars PROVE HardwareType'
  BY <1>21, SessionAssumption, OutsideDoes DEF IInv, Types, PcType, Actors, HardwareType
<1>22. QED
  BY <1>1, <1>2, <1>3, <1>4, <1>5, <1>6, <1>7, <1>8, <1>9, <1>10, <1>11, <1>12, <1>13, <1>14,
     <1>15, <1>16, <1>17, <1>18, <1>19, <1>20, <1>21 DEF Next, Step, Death

(* Nothing to write outside the places that write clocks.                   *)
LEMMA QuietStep ==
  ASSUME IInv, [Next]_vars
  PROVE  QuietType'
<1>1. ASSUME NEW a \in Actors, TakeLock(a) \/ RecoverPins(a) \/ RecoverClear(a) \/
        SaveClocks(a) \/ PinOff(a) \/ Tune(a) \/ Retune(a) \/ StartDma(a) \/ StopDma(a) \/
        Close(a) \/ DmaStop(a) \/ FreeBlock(a) \/ ClearRecord(a) \/ Unlock(a) \/
        ToolReset(a) \/ CrashInWrite(a) \/ SignalStop(a) \/ Exit(a)
      PROVE QuietType'
  BY <1>1 DEF TakeLock, At, Goto, hardware, history, Clocked, AfterClocks, AfterPublish,
     HandlersInstalled, RecoverPins, Skipped, RecoverClear, SaveClocks, PinOff, Tune, Retune,
     StartDma, StopDma, Close, DmaStop, FreeBlock, ClearRecord, Unlock, Ends, ToolReset,
     CrashInWrite, Dies, SignalStop, Exit, IInv, Types, QuietType, PcType, TreeType, Todo, Places
<1>2. ASSUME NEW a \in Actors, RecoverDma(a) PROVE QuietType'
  BY <1>2, RecoverDmaDoes DEF IInv, Types, QuietType, PcType, TreeType, Todo, Clocked, Places,
     AfterClocks, AfterPublish, HandlersInstalled
<1>3. ASSUME NEW a \in Actors, RecoverPlan(a) PROVE QuietType'
  BY <1>3, RecoverPlanDoes DEF hardware, history, IInv, Types, QuietType, PcType, TreeType, Todo,
     Clocked, Places, AfterClocks, AfterPublish, HandlersInstalled
<1>4. ASSUME NEW a \in Actors, RecoverMem(a) PROVE QuietType'
  BY <1>4, RecoverMemDoes DEF IInv, Types, QuietType, PcType, TreeType, Todo, Clocked, Places,
     AfterClocks, AfterPublish, HandlersInstalled
<1>5. ASSUME NEW a \in Actors, ClockWrite(a) PROVE QuietType'
  BY <1>5, ClockWriteDoes DEF hardware, history, IInv, Types, QuietType, PcType, TreeType, Todo,
     Clocked, Places, AfterClocks, AfterPublish, HandlersInstalled
<1>6. ASSUME NEW a \in Actors, Claim(a) PROVE QuietType'
  BY <1>6, ClaimDoes DEF hardware, history, IInv, Types, QuietType, PcType, TreeType, Todo,
     Clocked, Places, AfterClocks, AfterPublish, HandlersInstalled
<1>7. ASSUME NEW a \in Actors, Allocate(a) PROVE QuietType'
  BY <1>7, AllocateDoes DEF hardware, history, IInv, Types, QuietType, PcType, TreeType, Todo,
     Clocked, Places, AfterClocks, AfterPublish, HandlersInstalled
<1>8. ASSUME NEW a \in Actors, Publish(a) PROVE QuietType'
  BY <1>8, PublishDoes DEF hardware, history, IInv, Types, QuietType, PcType, TreeType, Todo,
     Clocked, Places, AfterClocks, AfterPublish, HandlersInstalled
<1>9. ASSUME NEW a \in Actors, MapBlock(a) PROVE QuietType'
  BY <1>9, ForgotDoes DEF MapBlock, At, Goto, IInv, Types, QuietType, PcType, TreeType, Todo,
     Clocked, Places, AfterClocks, AfterPublish, HandlersInstalled
<1>10. ASSUME NEW a \in Actors, Crash(a) PROVE QuietType'
  BY <1>10, DiesDoes, BlankRecords DEF Crash, At, IInv, Types, QuietType, PcType, TreeType, Todo,
     Clocked, Places, AfterClocks, AfterPublish, HandlersInstalled
<1>11. ASSUME Environment \/ UNCHANGED vars PROVE QuietType'
  BY <1>11, OutsideDoes DEF IInv, Types, PcType, Actors, QuietType
<1>12. QED
  BY <1>1, <1>2, <1>3, <1>4, <1>5, <1>6, <1>7, <1>8, <1>9, <1>10, <1>11 DEF Next, Step, Death

(* The clocks change by a write that was planned, by stopping GPCLK0, or by *)
(* the engine.                                                              *)
RegsMoves ==
  \/ regs' = regs
  \/ regs' = [regs EXCEPT !.gp0.run = FALSE]
  \/ dma \in Handles /\ regs' = [regs EXCEPT !.ctrl = "tx"] /\ UNCHANGED <<file, rec, loose>>
  \/ \E a \in Actors : ClockWrite(a) /\ todo[a] # <<>>

LEMMA RegsDo ==
  ASSUME [Next]_vars
  PROVE  RegsMoves
<1>1. ASSUME NEW a \in Actors, Step(a), regs' # regs, regs' # [regs EXCEPT !.gp0.run = FALSE]
      PROVE  ClockWrite(a) /\ todo[a] # <<>>
  <2>1. ClockWrite(a)
    BY <1>1 DEF Step, TakeLock, RecoverDma, RecoverPins, RecoverPlan, RecoverMem, RecoverClear,
       Skipped, RunsOn, Claim, Allocate, Publish, MapBlock, SaveClocks, PinOff, Tune, Retune, StartDma,
       StopDma, Close, DmaStop, FreeBlock, ClearRecord, Unlock, ToolReset, hardware
  <2>2. QED
    BY <1>1, <2>1 DEF ClockWrite
<1>2. ASSUME NEW a \in Actors, Death(a) PROVE regs' = regs \/ regs' = [regs EXCEPT !.gp0.run = FALSE]
  BY <1>2 DEF Death, Crash, CrashInWrite, SignalStop, Exit, Silence
<1>3. ASSUME Environment \/ UNCHANGED vars
      PROVE  \/ regs' = regs
             \/ dma \in Handles /\ regs' = [regs EXCEPT !.ctrl = "tx"] /\ UNCHANGED <<file, rec, loose>>
  BY <1>3, OutsideDoes
<1>4. QED
  BY <1>1, <1>2, <1>3 DEF Next, RegsMoves

LEMMA RegsLegal ==
  ASSUME IInv, [Next]_vars
  PROVE  regs' \in Trees /\ Legal(regs, regs')
<1>1. regs \in Trees
  BY DEF IInv, Types, TreeType
<1>2. CASE regs' = regs
  BY <1>1, <1>2 DEF Legal
<1>3. CASE regs' = [regs EXCEPT !.gp0.run = FALSE]
  BY <1>1, <1>3, Silenced
<1>4. CASE regs' = [regs EXCEPT !.ctrl = "tx"]
  BY <1>1, <1>4, Modulated
<1>5. CASE \E a \in Actors : ClockWrite(a) /\ todo[a] # <<>>
  BY <1>5, Follows DEF Following
<1>6. QED
  BY <1>2, <1>3, <1>4, <1>5, RegsDo DEF RegsMoves

(* Plans are sequences of writes.                                           *)
LEMMA TodoStep ==
  ASSUME IInv, [Next]_vars
  PROVE  Todo'
<1>1. ASSUME NEW a \in Actors, TakeLock(a) \/ RecoverDma(a) \/ RecoverPins(a) \/
        RecoverMem(a) \/ RecoverClear(a) \/ Claim(a) \/ Allocate(a) \/ Publish(a) \/
        MapBlock(a) \/ SaveClocks(a)
      PROVE Todo'
  BY <1>1 DEF TakeLock, At, Goto, hardware, history, RecoverDma, Skipped, RunsOn, RecoverPins, RecoverMem,
     RecoverClear, Claim, Allocate, Publish, MapBlock, SaveClocks, IInv, Types, TreeType, Todo
<1>2. ASSUME NEW a \in Actors, RecoverPlan(a) PROVE Todo'
  <2>1. pc[a] = "recPlan"
    BY <1>2, RecoverPlanDoes
  <2>2. CASE pc' = [pc EXCEPT ![a] = "recMem"] /\ todo' = todo
    BY <2>2 DEF IInv, Types, TreeType, Todo
  <2>3. CASE todo' = [todo EXCEPT ![a] = RecoveryWrites]
    <3>1. RecoveryWrites \in Seq(Writes)
      BY <2>1, RecoveryPlan DEF Leads
    <3>2. QED
      BY <2>3, <3>1 DEF IInv, Types, TreeType, Todo
  <2>4. QED
    BY <1>2, <2>2, <2>3 DEF RecoverPlan, Skipped, Goto, RecoveryWrites
<1>3. ASSUME NEW a \in Actors, ClockWrite(a) PROVE Todo'
  <2>1. CASE todo[a] = <<>>
    BY <1>3, <2>1, ClockWriteDoes DEF IInv, Types, TreeType, Todo
  <2>2. CASE todo[a] # <<>>
    <3>1. Tail(todo[a]) \in Seq(Writes) /\ todo' = [todo EXCEPT ![a] = Tail(todo[a])]
      BY <1>3, <2>2, ClockWriteDoes, Follows DEF Following
    <3>2. QED
      BY <3>1 DEF IInv, Types, TreeType, Todo
  <2>3. QED
    BY <2>1, <2>2
<1>4. ASSUME NEW a \in Actors, PinOff(a) PROVE Todo'
  <2>1. AdvanceWrites(regs) \in Seq(Writes)
    BY AdvancePlan DEF Leads
  <2>2. QED
    BY <1>4, <2>1 DEF PinOff, IInv, Types, TreeType, Todo
<1>5. ASSUME NEW a \in Actors, Tune(a) PROVE Todo'
  BY <1>5, TunePlan DEF Tune, IInv, Types, TreeType, Todo
<1>6. ASSUME NEW a \in Actors, Retune(a) PROVE Todo'
  BY <1>6, TunePlan DEF Retune, IInv, Types, TreeType, Todo
<1>7. ASSUME NEW a \in Actors, StartDma(a) \/ StopDma(a) \/ DmaStop(a) \/ FreeBlock(a) \/
        ClearRecord(a)
      PROVE Todo'
  BY <1>7 DEF StartDma, At, Goto, hardware, history, StopDma, DmaStop, FreeBlock, ClearRecord,
     IInv, Types, TreeType, Todo
<1>8. ASSUME NEW a \in Actors, Close(a) PROVE Todo'
  <2>1. RestorePacing(rec[a].tree) \o RestoreTree(regs, rec[a].tree) \in Seq(Writes)
    BY <1>8, ClosePlan DEF Close
  <2>2. QED
    BY <1>8, <2>1 DEF Close, IInv, Types, TreeType, Todo
<1>9. ASSUME NEW a \in Actors, Unlock(a) PROVE Todo'
  BY <1>9 DEF Unlock, At, Goto, hardware, history, Ends, IInv, Types, TreeType, Todo
<1>10. ASSUME NEW a \in Actors, ToolReset(a) PROVE Todo'
  BY <1>10 DEF ToolReset, At, Goto, hardware, history, IInv, Types, TreeType, Todo
<1>11. ASSUME NEW a \in Actors, Crash(a) PROVE Todo'
  BY <1>11 DEF Crash, At, Goto, hardware, history, Dies, Ends, IInv, Types, TreeType, Todo
<1>12. ASSUME NEW a \in Actors, CrashInWrite(a) PROVE Todo'
  BY <1>12 DEF CrashInWrite, At, Goto, hardware, history, Dies, Ends, IInv, Types, TreeType, Todo
<1>13. ASSUME NEW a \in Actors, SignalStop(a) PROVE Todo'
  BY <1>13 DEF SignalStop, At, Goto, hardware, history, Silence, IInv, Types, TreeType, Todo
<1>14. ASSUME NEW a \in Actors, Exit(a) PROVE Todo'
  BY <1>14 DEF Exit, At, Goto, hardware, history, Dies, Ends, Silence, IInv, Types, TreeType, Todo
<1>15. ASSUME Environment \/ UNCHANGED vars PROVE Todo'
  BY <1>15, OutsideDoes DEF IInv, Types, TreeType, Todo
<1>16. QED
  BY <1>1, <1>2, <1>3, <1>4, <1>5, <1>6, <1>7, <1>8, <1>9, <1>10, <1>11, <1>12, <1>13, <1>14,
     <1>15 DEF Next, Step, Death

LEMMA TreeStep ==
  ASSUME IInv, [Next]_vars
  PROVE  TreeType'
BY RegsLegal, TodoStep DEF TreeType

(* The lock keeps the others out (Session.cpp, flock).                      *)
LEMMA HolderStep ==
  ASSUME IInv, [Next]_vars
  PROVE  Holder'
<1>1. ASSUME NEW a \in Actors, TakeLock(a) \/ RecoverPins(a) \/ RecoverClear(a) \/
        SaveClocks(a) \/ PinOff(a) \/ Tune(a) \/ Retune(a) \/ StartDma(a) \/ StopDma(a) \/
        Close(a) \/ FreeBlock(a) \/ ClearRecord(a) \/ Unlock(a) \/ ToolReset(a) \/ SignalStop(a)
      PROVE Holder'
  BY <1>1, SessionAssumption DEF TakeLock, At, Goto, hardware, history, RecoverPins, Skipped,
     RecoverClear, SaveClocks, PinOff, Tune, Retune, StartDma, StopDma, Close, FreeBlock,
     ClearRecord, Unlock, Ends, ToolReset, SignalStop, Silence, Actors, Types, PcType, IInv,
     Holder
<1>2. ASSUME NEW a \in Actors, RecoverDma(a) PROVE Holder'
  BY <1>2, SessionAssumption, RecoverDmaDoes DEF IInv, Types, PcType, BookType, Holder, Actors
<1>3. ASSUME NEW a \in Actors, RecoverPlan(a) PROVE Holder'
  BY <1>3, SessionAssumption, RecoverPlanDoes DEF hardware, history, IInv, Types, PcType,
     BookType, Holder, Actors
<1>4. ASSUME NEW a \in Actors, RecoverMem(a) PROVE Holder'
  BY <1>4, SessionAssumption, RecoverMemDoes DEF IInv, Types, PcType, BookType, Holder, Actors
<1>5. ASSUME NEW a \in Actors, ClockWrite(a) PROVE Holder'
  BY <1>5, SessionAssumption, ClockWriteDoes DEF hardware, history, IInv, Types, PcType, BookType,
     Holder, Actors
<1>6. ASSUME NEW a \in Actors, Claim(a) PROVE Holder'
  BY <1>6, SessionAssumption, ClaimDoes DEF hardware, history, IInv, Types, PcType, BookType,
     Holder, Actors
<1>7. ASSUME NEW a \in Actors, Allocate(a) PROVE Holder'
  BY <1>7, SessionAssumption, AllocateDoes DEF hardware, history, IInv, Types, PcType, BookType,
     Holder, Actors
<1>8. ASSUME NEW a \in Actors, Publish(a) PROVE Holder'
  BY <1>8, SessionAssumption, PublishDoes DEF hardware, history, IInv, Types, PcType, BookType,
     Holder, Actors
<1>9. ASSUME NEW a \in Actors, MapBlock(a) PROVE Holder'
  BY <1>9, SessionAssumption, ForgotDoes DEF MapBlock, At, Goto, IInv, Types, PcType, BookType,
     Holder, Actors
<1>10. ASSUME NEW a \in Actors, DmaStop(a) PROVE Holder'
  BY <1>10, SessionAssumption, ForgotDoes DEF DmaStop, At, Goto, IInv, Types, PcType, BookType,
     Holder, Actors
<1>11. ASSUME NEW a \in Actors, Crash(a) PROVE Holder'
  BY <1>11, SessionAssumption, DiesDoes, BlankRecords DEF Crash, At, IInv, Types, PcType,
     BookType, Holder, Actors
<1>12. ASSUME NEW a \in Actors, CrashInWrite(a) PROVE Holder'
  <2>1. PICK text : Dies(a, text)
    BY <1>12 DEF CrashInWrite
  <2>2. QED
    BY <1>12, <2>1, SessionAssumption, CrashInWriteDoes, DiesDoes DEF IInv, Types, PcType,
       BookType, Holder, Actors
<1>13. ASSUME NEW a \in Actors, Exit(a) PROVE Holder'
  BY <1>13, SessionAssumption, DiesDoes, BlankRecords DEF Exit, Silence, At, IInv, Types, PcType,
     BookType, Holder, Actors
<1>14. ASSUME Environment \/ UNCHANGED vars PROVE Holder'
  BY <1>14, SessionAssumption, OutsideDoes DEF IInv, Holder
<1>15. QED
  BY <1>1, <1>2, <1>3, <1>4, <1>5, <1>6, <1>7, <1>8, <1>9, <1>10, <1>11, <1>12, <1>13, <1>14 DEF
     Next, Step, Death

(* What a session found stays true.                                         *)
LEMMA SessionsStep ==
  ASSUME IInv, [Next]_vars
  PROVE  Sessions'
<1>1. ASSUME NEW a \in Actors, TakeLock(a) PROVE Sessions'
  BY <1>1, SessionAssumption DEF TakeLock, At, Goto, hardware, history, Recovering, IInv, Types,
     PcType, HardwareType, BookType, Sessions, Actors
<1>2. ASSUME NEW a \in Actors, RecoverDma(a) PROVE Sessions'
  BY <1>2, SessionAssumption, RecoverDmaDoes DEF IInv, Types, PcType, HardwareType, BookType,
     Sessions, Actors, Recovering
<1>3. ASSUME NEW a \in Actors, RecoverPins(a) PROVE Sessions'
  BY <1>3, SessionAssumption DEF RecoverPins, At, Goto, hardware, history, Skipped, Recovering,
     Actors, Types, PcType, IInv, Sessions
<1>4. ASSUME NEW a \in Actors, RecoverPlan(a) PROVE Sessions'
  BY <1>4, SessionAssumption, RecoverPlanDoes DEF hardware, history, IInv, Types, PcType,
     HardwareType, BookType, Sessions, Actors, Recovering
<1>5. ASSUME NEW a \in Actors, RecoverMem(a) PROVE Sessions'
  BY <1>5, SessionAssumption, RecoverMemDoes DEF IInv, Types, PcType, HardwareType, BookType,
     Sessions, Actors, Recovering
<1>6. ASSUME NEW a \in Actors, RecoverClear(a) \/ MapBlock(a) PROVE Sessions'
  BY <1>6, SessionAssumption DEF RecoverClear, At, Goto, hardware, history, Recovering, MapBlock,
     Actors, Types, PcType, IInv, Sessions
<1>7. ASSUME NEW a \in Actors, ClockWrite(a) PROVE Sessions'
  BY <1>7, SessionAssumption, ClockWriteDoes DEF hardware, history, IInv, Types, PcType,
     HardwareType, BookType, Sessions, Actors, Recovering
<1>8. ASSUME NEW a \in Actors, Claim(a) PROVE Sessions'
  BY <1>8, SessionAssumption, ClaimDoes DEF hardware, history, IInv, Types, PcType, HardwareType,
     BookType, Sessions, Actors, Recovering
<1>9. ASSUME NEW a \in Actors, Allocate(a) PROVE Sessions'
  BY <1>9, SessionAssumption, AllocateDoes DEF hardware, history, IInv, Types, PcType,
     HardwareType, BookType, Sessions, Actors, Recovering
<1>10. ASSUME NEW a \in Actors, Publish(a) PROVE Sessions'
  BY <1>10, SessionAssumption, PublishDoes DEF hardware, history, IInv, Types, PcType,
     HardwareType, BookType, Sessions, Actors, Recovering
<1>11. ASSUME NEW a \in Actors, SaveClocks(a) \/ PinOff(a) \/ Tune(a) \/ Retune(a)
      PROVE Sessions'
  BY <1>11, SessionAssumption DEF SaveClocks, At, Goto, history, Recovering, PinOff, hardware,
     Tune, Retune, Actors, Types, PcType, IInv, Sessions
<1>12. ASSUME NEW a \in Actors, StartDma(a) \/ StopDma(a) \/ Close(a) \/ DmaStop(a) \/
        FreeBlock(a) \/ ClearRecord(a) \/ Unlock(a) \/ ToolReset(a) \/ SignalStop(a)
      PROVE Sessions'
  BY <1>12, SessionAssumption DEF StartDma, At, Goto, hardware, history, Recovering, StopDma,
     Close, DmaStop, FreeBlock, ClearRecord, Unlock, Ends, ToolReset, SignalStop, Silence, IInv,
     Types, PcType, HardwareType, BookType, Sessions, Actors
<1>13. ASSUME NEW a \in Actors, Crash(a) PROVE Sessions'
  BY <1>13, SessionAssumption, DiesDoes, BlankRecords DEF Crash, At, IInv, Types, PcType,
     HardwareType, BookType, Sessions, Actors, Recovering
<1>14. ASSUME NEW a \in Actors, CrashInWrite(a) PROVE Sessions'
  <2>1. PICK text : Dies(a, text)
    BY <1>14 DEF CrashInWrite
  <2>2. QED
    BY <1>14, <2>1, SessionAssumption, CrashInWriteDoes, DiesDoes DEF IInv, Types, PcType,
       HardwareType, BookType, Sessions, Actors, Recovering
<1>15. ASSUME NEW a \in Actors, Exit(a) PROVE Sessions'
  BY <1>15, SessionAssumption, DiesDoes, BlankRecords DEF Exit, Silence, At, IInv, Types, PcType,
     HardwareType, BookType, Sessions, Actors, Recovering
<1>16. ASSUME Environment \/ UNCHANGED vars PROVE Sessions'
  BY <1>16, SessionAssumption, OutsideDoes DEF IInv, Sessions
<1>17. QED
  BY <1>1, <1>2, <1>3, <1>4, <1>5, <1>6, <1>7, <1>8, <1>9, <1>10, <1>11, <1>12, <1>13, <1>14,
     <1>15, <1>16 DEF Next, Step, Death

(* Records in memory.                                                       *)
LEMMA RecStep ==
  ASSUME IInv, [Next]_vars
  PROVE  RecKept'
<1>1. ASSUME NEW a \in Actors, TakeLock(a) \/ RecoverPins(a) \/ RecoverClear(a) \/ PinOff(a) \/
        Tune(a) \/ Retune(a) \/ StartDma(a) \/ StopDma(a) \/ Close(a) \/ FreeBlock(a) \/
        ClearRecord(a) \/ Unlock(a) \/ ToolReset(a) \/ SignalStop(a)
      PROVE RecKept'
  BY <1>1, BlankRecords DEF TakeLock, At, Goto, hardware, history, RecoverPins, Skipped,
     RecoverClear, PinOff, Tune, Retune, StartDma, StopDma, Close, FreeBlock, ClearRecord, Unlock,
     Ends, ToolReset, SignalStop, Silence, IInv, Types, PcType, RecordType, RecKept, Recovering
<1>2. ASSUME NEW a \in Actors, RecoverDma(a) PROVE RecKept'
  BY <1>2, BlankRecords, RecoverDmaDoes DEF IInv, Types, PcType, RecordType, RecKept, Recovering
<1>3. ASSUME NEW a \in Actors, RecoverPlan(a) PROVE RecKept'
  BY <1>3, BlankRecords, RecoverPlanDoes DEF hardware, history, IInv, Types, PcType, RecordType,
     RecKept, Recovering
<1>4. ASSUME NEW a \in Actors, RecoverMem(a) PROVE RecKept'
  BY <1>4, BlankRecords, RecoverMemDoes DEF IInv, Types, PcType, RecordType, RecKept, Recovering
<1>5. ASSUME NEW a \in Actors, ClockWrite(a) PROVE RecKept'
  BY <1>5, BlankRecords, ClockWriteDoes DEF hardware, history, IInv, Types, PcType, RecordType,
     RecKept, Recovering
<1>6. ASSUME NEW a \in Actors, Claim(a) PROVE RecKept'
  BY <1>6, BlankRecords, ClaimDoes DEF hardware, history, IInv, Types, PcType, RecordType,
     RecKept, Recovering
<1>7. ASSUME NEW a \in Actors, Allocate(a) PROVE RecKept'
  BY <1>7, BlankRecords, AllocateDoes DEF hardware, history, IInv, Types, PcType, RecordType,
     RecKept, Recovering
<1>8. ASSUME NEW a \in Actors, Publish(a) PROVE RecKept'
  BY <1>8, BlankRecords, PublishDoes DEF hardware, history, IInv, Types, PcType, RecordType,
     RecKept, Recovering
<1>9. ASSUME NEW a \in Actors, MapBlock(a) PROVE RecKept'
  BY <1>9, BlankRecords, ForgotDoes DEF MapBlock, At, Goto, IInv, Types, PcType, RecordType,
     RecKept, Recovering
<1>10. ASSUME NEW a \in Actors, SaveClocks(a) PROVE RecKept'
  BY <1>10, BlankRecords, SaveClocksDoes DEF hardware, history, IInv, Types, PcType, RecordType,
     RecKept, Recovering
<1>11. ASSUME NEW a \in Actors, DmaStop(a) PROVE RecKept'
  BY <1>11, BlankRecords, ForgotDoes DEF DmaStop, At, Goto, IInv, Types, PcType, RecordType,
     RecKept, Recovering
<1>12. ASSUME NEW a \in Actors, Crash(a) PROVE RecKept'
  BY <1>12, BlankRecords, DiesDoes, BlankRecords DEF Crash, At, IInv, Types, PcType, RecordType,
     RecKept, Recovering
<1>13. ASSUME NEW a \in Actors, CrashInWrite(a) PROVE RecKept'
  BY <1>13, BlankRecords, CrashInWriteDoes, DiesDoes, TornLines, BlankRecords DEF IInv, Types,
     PcType, RecordType, RecKept, Recovering
<1>14. ASSUME NEW a \in Actors, Exit(a) PROVE RecKept'
  BY <1>14, BlankRecords, DiesDoes, BlankRecords DEF Exit, Silence, At, IInv, Types, PcType,
     RecordType, RecKept, Recovering
<1>15. ASSUME Environment \/ UNCHANGED vars PROVE RecKept'
  BY <1>15, BlankRecords, OutsideDoes DEF IInv, RecKept
<1>16. QED
  BY <1>1, <1>2, <1>3, <1>4, <1>5, <1>6, <1>7, <1>8, <1>9, <1>10, <1>11, <1>12, <1>13, <1>14,
     <1>15 DEF Next, Step, Death

(* Ownership of the blocks.                                                 *)
LEMMA MemStep ==
  ASSUME IInv, [Next]_vars
  PROVE  MemInv'
<1>1. ASSUME NEW a \in Actors, TakeLock(a) \/ RecoverPins(a) \/ RecoverClear(a) \/ PinOff(a) \/
        Tune(a) \/ Retune(a) \/ StartDma(a) \/ StopDma(a) \/ Close(a) \/ FreeBlock(a) \/
        ClearRecord(a) \/ Unlock(a) \/ ToolReset(a) \/ SignalStop(a)
      PROVE MemInv'
  BY <1>1, SessionAssumption DEF TakeLock, At, Goto, hardware, history, Naming, Published,
     Carrying, RecoverPins, Skipped, RecoverClear, PinOff, Tune, Retune, StartDma, StopDma, Close,
     FreeBlock, ClearRecord, Unlock, Ends, ToolReset, SignalStop, Silence, IInv, Types, PcType,
     HardwareType, RecordType, MemInv
<1>2. ASSUME NEW a \in Actors, RecoverDma(a) PROVE MemInv'
  BY <1>2, SessionAssumption, RecoverDmaDoes DEF IInv, Types, PcType, HardwareType, RecordType,
     MemInv, Naming, Published, Carrying
<1>3. ASSUME NEW a \in Actors, RecoverPlan(a) PROVE MemInv'
  BY <1>3, SessionAssumption, RecoverPlanDoes DEF hardware, history, IInv, Types, PcType,
     HardwareType, RecordType, MemInv, Naming, Published, Carrying
<1>4. ASSUME NEW a \in Actors, RecoverMem(a) PROVE MemInv'
  <2>1. \A b \in Actors : b # a => pc[b] = "idle"
    BY <1>4, RecoverMemDoes DEF IInv, Holder
  <2>2. \A b \in Actors, h \in Handles : mem[h] # b
    BY <1>4, RecoverMemDoes, <2>1 DEF IInv, MemInv, Naming, Published, Carrying
  <2>3. \A b \in Actors, h \in Handles : mem'[h] # b
    BY <1>4, RecoverMemDoes, <2>2, SessionAssumption DEF IInv, Types, HardwareType
  <2>4. \A b \in Actors : pc'[b] \in {"idle", "recClear"}
    BY <1>4, RecoverMemDoes, <2>1 DEF IInv, Types, PcType
  <2>5. QED
    BY <2>3, <2>4 DEF MemInv, Naming, Published, Carrying
<1>5. ASSUME NEW a \in Actors, ClockWrite(a) PROVE MemInv'
  BY <1>5, SessionAssumption, ClockWriteDoes DEF hardware, history, IInv, Types, PcType,
     HardwareType, RecordType, MemInv, Naming, Published, Carrying
<1>6. ASSUME NEW a \in Actors, Claim(a) PROVE MemInv'
  BY <1>6, SessionAssumption, ClaimDoes DEF hardware, history, IInv, Types, PcType, HardwareType,
     RecordType, MemInv, Naming, Published, Carrying
<1>7. ASSUME NEW a \in Actors, Allocate(a) PROVE MemInv'
  BY <1>7, SessionAssumption, AllocateDoes DEF hardware, history, IInv, Types, PcType,
     HardwareType, RecordType, MemInv, Naming, Published, Carrying
<1>8. ASSUME NEW a \in Actors, Publish(a) PROVE MemInv'
  BY <1>8, SessionAssumption, PublishDoes DEF hardware, history, IInv, Types, PcType,
     HardwareType, RecordType, MemInv, Naming, Published, Carrying
<1>9. ASSUME NEW a \in Actors, MapBlock(a) PROVE MemInv'
  BY <1>9, SessionAssumption, ForgotDoes DEF MapBlock, At, Goto, IInv, Types, PcType,
     HardwareType, RecordType, MemInv, Naming, Published, Carrying
<1>10. ASSUME NEW a \in Actors, SaveClocks(a) PROVE MemInv'
  BY <1>10, SessionAssumption, SaveClocksDoes DEF hardware, history, IInv, Types, PcType,
     HardwareType, RecordType, MemInv, Naming, Published, Carrying
<1>11. ASSUME NEW a \in Actors, DmaStop(a) PROVE MemInv'
  BY <1>11, SessionAssumption, ForgotDoes DEF DmaStop, At, Goto, IInv, Types, PcType,
     HardwareType, RecordType, MemInv, Naming, Published, Carrying
<1>12. ASSUME NEW a \in Actors, Crash(a) PROVE MemInv'
  BY <1>12, SessionAssumption, DiesDoes, BlankRecords DEF Crash, At, IInv, Types, PcType,
     HardwareType, RecordType, MemInv, Naming, Published, Carrying
<1>13. ASSUME NEW a \in Actors, CrashInWrite(a) PROVE MemInv'
  BY <1>13, SessionAssumption, CrashInWriteDoes, DiesDoes, TornLines, BlankRecords DEF IInv,
     Types, PcType, HardwareType, RecordType, MemInv, Naming, Published, Carrying
<1>14. ASSUME NEW a \in Actors, Exit(a) PROVE MemInv'
  BY <1>14, SessionAssumption, DiesDoes, BlankRecords DEF Exit, Silence, At, IInv, Types, PcType,
     HardwareType, RecordType, MemInv, Naming, Published, Carrying
<1>15. ASSUME Environment \/ UNCHANGED vars PROVE MemInv'
  BY <1>15, SessionAssumption, OutsideDoes DEF IInv, Types, PcType, HardwareType, RecordType,
     MemInv, Naming, Published, Carrying
<1>16. QED
  BY <1>1, <1>2, <1>3, <1>4, <1>5, <1>6, <1>7, <1>8, <1>9, <1>10, <1>11, <1>12, <1>13, <1>14,
     <1>15 DEF Next, Step, Death

(* The file follows the record (PublishRecord()).                           *)
LEMMA FileStep ==
  ASSUME IInv, [Next]_vars
  PROVE  FileInv'
<1>1. ASSUME NEW a \in Actors, TakeLock(a) PROVE FileInv'
  BY <1>1, SessionAssumption, TakeLockDoes DEF hardware, history, IInv, Types, PcType, BookType,
     RecordType, HardwareType, Holder, Sessions, MemInv, FileInv, FileAt, Recovering, Naming,
     Published, Carrying
<1>2. ASSUME NEW a \in Actors, RecoverDma(a) PROVE FileInv'
  BY <1>2, SessionAssumption, RecoverDmaDoes DEF IInv, Types, PcType, BookType, RecordType,
     HardwareType, Holder, Sessions, MemInv, FileInv, FileAt, Recovering, Naming, Published,
     Carrying
<1>3. ASSUME NEW a \in Actors, RecoverPins(a) \/ RecoverClear(a) \/ PinOff(a) \/ Tune(a) \/
        Retune(a) \/ StartDma(a) \/ StopDma(a) \/ Close(a) \/ FreeBlock(a) \/ ClearRecord(a) \/
        Unlock(a) \/ SignalStop(a)
      PROVE FileInv'
  BY <1>3, SessionAssumption DEF RecoverPins, At, Goto, hardware, history, Skipped, Sessions,
     MemInv, FileAt, Recovering, Naming, Published, Carrying, RecoverClear, PinOff, Tune, Retune,
     StartDma, StopDma, Close, FreeBlock, ClearRecord, Unlock, Ends, SignalStop, Silence, Actors,
     Types, PcType, Holder, IInv, FileInv
<1>4. ASSUME NEW a \in Actors, RecoverPlan(a) PROVE FileInv'
  BY <1>4, SessionAssumption, RecoverPlanDoes DEF hardware, history, IInv, Types, PcType,
     BookType, RecordType, HardwareType, Holder, Sessions, MemInv, FileInv, FileAt, Recovering,
     Naming, Published, Carrying
<1>5. ASSUME NEW a \in Actors, RecoverMem(a) PROVE FileInv'
  BY <1>5, SessionAssumption, RecoverMemDoes DEF IInv, Types, PcType, BookType, RecordType,
     HardwareType, Holder, Sessions, MemInv, FileInv, FileAt, Recovering, Naming, Published,
     Carrying
<1>6. ASSUME NEW a \in Actors, ClockWrite(a) PROVE FileInv'
  BY <1>6, SessionAssumption, ClockWriteDoes DEF hardware, history, IInv, Types, PcType, BookType,
     RecordType, HardwareType, Holder, Sessions, MemInv, FileInv, FileAt, Recovering, Naming,
     Published, Carrying
<1>7. ASSUME NEW a \in Actors, Claim(a) PROVE FileInv'
  <2>1. \A b \in Actors \ {a} : pc[b] = "idle" /\ pc'[b] = "idle"
    BY <1>7, ClaimDoes DEF IInv, Holder, Types, PcType
  <2>2. FileAt(a)'
    BY <1>7, ClaimDoes, BlankRecords DEF IInv, Types, PcType, FileInv, FileAt, Published,
       Carrying, Recovering, hardware, history, BookType
  <2>3. ASSUME NEW b \in Actors \ {a} PROVE FileAt(b)'
    BY <2>1, <2>3 DEF FileAt, Published, Carrying, Recovering
  <2>4. QED
    BY <2>2, <2>3 DEF FileInv
<1>8. ASSUME NEW a \in Actors, Allocate(a) PROVE FileInv'
  <2>1. \A b \in Actors \ {a} : pc[b] = "idle" /\ pc'[b] = "idle"
    BY <1>8, AllocateDoes DEF IInv, Holder, Types, PcType
  <2>2. FileAt(a)'
    BY <1>8, AllocateDoes, BlankRecords DEF IInv, Types, PcType, FileInv, FileAt, Published,
       Carrying, Recovering, hardware, history, BookType
  <2>3. ASSUME NEW b \in Actors \ {a} PROVE FileAt(b)'
    BY <2>1, <2>3 DEF FileAt, Published, Carrying, Recovering
  <2>4. QED
    BY <2>2, <2>3 DEF FileInv
<1>9. ASSUME NEW a \in Actors, Publish(a) PROVE FileInv'
  <2>1. \A b \in Actors \ {a} : pc[b] = "idle" /\ pc'[b] = "idle"
    BY <1>9, PublishDoes DEF IInv, Holder, Types, PcType
  <2>2. ASSUME ~tainted' PROVE file' = rec'[a] /\ (pc[a] = "pubFree" => file'.mem = "none")
    <3>1. ~tainted /\ file' = rec[a] /\ rec' = rec
      BY <1>9, <2>2, PublishDoes
    <3>2. ASSUME pc[a] = "pubFree" PROVE rec[a].mem = "none"
      <4>1. rec[a] = Forget(file) /\ file \in Records
        BY <3>1, <3>2 DEF IInv, Types, RecordType, FileInv, FileAt
      <4>2. QED
        BY <4>1, ForgetFields
    <3>3. QED
      BY <3>1, <3>2
  <2>5. FileAt(a)'
    BY <1>9, <2>2, PublishDoes DEF IInv, Types, PcType, FileAt, Published, Carrying, Recovering
  <2>3. ASSUME NEW b \in Actors \ {a} PROVE FileAt(b)'
    BY <2>1, <2>3 DEF FileAt, Published, Carrying, Recovering
  <2>4. QED
    BY <2>3, <2>5 DEF FileInv
<1>10. ASSUME NEW a \in Actors, MapBlock(a) PROVE FileInv'
  <2>1. \A b \in Actors \ {a} : pc[b] = "idle" /\ pc'[b] = "idle"
    BY <1>10, MapBlockDoes DEF IInv, Holder, Types, PcType
  <2>2. ASSUME pc'[a] # "save", ~tainted'
        PROVE  /\ rec'[a] = Forget(file') /\ file'.end /\ file'.loc # "none" /\ pc'[a] = "pubFree"
               /\ \A h \in Handles : mem'[h] = a <=> h = file'.mem
    <3>1. file = rec[a] /\ rec[a].end /\ pc[a] \in Naming \ {"pubAlloc"}
      BY <1>10, <2>2, MapBlockDoes DEF IInv, FileInv, FileAt, RecKept, Naming, Published,
         Carrying, history
    <3>2. rec'[a] = Forget(rec[a]) /\ file' = file /\ mem' = mem /\ pc'[a] = "pubFree"
      BY <1>10, <2>2, MapBlockDoes DEF IInv, Types, PcType, RecordType
    <3>3. (\A h \in Handles : mem[h] = a <=> h = file.mem) /\ file.loc # "none"
      BY <3>1, SessionAssumption DEF IInv, MemInv, Naming, Published, Carrying
    <3>4. QED
      BY <3>1, <3>2, <3>3
  <2>5. FileAt(a)'
    BY <1>10, <2>2, MapBlockDoes DEF IInv, Types, PcType, RecordType, FileInv, FileAt, Published,
       Carrying, Recovering, history
  <2>3. ASSUME NEW b \in Actors \ {a} PROVE FileAt(b)'
    BY <2>1, <2>3 DEF FileAt, Published, Carrying, Recovering
  <2>4. QED
    BY <2>3, <2>5 DEF FileInv
<1>11. ASSUME NEW a \in Actors, SaveClocks(a) PROVE FileInv'
  <2>1. \A b \in Actors \ {a} : pc[b] = "idle" /\ pc'[b] = "idle"
    BY <1>11, SaveClocksDoes DEF IInv, Holder, Types, PcType
  <2>2. ASSUME ~tainted, pc'[a] = "pubClocks" PROVE file' = [rec'[a] EXCEPT !.tree = NoTree]
    <3>1. PICK r \in Records : rec' = [rec EXCEPT ![a] = r] /\ (rec[a].tree = NoTree => rec[a] = [r EXCEPT !.tree = NoTree])
      BY <1>11, <2>2, SaveClocksDoes DEF IInv, Types, PcType
    <3>2. rec[a].tree = NoTree /\ file = rec[a] /\ file' = file
      BY <1>11, <2>2, SaveClocksDoes DEF IInv, SavedInv, FileInv, FileAt
    <3>3. rec'[a] = r
      BY <3>1 DEF IInv, Types, RecordType
    <3>4. file' = [r EXCEPT !.tree = NoTree]
      BY <3>1, <3>2
    <3>5. QED
      BY <3>3, <3>4
  <2>4. pc'[a] = "pubClocks" \/ (pc'[a] = "dmaStop" /\ rec' = rec)
    BY <1>11, SaveClocksDoes DEF IInv, Types, PcType
  <2>5. FileAt(a)'
    BY <1>11, <2>2, <2>4, SaveClocksDoes DEF IInv, FileInv, FileAt, Published, Carrying,
       Recovering, history
  <2>3. ASSUME NEW b \in Actors \ {a} PROVE FileAt(b)'
    BY <2>1, <2>3 DEF FileAt, Published, Carrying, Recovering
  <2>6. QED
    BY <2>3, <2>5 DEF FileInv
<1>12. ASSUME NEW a \in Actors, DmaStop(a) PROVE FileInv'
  <2>1. \A b \in Actors \ {a} : pc[b] = "idle" /\ pc'[b] = "idle"
    BY <1>12, DmaStopDoes DEF IInv, Holder, Types, PcType
  <2>2. ASSUME ~tainted'
        PROVE  /\ rec'[a] = Forget(file') /\ file'.end /\ file'.loc # "none" /\ pc'[a] = "pubFree"
               /\ \A h \in Handles : mem'[h] = a <=> h = file'.mem
    <3>1. file = rec[a] /\ rec[a].end /\ pc[a] \in Naming \ {"pubAlloc"}
      BY <1>12, <2>2, DmaStopDoes DEF IInv, FileInv, FileAt, RecKept, Naming, Published, Carrying,
         history
    <3>2. rec'[a] = Forget(rec[a]) /\ file' = file /\ mem' = mem /\ pc'[a] = "pubFree"
      BY <1>12, <2>2, DmaStopDoes DEF IInv, Types, PcType, RecordType
    <3>3. (\A h \in Handles : mem[h] = a <=> h = file.mem) /\ file.loc # "none"
      BY <3>1, SessionAssumption DEF IInv, MemInv, Naming, Published, Carrying
    <3>4. QED
      BY <3>1, <3>2, <3>3
  <2>5. FileAt(a)'
    BY <1>12, <2>2, DmaStopDoes DEF IInv, Types, PcType, RecordType, FileInv, FileAt, Published,
       Carrying, Recovering, history
  <2>3. ASSUME NEW b \in Actors \ {a} PROVE FileAt(b)'
    BY <2>1, <2>3 DEF FileAt, Published, Carrying, Recovering
  <2>4. QED
    BY <2>3, <2>5 DEF FileInv
<1>13. ASSUME NEW a \in Actors, ToolReset(a) PROVE FileInv'
  <2>1. \A b \in Actors \ {a} : pc[b] = "idle" /\ pc'[b] = "idle"
    BY <1>13 DEF ToolReset, At, Goto, hardware, history, IInv, Holder, Types, PcType
  <2>2. FileAt(a)'
    BY <1>13, BlankRecords DEF ToolReset, At, Goto, hardware, history, IInv, Types, PcType,
       FileInv, FileAt, Published, Carrying, Recovering
  <2>3. ASSUME NEW b \in Actors \ {a} PROVE FileAt(b)'
    BY <2>1, <2>3 DEF FileAt, Published, Carrying, Recovering
  <2>4. QED
    BY <2>2, <2>3 DEF FileInv
<1>14. ASSUME NEW a \in Actors, Crash(a) PROVE FileInv'
  BY <1>14, SessionAssumption, CrashDoes DEF IInv, Types, PcType, BookType, RecordType,
     HardwareType, Holder, Sessions, MemInv, FileInv, FileAt, Recovering, Naming, Published,
     Carrying
<1>15. ASSUME NEW a \in Actors, CrashInWrite(a) PROVE FileInv'
  BY <1>15, SessionAssumption, CrashInWriteDoes DEF IInv, Types, PcType, BookType, RecordType,
     HardwareType, Holder, Sessions, MemInv, FileInv, FileAt, Recovering, Naming, Published,
     Carrying
<1>16. ASSUME NEW a \in Actors, Exit(a) PROVE FileInv'
  BY <1>16, SessionAssumption, ExitDoes DEF IInv, Types, PcType, BookType, RecordType,
     HardwareType, Holder, Sessions, MemInv, FileInv, FileAt, Recovering, Naming, Published,
     Carrying
<1>17. ASSUME Environment \/ UNCHANGED vars PROVE FileInv'
  BY <1>17, SessionAssumption, OutsideDoes DEF IInv, Types, PcType, BookType, RecordType,
     HardwareType, Holder, Sessions, MemInv, FileInv, FileAt, Recovering, Naming, Published,
     Carrying
<1>18. QED
  BY <1>1, <1>2, <1>3, <1>4, <1>5, <1>6, <1>7, <1>8, <1>9, <1>10, <1>11, <1>12, <1>13, <1>14,
     <1>15, <1>16, <1>17 DEF Next, Step, Death

(* A dead process leaves a record that names its block.                     *)
LEMMA NamedStep ==
  ASSUME IInv, [Next]_vars
  PROVE  NamedInv'
<1>1. ASSUME NEW a \in Actors, TakeLock(a) PROVE NamedInv'
  BY <1>1, SessionAssumption, TakeLockDoes DEF hardware, history, IInv, Types, PcType, BookType,
     RecordType, HardwareType, Holder, RecKept, MemInv, FileInv, FileAt, NamedInv, Recovering,
     Naming, Published, Carrying
<1>2. ASSUME NEW a \in Actors, RecoverDma(a) PROVE NamedInv'
  BY <1>2, SessionAssumption, RecoverDmaDoes DEF IInv, Types, PcType, BookType, RecordType,
     HardwareType, Holder, RecKept, MemInv, FileInv, FileAt, NamedInv, Recovering, Naming,
     Published, Carrying
<1>3. ASSUME NEW a \in Actors, RecoverPins(a) \/ RecoverClear(a) \/ PinOff(a) \/ Tune(a) \/
        Retune(a) \/ StartDma(a) \/ StopDma(a) \/ Close(a) \/ FreeBlock(a) \/ ClearRecord(a) \/
        ToolReset(a) \/ SignalStop(a)
      PROVE NamedInv'
  BY <1>3, SessionAssumption DEF RecoverPins, At, Goto, hardware, history, Skipped, RecKept,
     MemInv, FileInv, FileAt, Recovering, Naming, Published, Carrying, RecoverClear, PinOff, Tune,
     Retune, StartDma, StopDma, Close, FreeBlock, ClearRecord, ToolReset, SignalStop, Silence,
     Actors, Types, PcType, IInv, NamedInv
<1>4. ASSUME NEW a \in Actors, RecoverPlan(a) PROVE NamedInv'
  BY <1>4, SessionAssumption, RecoverPlanDoes DEF hardware, history, IInv, Types, PcType,
     BookType, RecordType, HardwareType, Holder, RecKept, MemInv, FileInv, FileAt, NamedInv,
     Recovering, Naming, Published, Carrying
<1>5. ASSUME NEW a \in Actors, RecoverMem(a) PROVE NamedInv'
  BY <1>5, SessionAssumption, RecoverMemDoes DEF IInv, Types, PcType, BookType, RecordType,
     HardwareType, Holder, RecKept, MemInv, FileInv, FileAt, NamedInv, Recovering, Naming,
     Published, Carrying
<1>6. ASSUME NEW a \in Actors, ClockWrite(a) PROVE NamedInv'
  BY <1>6, SessionAssumption, ClockWriteDoes DEF hardware, history, IInv, Types, PcType, BookType,
     RecordType, HardwareType, Holder, RecKept, MemInv, FileInv, FileAt, NamedInv, Recovering,
     Naming, Published, Carrying
<1>7. ASSUME NEW a \in Actors, Claim(a) PROVE NamedInv'
  BY <1>7, SessionAssumption, ClaimDoes DEF hardware, history, IInv, Types, PcType, BookType,
     RecordType, HardwareType, Holder, RecKept, MemInv, FileInv, FileAt, NamedInv, Recovering,
     Naming, Published, Carrying
<1>8. ASSUME NEW a \in Actors, Allocate(a) PROVE NamedInv'
  BY <1>8, SessionAssumption, AllocateDoes DEF hardware, history, IInv, Types, PcType, BookType,
     RecordType, HardwareType, Holder, RecKept, MemInv, FileInv, FileAt, NamedInv, Recovering,
     Naming, Published, Carrying
<1>9. ASSUME NEW a \in Actors, Publish(a) PROVE NamedInv'
  BY <1>9, SessionAssumption, PublishDoes DEF hardware, history, IInv, Types, PcType, BookType,
     RecordType, HardwareType, Holder, RecKept, MemInv, FileInv, FileAt, NamedInv, Recovering,
     Naming, Published, Carrying
<1>10. ASSUME NEW a \in Actors, MapBlock(a) PROVE NamedInv'
  BY <1>10, SessionAssumption, MapBlockDoes DEF hardware, history, IInv, Types, PcType, BookType,
     RecordType, HardwareType, Holder, RecKept, MemInv, FileInv, FileAt, NamedInv, Recovering,
     Naming, Published, Carrying
<1>11. ASSUME NEW a \in Actors, SaveClocks(a) PROVE NamedInv'
  BY <1>11, SessionAssumption, SaveClocksDoes DEF hardware, history, IInv, Types, PcType,
     BookType, RecordType, HardwareType, Holder, RecKept, MemInv, FileInv, FileAt, NamedInv,
     Recovering, Naming, Published, Carrying
<1>12. ASSUME NEW a \in Actors, DmaStop(a) PROVE NamedInv'
  BY <1>12, SessionAssumption, DmaStopDoes DEF hardware, history, IInv, Types, PcType, BookType,
     RecordType, HardwareType, Holder, RecKept, MemInv, FileInv, FileAt, NamedInv, Recovering,
     Naming, Published, Carrying
<1>13. ASSUME NEW a \in Actors, Unlock(a) PROVE NamedInv'
  BY <1>13, SessionAssumption, BlankRecords DEF Unlock, At, Goto, hardware, history, Ends, IInv,
     Types, PcType, BookType, RecordType, HardwareType, Holder, RecKept, MemInv, FileInv, FileAt,
     NamedInv, Recovering, Naming, Published, Carrying
<1>14. ASSUME NEW a \in Actors, Crash(a) PROVE NamedInv'
  <2> SUFFICES ASSUME ~tainted', ~CrashAfterFree, file'.end, file'.mem # "none"
               PROVE  mem'[file'.mem] = "orphan"
    BY DEF NamedInv
  <2>1. file' = file /\ ~tainted /\ file.mem \in Handles /\ mem'[file.mem] = IF mem[file.mem] = a THEN "orphan" ELSE mem[file.mem]
    BY <1>14, CrashDoes DEF IInv, Types, RecordType, Records
  <2>2. CASE pc[a] \in Recovering
    <3>1. \A b \in Actors : pc[b] \in {"idle"} \cup Recovering
      BY <1>14, <2>2, CrashDoes
    <3>2. mem[file.mem] = "orphan"
      BY <2>1, <3>1 DEF IInv, NamedInv
    <3>3. QED
      BY <2>1, <3>2
  <2>3. CASE pc[a] \in {"map", "save", "pubClocks", "pubFree"} \cup Published
    BY <2>1, <2>3, FileNames
  <2>4. CASE pc[a] \notin Recovering \cup {"map", "save", "pubClocks", "pubFree"} \cup Published
    BY <1>14, <2>1, <2>4, CrashDoes, FileNamesNone
  <2>5. QED
    BY <2>2, <2>3, <2>4
<1>15. ASSUME NEW a \in Actors, CrashInWrite(a) PROVE NamedInv'
  <2> SUFFICES ASSUME ~tainted', ~CrashAfterFree, file'.end, file'.mem # "none"
               PROVE  mem'[file'.mem] = "orphan"
    BY DEF NamedInv
  <2>1. ~tainted /\ file.end /\ pc[a] # "pubAlloc"
    BY <1>15, CrashInWriteDoes, BlankRecords DEF IInv, FileInv, FileAt
  <2>2. \A h \in Handles : mem[h] = a <=> h = file.mem
    BY <1>15, <2>1, CrashInWriteDoes, FileNames
  <2>3. CASE pc[a] = "pubClocks"
    <3>1. rec[a].mem \in Handles /\ mem[rec[a].mem] = a
      BY <2>3 DEF IInv, MemInv, Naming
    <3>2. rec[a].mem = file.mem
      BY <2>2, <3>1
    <3>3. file'.mem = file.mem /\ file.mem \in Handles /\ mem[file.mem] = a
      BY <1>15, <3>1, <3>2, CrashInWriteDoes
    <3>4. \A h \in Handles : mem'[h] = IF mem[h] = a THEN "orphan" ELSE mem[h]
      BY <1>15, CrashInWriteDoes
    <3>5. QED
      BY <3>3, <3>4 DEF NamedInv
  <2>4. CASE pc[a] = "pubFree"
    <3>1. rec[a].mem = "none" /\ file \in Records
      BY <2>1, <2>4, ForgetFields DEF IInv, Types, RecordType, FileInv, FileAt
    <3>2. file'.mem = file.mem /\ file.mem \in Handles
      BY <1>15, <3>1, CrashInWriteDoes DEF Records
    <3>3. mem[file.mem] = a
      BY <2>2, <3>2
    <3>4. \A h \in Handles : mem'[h] = IF mem[h] = a THEN "orphan" ELSE mem[h]
      BY <1>15, CrashInWriteDoes
    <3>5. QED
      BY <3>2, <3>3, <3>4 DEF NamedInv
  <2>5. QED
    BY <1>15, <2>1, <2>3, <2>4, CrashInWriteDoes
<1>16. ASSUME NEW a \in Actors, Exit(a) PROVE NamedInv'
  BY <1>16, SessionAssumption, ExitDoes DEF IInv, Types, PcType, BookType, RecordType,
     HardwareType, Holder, RecKept, MemInv, FileInv, FileAt, NamedInv, Recovering, Naming,
     Published, Carrying
<1>17. ASSUME EngineWrites PROVE NamedInv'
  BY <1>17, SessionAssumption DEF EngineWrites, hardware, history, IInv, Types, PcType, BookType,
     RecordType, HardwareType, Holder, RecKept, MemInv, FileInv, FileAt, NamedInv, Recovering,
     Naming, Published, Carrying
<1>18. ASSUME OtherDma PROVE NamedInv'
  BY <1>18, SessionAssumption DEF OtherDma, hardware, history, IInv, Types, PcType, BookType,
     RecordType, HardwareType, Holder, RecKept, MemInv, FileInv, FileAt, NamedInv, Recovering,
     Naming, Published, Carrying
<1>19. ASSUME ForkChild PROVE NamedInv'
  BY <1>19, SessionAssumption DEF ForkChild, hardware, history, IInv, Types, PcType, BookType,
     RecordType, HardwareType, Holder, RecKept, MemInv, FileInv, FileAt, NamedInv, Recovering,
     Naming, Published, Carrying
<1>20. ASSUME ChildExits PROVE NamedInv'
  BY <1>20, SessionAssumption DEF ChildExits, hardware, history, IInv, Types, PcType, BookType,
     RecordType, HardwareType, Holder, RecKept, MemInv, FileInv, FileAt, NamedInv, Recovering,
     Naming, Published, Carrying
<1>21. ASSUME MaskChanges PROVE NamedInv'
  BY <1>21, SessionAssumption DEF MaskChanges, hardware, history, IInv, Types, PcType, BookType,
     RecordType, HardwareType, Holder, RecKept, MemInv, FileInv, FileAt, NamedInv, Recovering,
     Naming, Published, Carrying
<1>22. ASSUME NEW h \in Handles, OtherAllocates(h) PROVE NamedInv'
  BY <1>22, SessionAssumption DEF OtherAllocates, hardware, history, IInv, Types, PcType,
     BookType, RecordType, HardwareType, Holder, RecKept, MemInv, FileInv, FileAt, NamedInv,
     Recovering, Naming, Published, Carrying
<1>23. ASSUME UNCHANGED vars PROVE NamedInv'
  BY <1>23, SessionAssumption DEF vars, hardware, history, IInv, Types, PcType, BookType,
     RecordType, HardwareType, Holder, RecKept, MemInv, FileInv, FileAt, NamedInv, Recovering,
     Naming, Published, Carrying
<1>24. QED
  BY <1>1, <1>2, <1>3, <1>4, <1>5, <1>6, <1>7, <1>8, <1>9, <1>10, <1>11, <1>12, <1>13, <1>14,
     <1>15, <1>16, <1>17, <1>18, <1>19, <1>20, <1>21, <1>22, <1>23 DEF Next, Step, Death,
     Environment, vars

(* The channel is stopped before its block goes.                            *)
LEMMA DmaStep ==
  ASSUME IInv, [Next]_vars
  PROVE  DmaInv'
<1>1. ASSUME NEW a \in Actors, TakeLock(a) PROVE DmaInv'
  BY <1>1, SessionAssumption, TakeLockDoes, BlankRecords DEF hardware, history, IInv, Types,
     PcType, BookType, RecordType, HardwareType, Holder, MemInv, FileInv, FileAt, DmaInv, RecKept,
     Recovering, Naming, Published, Carrying
<1>2. ASSUME NEW a \in Actors, RecoverDma(a) PROVE DmaInv'
  BY <1>2, SessionAssumption, RecoverDmaDoes DEF IInv, Types, PcType, BookType, RecordType,
     HardwareType, Holder, MemInv, FileInv, FileAt, DmaInv, RecKept, Recovering, Naming,
     Published, Carrying
<1>3. ASSUME NEW a \in Actors, RecoverPins(a) \/ RecoverClear(a) \/ PinOff(a) \/ Tune(a) \/
        Retune(a) \/ StartDma(a) \/ StopDma(a) \/ Close(a) \/ FreeBlock(a) \/ ClearRecord(a) \/
        Unlock(a) \/ ToolReset(a) \/ SignalStop(a)
      PROVE DmaInv'
  BY <1>3, SessionAssumption DEF RecoverPins, At, Goto, hardware, history, Skipped, MemInv,
     FileInv, FileAt, RecKept, Recovering, Naming, Published, Carrying, RecoverClear, PinOff,
     Tune, Retune, StartDma, StopDma, Close, FreeBlock, ClearRecord, Unlock, Ends, ToolReset,
     SignalStop, Silence, Actors, Types, PcType, Holder, IInv, DmaInv
<1>4. ASSUME NEW a \in Actors, RecoverPlan(a) PROVE DmaInv'
  BY <1>4, SessionAssumption, RecoverPlanDoes DEF hardware, history, IInv, Types, PcType,
     BookType, RecordType, HardwareType, Holder, MemInv, FileInv, FileAt, DmaInv, RecKept,
     Recovering, Naming, Published, Carrying
<1>5. ASSUME NEW a \in Actors, RecoverMem(a) PROVE DmaInv'
  BY <1>5, SessionAssumption, RecoverMemDoes DEF IInv, Types, PcType, BookType, RecordType,
     HardwareType, Holder, MemInv, FileInv, FileAt, DmaInv, RecKept, Recovering, Naming,
     Published, Carrying
<1>6. ASSUME NEW a \in Actors, ClockWrite(a) PROVE DmaInv'
  BY <1>6, SessionAssumption, ClockWriteDoes DEF hardware, history, IInv, Types, PcType, BookType,
     RecordType, HardwareType, Holder, MemInv, FileInv, FileAt, DmaInv, RecKept, Recovering,
     Naming, Published, Carrying
<1>7. ASSUME NEW a \in Actors, Claim(a) PROVE DmaInv'
  BY <1>7, SessionAssumption, ClaimDoes DEF hardware, history, IInv, Types, PcType, BookType,
     RecordType, HardwareType, Holder, MemInv, FileInv, FileAt, DmaInv, RecKept, Recovering,
     Naming, Published, Carrying
<1>8. ASSUME NEW a \in Actors, Allocate(a) PROVE DmaInv'
  BY <1>8, SessionAssumption, AllocateDoes DEF hardware, history, IInv, Types, PcType, BookType,
     RecordType, HardwareType, Holder, MemInv, FileInv, FileAt, DmaInv, RecKept, Recovering,
     Naming, Published, Carrying
<1>9. ASSUME NEW a \in Actors, Publish(a) PROVE DmaInv'
  BY <1>9, SessionAssumption, PublishDoes DEF hardware, history, IInv, Types, PcType, BookType,
     RecordType, HardwareType, Holder, MemInv, FileInv, FileAt, DmaInv, RecKept, Recovering,
     Naming, Published, Carrying
<1>10. ASSUME NEW a \in Actors, MapBlock(a) PROVE DmaInv'
  BY <1>10, SessionAssumption, MapBlockDoes DEF hardware, history, IInv, Types, PcType, BookType,
     RecordType, HardwareType, Holder, MemInv, FileInv, FileAt, DmaInv, RecKept, Recovering,
     Naming, Published, Carrying
<1>11. ASSUME NEW a \in Actors, SaveClocks(a) PROVE DmaInv'
  BY <1>11, SessionAssumption, SaveClocksDoes DEF hardware, history, IInv, Types, PcType,
     BookType, RecordType, HardwareType, Holder, MemInv, FileInv, FileAt, DmaInv, RecKept,
     Recovering, Naming, Published, Carrying
<1>12. ASSUME NEW a \in Actors, DmaStop(a) PROVE DmaInv'
  BY <1>12, SessionAssumption, DmaStopDoes DEF hardware, history, IInv, Types, PcType, BookType,
     RecordType, HardwareType, Holder, MemInv, FileInv, FileAt, DmaInv, RecKept, Recovering,
     Naming, Published, Carrying
<1>13. ASSUME NEW a \in Actors, Crash(a) PROVE DmaInv'
  <2> SUFFICES ASSUME ~tainted', dma' \in Handles
               PROVE  mem'[dma] = "orphan" /\ file.chan /\ file.loc = dma /\ file.tree = found
    BY <1>13, CrashDoes DEF DmaInv
  <2>1. ~tainted /\ dma \in Handles /\ \A h \in Handles : mem'[h] = IF mem[h] = a THEN "orphan" ELSE mem[h]
    BY <1>13, CrashDoes
  <2>2. CASE pc[a] \in {"running", "retuneTx"} /\ dma = rec[a].mem
    <3>1. file = rec[a] /\ file.tree = found /\ file.chan
      BY <2>1, <2>2, FileHasTree DEF Carrying
    <3>2. mem[dma] = a /\ rec[a].loc = dma
      BY <2>2 DEF IInv, MemInv, Naming, Published, Carrying
    <3>3. QED
      BY <2>1, <3>1, <3>2
  <2>3. CASE mem[dma] = "orphan" /\ file.chan /\ file.loc = dma /\ file.tree = found
    BY <2>1, <2>3
  <2>4. \A b \in Actors \ {a} : pc[b] = "idle"
    BY <1>13, CrashDoes
  <2>5. QED
    BY <2>1, <2>2, <2>3, <2>4 DEF IInv, DmaInv
<1>14. ASSUME NEW a \in Actors, CrashInWrite(a) PROVE DmaInv'
  BY <1>14, SessionAssumption, CrashInWriteDoes DEF IInv, Types, PcType, BookType, RecordType,
     HardwareType, Holder, MemInv, FileInv, FileAt, DmaInv, RecKept, Recovering, Naming,
     Published, Carrying
<1>15. ASSUME NEW a \in Actors, Exit(a) PROVE DmaInv'
  BY <1>15, SessionAssumption, ExitDoes DEF IInv, Types, PcType, BookType, RecordType,
     HardwareType, Holder, MemInv, FileInv, FileAt, DmaInv, RecKept, Recovering, Naming,
     Published, Carrying
<1>16. ASSUME Environment \/ UNCHANGED vars PROVE DmaInv'
  BY <1>16, SessionAssumption, OutsideDoes DEF IInv, Types, PcType, BookType, RecordType,
     HardwareType, Holder, MemInv, FileInv, FileAt, DmaInv, RecKept, Recovering, Naming,
     Published, Carrying
<1>17. QED
  BY <1>1, <1>2, <1>3, <1>4, <1>5, <1>6, <1>7, <1>8, <1>9, <1>10, <1>11, <1>12, <1>13, <1>14,
     <1>15, <1>16 DEF Next, Step, Death

(* An orphan stays on record until it is freed, or is lost where the        *)
(* documentation says.                                                      *)
LEMMA OrphanStep ==
  ASSUME IInv, [Next]_vars
  PROVE  OrphanInv'
<1>1. ASSUME NEW a \in Actors, TakeLock(a) PROVE OrphanInv'
  BY <1>1, TakeLockDoes, BlankRecords DEF hardware, IInv, Types, PcType, OrphanInv
<1>2. ASSUME NEW a \in Actors, RecoverDma(a) PROVE OrphanInv'
  BY <1>2, SessionAssumption, RecoverDmaDoes DEF IInv, Types, PcType, BookType, RecordType,
     HardwareType, Holder, Sessions, MemInv, FileInv, FileAt, OrphanInv, RecKept, Unnamed, Naming,
     Published, Carrying
<1>3. ASSUME NEW a \in Actors, RecoverPins(a) \/ RecoverClear(a) \/ PinOff(a) \/ Tune(a) \/
        Retune(a) \/ StartDma(a) \/ StopDma(a) \/ Close(a) \/ FreeBlock(a) \/ ClearRecord(a) \/
        Unlock(a) \/ ToolReset(a) \/ SignalStop(a)
      PROVE OrphanInv'
  BY <1>3, SessionAssumption DEF RecoverPins, At, Goto, hardware, history, Skipped, Sessions,
     MemInv, FileInv, FileAt, RecKept, Unnamed, Naming, Published, Carrying, RecoverClear, PinOff,
     Tune, Retune, StartDma, StopDma, Close, FreeBlock, ClearRecord, Unlock, Ends, ToolReset,
     SignalStop, Silence, Actors, Types, PcType, IInv, OrphanInv
<1>4. ASSUME NEW a \in Actors, RecoverPlan(a) PROVE OrphanInv'
  BY <1>4, SessionAssumption, RecoverPlanDoes DEF hardware, history, IInv, Types, PcType,
     BookType, RecordType, HardwareType, Holder, Sessions, MemInv, FileInv, FileAt, OrphanInv,
     RecKept, Unnamed, Naming, Published, Carrying
<1>5. ASSUME NEW a \in Actors, RecoverMem(a) PROVE OrphanInv'
  BY <1>5, SessionAssumption, RecoverMemDoes DEF IInv, Types, PcType, BookType, RecordType,
     HardwareType, Holder, Sessions, MemInv, FileInv, FileAt, OrphanInv, RecKept, Unnamed, Naming,
     Published, Carrying
<1>6. ASSUME NEW a \in Actors, ClockWrite(a) PROVE OrphanInv'
  BY <1>6, SessionAssumption, ClockWriteDoes DEF hardware, history, IInv, Types, PcType, BookType,
     RecordType, HardwareType, Holder, Sessions, MemInv, FileInv, FileAt, OrphanInv, RecKept,
     Unnamed, Naming, Published, Carrying
<1>7. ASSUME NEW a \in Actors, Claim(a) PROVE OrphanInv'
  BY <1>7, SessionAssumption, ClaimDoes DEF hardware, history, IInv, Types, PcType, BookType,
     RecordType, HardwareType, Holder, Sessions, MemInv, FileInv, FileAt, OrphanInv, RecKept,
     Unnamed, Naming, Published, Carrying
<1>8. ASSUME NEW a \in Actors, Allocate(a) PROVE OrphanInv'
  BY <1>8, SessionAssumption, AllocateDoes DEF hardware, history, IInv, Types, PcType, BookType,
     RecordType, HardwareType, Holder, Sessions, MemInv, FileInv, FileAt, OrphanInv, RecKept,
     Unnamed, Naming, Published, Carrying
<1>9. ASSUME NEW a \in Actors, Publish(a) PROVE OrphanInv'
  <2>1. ASSUME ~tainted PROVE \A h \in Handles : mem[h] = "orphan" => h \in lost
    BY <1>9, <2>1, PublishDoes, LostHere DEF Recovering
  <2>2. QED
    BY <1>9, <2>1, PublishDoes DEF OrphanInv, hardware
<1>10. ASSUME NEW a \in Actors, MapBlock(a) PROVE OrphanInv'
  BY <1>10, SessionAssumption, MapBlockDoes DEF hardware, history, IInv, Types, PcType, BookType,
     RecordType, HardwareType, Holder, Sessions, MemInv, FileInv, FileAt, OrphanInv, RecKept,
     Unnamed, Naming, Published, Carrying
<1>11. ASSUME NEW a \in Actors, SaveClocks(a) PROVE OrphanInv'
  BY <1>11, SessionAssumption, SaveClocksDoes DEF hardware, history, IInv, Types, PcType,
     BookType, RecordType, HardwareType, Holder, Sessions, MemInv, FileInv, FileAt, OrphanInv,
     RecKept, Unnamed, Naming, Published, Carrying
<1>12. ASSUME NEW a \in Actors, DmaStop(a) PROVE OrphanInv'
  BY <1>12, SessionAssumption, DmaStopDoes DEF hardware, history, IInv, Types, PcType, BookType,
     RecordType, HardwareType, Holder, Sessions, MemInv, FileInv, FileAt, OrphanInv, RecKept,
     Unnamed, Naming, Published, Carrying
<1>13. ASSUME NEW a \in Actors, Crash(a) PROVE OrphanInv'
  <2> SUFFICES ASSUME ~tainted', NEW h \in Handles, mem'[h] = "orphan", h \notin lost'
               PROVE  file'.end /\ file'.mem = h
    BY <1>13, CrashDoes DEF OrphanInv
  <2>1. file' = file /\ ~tainted /\ h \notin lost /\ (mem[h] = "orphan" \/ (mem[h] = a /\ pc[a] \notin Unnamed))
    BY <1>13, CrashDoes DEF Gap
  <2>2. CASE mem[h] = "orphan"
    BY <2>1, <2>2 DEF IInv, OrphanInv
  <2>3. CASE mem[h] = a /\ pc[a] \notin Unnamed
    <3>1. pc[a] \in {"map", "save", "pubClocks", "pubFree"} \cup Published
      BY <2>3 DEF IInv, MemInv, Naming, Unnamed
    <3>2. QED
      BY <2>1, <2>3, <3>1, FileNames
  <2>4. QED
    BY <2>1, <2>2, <2>3
<1>14. ASSUME NEW a \in Actors, CrashInWrite(a) PROVE OrphanInv'
  <2> SUFFICES ASSUME ~tainted', NEW h \in Handles, mem'[h] = "orphan", h \notin lost'
               PROVE  file'.end /\ file'.mem = h
    BY <1>14, CrashInWriteDoes DEF OrphanInv
  <2>1. ~tainted /\ h \notin lost /\ (mem[h] = "orphan" \/ (mem[h] = a /\ ~Gap(a, h, file')))
    BY <1>14, CrashInWriteDoes
  <2>2. mem[h] = a /\ ~Gap(a, h, file') /\ pc[a] \in {"pubClocks", "pubFree"}
    BY <1>14, <2>1, CrashInWriteDoes, LostHere DEF Recovering, Gap, Unnamed
  <2>3. CASE pc[a] = "pubClocks"
    <3>1. file'.mem = rec[a].mem /\ h = rec[a].mem
      BY <1>14, <2>2, <2>3, CrashInWriteDoes DEF IInv, MemInv, Naming
    <3>2. QED
      BY <2>2, <2>3, <3>1 DEF Gap, At
  <2>4. CASE pc[a] = "pubFree"
    BY <1>14, <2>2, <2>4, CrashInWriteDoes DEF Gap, At
  <2>5. QED
    BY <2>2, <2>3, <2>4
<1>15. ASSUME NEW a \in Actors, Exit(a) PROVE OrphanInv'
  BY <1>15, SessionAssumption, ExitDoes DEF IInv, Types, PcType, BookType, RecordType,
     HardwareType, Holder, Sessions, MemInv, FileInv, FileAt, OrphanInv, RecKept, Unnamed, Naming,
     Published, Carrying
<1>16. ASSUME Environment \/ UNCHANGED vars PROVE OrphanInv'
  BY <1>16, SessionAssumption, OutsideDoes DEF IInv, Types, PcType, BookType, RecordType,
     HardwareType, Holder, Sessions, MemInv, FileInv, FileAt, OrphanInv, RecKept, Unnamed, Naming,
     Published, Carrying
<1>17. QED
  BY <1>1, <1>2, <1>3, <1>4, <1>5, <1>6, <1>7, <1>8, <1>9, <1>10, <1>11, <1>12, <1>13, <1>14,
     <1>15, <1>16 DEF Next, Step, Death

(* The pin goes back before the record that says so does.                   *)
LEMMA PinStep ==
  ASSUME IInv, [Next]_vars
  PROVE  PinInv'
<1>1. ASSUME NEW a \in Actors, TakeLock(a) PROVE PinInv'
  BY <1>1, SessionAssumption, TakeLockDoes DEF hardware, history, IInv, Types, PcType, BookType,
     RecordType, HardwareType, Holder, Sessions, FileInv, FileAt, DmaInv, PinInv, Restored,
     Naming, Published, Carrying
<1>2. ASSUME NEW a \in Actors, RecoverDma(a) PROVE PinInv'
  BY <1>2, SessionAssumption, RecoverDmaDoes DEF IInv, Types, PcType, BookType, RecordType,
     HardwareType, Holder, Sessions, FileInv, FileAt, DmaInv, PinInv, Restored, Naming, Published,
     Carrying
<1>3. ASSUME NEW a \in Actors, RecoverPins(a) PROVE PinInv'
  <2>1. CASE Skipped("recPins", "recPlan", a)
    BY <2>1 DEF Skipped, PinInv
  <2>2. CASE ~Skipped("recPins", "recPlan", a)
    <3>1. pins' = Restored(file.pins) /\ UNCHANGED <<file, rec, tainted>> /\ pc' = [pc EXCEPT ![a] = "recPlan"] /\ pc[a] = "recPins"
      BY <1>3, <2>2 DEF RecoverPins, Goto, At, history
    <3>2. ~tainted => pins' = "orig"
      BY <3>1 DEF IInv, PinInv, FileInv, FileAt, Recovering, Restored
    <3>3. QED
      BY <3>1, <3>2 DEF IInv, Types, PcType, PinInv, Naming, Published, Carrying
  <2>3. QED
    BY <2>1, <2>2
<1>4. ASSUME NEW a \in Actors, RecoverPlan(a) PROVE PinInv'
  BY <1>4, SessionAssumption, RecoverPlanDoes DEF hardware, history, IInv, Types, PcType,
     BookType, RecordType, HardwareType, Holder, Sessions, FileInv, FileAt, DmaInv, PinInv,
     Restored, Naming, Published, Carrying
<1>5. ASSUME NEW a \in Actors, RecoverMem(a) PROVE PinInv'
  BY <1>5, SessionAssumption, RecoverMemDoes DEF IInv, Types, PcType, BookType, RecordType,
     HardwareType, Holder, Sessions, FileInv, FileAt, DmaInv, PinInv, Restored, Naming, Published,
     Carrying
<1>6. ASSUME NEW a \in Actors, RecoverClear(a) \/ PinOff(a) \/ Tune(a) \/ Retune(a) \/
        StartDma(a) \/ StopDma(a) \/ Close(a) \/ FreeBlock(a) \/ ClearRecord(a) \/ Unlock(a) \/
        ToolReset(a) \/ SignalStop(a)
      PROVE PinInv'
  BY <1>6, SessionAssumption DEF RecoverClear, At, Goto, hardware, history, Sessions, FileInv,
     FileAt, DmaInv, Restored, Naming, Published, Carrying, PinOff, Tune, Retune, StartDma,
     StopDma, Close, FreeBlock, ClearRecord, Unlock, Ends, ToolReset, SignalStop, Silence,
     HandlersInstalled, Actors, Types, PcType, Holder, IInv, PinInv
<1>7. ASSUME NEW a \in Actors, ClockWrite(a) PROVE PinInv'
  BY <1>7, SessionAssumption, ClockWriteDoes DEF hardware, history, IInv, Types, PcType, BookType,
     RecordType, HardwareType, Holder, Sessions, FileInv, FileAt, DmaInv, PinInv, Restored,
     Naming, Published, Carrying
<1>8. ASSUME NEW a \in Actors, Claim(a) PROVE PinInv'
  BY <1>8, SessionAssumption, ClaimDoes DEF hardware, history, IInv, Types, PcType, BookType,
     RecordType, HardwareType, Holder, Sessions, FileInv, FileAt, DmaInv, PinInv, Restored,
     Naming, Published, Carrying
<1>9. ASSUME NEW a \in Actors, Allocate(a) PROVE PinInv'
  BY <1>9, SessionAssumption, AllocateDoes DEF hardware, history, IInv, Types, PcType, BookType,
     RecordType, HardwareType, Holder, Sessions, FileInv, FileAt, DmaInv, PinInv, Restored,
     Naming, Published, Carrying
<1>10. ASSUME NEW a \in Actors, Publish(a) PROVE PinInv'
  BY <1>10, SessionAssumption, PublishDoes DEF hardware, history, IInv, Types, PcType, BookType,
     RecordType, HardwareType, Holder, Sessions, FileInv, FileAt, DmaInv, PinInv, Restored,
     Naming, Published, Carrying
<1>11. ASSUME NEW a \in Actors, MapBlock(a) PROVE PinInv'
  BY <1>11, SessionAssumption, MapBlockDoes DEF hardware, history, IInv, Types, PcType, BookType,
     RecordType, HardwareType, Holder, Sessions, FileInv, FileAt, DmaInv, PinInv, Restored,
     Naming, Published, Carrying
<1>12. ASSUME NEW a \in Actors, SaveClocks(a) PROVE PinInv'
  BY <1>12, SessionAssumption, SaveClocksDoes DEF hardware, history, IInv, Types, PcType,
     BookType, RecordType, HardwareType, Holder, Sessions, FileInv, FileAt, DmaInv, PinInv,
     Restored, Naming, Published, Carrying
<1>13. ASSUME NEW a \in Actors, DmaStop(a) PROVE PinInv'
  BY <1>13, SessionAssumption, DmaStopDoes DEF hardware, history, IInv, Types, PcType, BookType,
     RecordType, HardwareType, Holder, Sessions, FileInv, FileAt, DmaInv, PinInv, Restored,
     Naming, Published, Carrying
<1>14. ASSUME NEW a \in Actors, Crash(a) PROVE PinInv'
  <2>1. ASSUME ~tainted, pc[a] \in Carrying PROVE file # Empty
    BY <2>1, FileHasTree, BlankRecords
  <2>2. QED
    BY <1>14, <2>1, CrashDoes DEF IInv, PinInv, Naming, Published, Carrying
<1>15. ASSUME NEW a \in Actors, CrashInWrite(a) PROVE PinInv'
  BY <1>15, SessionAssumption, CrashInWriteDoes DEF IInv, Types, PcType, BookType, RecordType,
     HardwareType, Holder, Sessions, FileInv, FileAt, DmaInv, PinInv, Restored, Naming, Published,
     Carrying
<1>16. ASSUME NEW a \in Actors, Exit(a) PROVE PinInv'
  <2>1. ASSUME ~tainted PROVE file # Empty
    BY <1>16, <2>1, ExitDoes, FileHasTree, BlankRecords
  <2>2. QED
    BY <1>16, <2>1, ExitDoes DEF IInv, PinInv, Naming, Published, Carrying
<1>17. ASSUME EngineWrites PROVE PinInv'
  <2>1. UNCHANGED <<file, rec, pc, tainted>> /\ dma \in Handles
    BY <1>17 DEF EngineWrites, history
  <2>2. ASSUME ~tainted
        PROVE  \/ \E a \in Actors : pc[a] \in Carrying
               \/ file # Empty /\ \A a \in Actors : pc[a] \in {"idle", "recDma"}
    BY <2>1, <2>2, BlankRecords DEF IInv, DmaInv, Carrying
  <2>3. QED
    BY <2>1, <2>2 DEF IInv, PinInv
<1>18. ASSUME OtherDma PROVE PinInv'
  BY <1>18, SessionAssumption DEF OtherDma, hardware, history, IInv, Types, PcType, BookType,
     RecordType, HardwareType, Holder, Sessions, FileInv, FileAt, DmaInv, PinInv, Restored,
     Naming, Published, Carrying
<1>19. ASSUME ForkChild PROVE PinInv'
  BY <1>19, SessionAssumption DEF ForkChild, hardware, history, IInv, Types, PcType, BookType,
     RecordType, HardwareType, Holder, Sessions, FileInv, FileAt, DmaInv, PinInv, Restored,
     Naming, Published, Carrying
<1>20. ASSUME ChildExits PROVE PinInv'
  BY <1>20, SessionAssumption DEF ChildExits, hardware, history, IInv, Types, PcType, BookType,
     RecordType, HardwareType, Holder, Sessions, FileInv, FileAt, DmaInv, PinInv, Restored,
     Naming, Published, Carrying
<1>21. ASSUME MaskChanges PROVE PinInv'
  BY <1>21, SessionAssumption DEF MaskChanges, hardware, history, IInv, Types, PcType, BookType,
     RecordType, HardwareType, Holder, Sessions, FileInv, FileAt, DmaInv, PinInv, Restored,
     Naming, Published, Carrying
<1>22. ASSUME NEW h \in Handles, OtherAllocates(h) PROVE PinInv'
  BY <1>22, SessionAssumption DEF OtherAllocates, hardware, history, IInv, Types, PcType,
     BookType, RecordType, HardwareType, Holder, Sessions, FileInv, FileAt, DmaInv, PinInv,
     Restored, Naming, Published, Carrying
<1>23. ASSUME UNCHANGED vars PROVE PinInv'
  BY <1>23, SessionAssumption DEF vars, hardware, history, IInv, Types, PcType, BookType,
     RecordType, HardwareType, Holder, Sessions, FileInv, FileAt, DmaInv, PinInv, Restored,
     Naming, Published, Carrying
<1>24. QED
  BY <1>1, <1>2, <1>3, <1>4, <1>5, <1>6, <1>7, <1>8, <1>9, <1>10, <1>11, <1>12, <1>13, <1>14,
     <1>15, <1>16, <1>17, <1>18, <1>19, <1>20, <1>21, <1>22, <1>23 DEF Next, Step, Death,
     Environment, vars

(* So do the clocks.                                                        *)
LEMMA RegsStep ==
  ASSUME IInv, [Next]_vars
  PROVE  RegsInv'
<1>1. ASSUME NEW a \in Actors, TakeLock(a) PROVE RegsInv'
  BY <1>1, TakeLockDoes, BlankRecords, SessionAssumption DEF hardware, IInv, Types, PcType,
     BookType, RegsInv, Carrying
<1>2. ASSUME NEW a \in Actors, RecoverDma(a) PROVE RegsInv'
  BY <1>2, SessionAssumption, RecoverDmaDoes DEF IInv, Types, PcType, BookType, RecordType,
     Holder, FileInv, FileAt, RegsInv, Naming, Published, Carrying
<1>3. ASSUME NEW a \in Actors, RecoverPins(a) \/ PinOff(a) \/ Tune(a) \/ Retune(a) \/
        StartDma(a) \/ StopDma(a) \/ Close(a) \/ FreeBlock(a) \/ SignalStop(a)
      PROVE RegsInv'
  BY <1>3, SessionAssumption DEF RecoverPins, At, Goto, hardware, history, Skipped, FileInv,
     FileAt, Naming, Published, Carrying, PinOff, Tune, Retune, StartDma, StopDma, Close,
     FreeBlock, SignalStop, HandlersInstalled, Actors, Types, PcType, IInv, RegsInv
<1>4. ASSUME NEW a \in Actors, RecoverPlan(a) PROVE RegsInv'
  BY <1>4, SessionAssumption, RecoverPlanDoes DEF hardware, history, IInv, Types, PcType,
     BookType, RecordType, Holder, FileInv, FileAt, RegsInv, Naming, Published, Carrying
<1>5. ASSUME NEW a \in Actors, RecoverMem(a) PROVE RegsInv'
  BY <1>5, SessionAssumption, RecoverMemDoes DEF IInv, Types, PcType, BookType, RecordType,
     Holder, FileInv, FileAt, RegsInv, Naming, Published, Carrying
<1>6. ASSUME NEW a \in Actors, RecoverClear(a) PROVE RegsInv'
  <2>1. ~tainted => regs = found
    BY <1>6, TreeFound DEF RecoverClear, At, Carrying
  <2>2. QED
    BY <1>6, <2>1, BlankRecords DEF RecoverClear, hardware, history, IInv, RegsInv
<1>7. ASSUME NEW a \in Actors, ClockWrite(a) PROVE RegsInv'
  <2>1. UNCHANGED <<file, rec, found, tainted>>
    BY <1>7, ClockWriteDoes DEF history
  <2>2. CASE todo[a] = <<>>
    <3>1. regs' = regs
      BY <1>7, <2>2, ClockWriteDoes
    <3>2. ASSUME ~tainted, pc[a] \in {"restore", "recClocks"} PROVE regs = found
      <4>1. \E s : Restores(a, s)
        BY <3>2 DEF IInv, PlanInv, PlanAt
      <4>2. PICK s : Restores(a, s)
        BY <4>1
      <4>3. Leads(<<>>, regs, found, Level(loose, s))
        BY <2>2, <3>2, <4>2 DEF Restores
      <4>4. QED
        BY <4>3, PathNil DEF Leads
    <3>3. QED
      BY <1>7, <2>1, <2>2, <3>1, <3>2, ClockWriteDoes DEF IInv, RegsInv, Types, PcType, Carrying
  <2>3. CASE todo[a] # <<>>
    <3>1. pc' = pc
      BY <1>7, <2>3, ClockWriteDoes
    <3>2. ASSUME ~tainted, pc[a] = "recClocks", file.tree = NoTree PROVE regs' = found
      <4>1. regs = found
        BY <3>2, TreeFound DEF Carrying
      <4>2. todo[a] = <<W("gp0", Gen(regs.gp0.src, FALSE))>>
        BY <2>3, <3>2 DEF IInv, StopInv, Stop
      <4>5. Head(todo[a]) = W("gp0", Gen(regs.gp0.src, FALSE))
        BY <4>2
      <4>3. regs' = Written(regs, W("gp0", Gen(regs.gp0.src, FALSE)))
        BY <1>7, <2>3, <4>5, ClockWriteDoes
      <4>4. QED
        BY <4>1, <4>3, FoundStopped DEF IInv
    <3>3. ASSUME ~tainted, file.tree # NoTree PROVE file.tree = found
      BY <3>3 DEF IInv, RegsInv
    <3>4. \A b \in Actors \ {a} : pc[b] = "idle"
      BY <1>7, <2>3, ClockWriteDoes DEF IInv, Holder
    <3>5. QED
      BY <1>7, <2>1, <2>3, <3>1, <3>2, <3>3, <3>4, ClockWriteDoes DEF IInv, RegsInv, Carrying
  <2>4. QED
    BY <2>2, <2>3
<1>8. ASSUME NEW a \in Actors, Claim(a) PROVE RegsInv'
  BY <1>8, SessionAssumption, ClaimDoes DEF hardware, history, IInv, Types, PcType, BookType,
     RecordType, Holder, FileInv, FileAt, RegsInv, Naming, Published, Carrying
<1>9. ASSUME NEW a \in Actors, Allocate(a) PROVE RegsInv'
  BY <1>9, SessionAssumption, AllocateDoes DEF hardware, history, IInv, Types, PcType, BookType,
     RecordType, Holder, FileInv, FileAt, RegsInv, Naming, Published, Carrying
<1>10. ASSUME NEW a \in Actors, Publish(a) PROVE RegsInv'
  BY <1>10, SessionAssumption, PublishDoes DEF hardware, history, IInv, Types, PcType, BookType,
     RecordType, Holder, FileInv, FileAt, RegsInv, Naming, Published, Carrying
<1>11. ASSUME NEW a \in Actors, MapBlock(a) PROVE RegsInv'
  BY <1>11, SessionAssumption, MapBlockDoes DEF hardware, history, IInv, Types, PcType, BookType,
     RecordType, Holder, FileInv, FileAt, RegsInv, Naming, Published, Carrying
<1>12. ASSUME NEW a \in Actors, SaveClocks(a) PROVE RegsInv'
  BY <1>12, SessionAssumption, SaveClocksDoes DEF hardware, history, IInv, Types, PcType,
     BookType, RecordType, Holder, FileInv, FileAt, RegsInv, Naming, Published, Carrying
<1>13. ASSUME NEW a \in Actors, DmaStop(a) PROVE RegsInv'
  BY <1>13, SessionAssumption, DmaStopDoes DEF hardware, history, IInv, Types, PcType, BookType,
     RecordType, Holder, FileInv, FileAt, RegsInv, Naming, Published, Carrying
<1>14. ASSUME NEW a \in Actors, ClearRecord(a) PROVE RegsInv'
  <2>1. ~tainted => regs = found
    BY <1>14, TreeFound DEF ClearRecord, At, Carrying
  <2>2. QED
    BY <1>14, <2>1, BlankRecords DEF ClearRecord, hardware, history, IInv, RegsInv
<1>15. ASSUME NEW a \in Actors, Unlock(a) PROVE RegsInv'
  <2>1. ~tainted => regs = found
    BY <1>15, TreeFound DEF Unlock, At, Carrying
  <2>2. QED
    BY <1>15, <2>1, BlankRecords DEF Unlock, Ends, hardware, history, IInv, Types, RecordType,
       RegsInv
<1>16. ASSUME NEW a \in Actors, ToolReset(a) PROVE RegsInv'
  <2>1. ~tainted => regs = found
    BY <1>16, TreeFound DEF ToolReset, At, Carrying
  <2>2. [found EXCEPT !.gp0.run = FALSE] = found
    BY FoundStopped DEF IInv
  <2>3. ~tainted => regs' = found
    BY <1>16, <2>1, <2>2 DEF ToolReset
  <2>4. QED
    BY <1>16, <2>3 DEF ToolReset, history, IInv, RegsInv
<1>17. ASSUME NEW a \in Actors, Crash(a) PROVE RegsInv'
  <2>1. ASSUME ~tainted, regs # found PROVE file.tree = found
    BY <1>17, <2>1, CrashDoes, TreeFound, FileHasTree DEF IInv, RegsInv
  <2>2. QED
    BY <1>17, <2>1, CrashDoes, BlankRecords DEF IInv, RegsInv
<1>18. ASSUME NEW a \in Actors, CrashInWrite(a) PROVE RegsInv'
  <2>1. ~tainted => regs = found
    BY <1>18, CrashInWriteDoes, TreeFound DEF Carrying
  <2>2. QED
    BY <1>18, <2>1, CrashInWriteDoes, BlankRecords DEF IInv, RegsInv
<1>19. ASSUME NEW a \in Actors, Exit(a) PROVE RegsInv'
  <2>1. ASSUME ~tainted PROVE file.tree = found
    BY <1>19, <2>1, ExitDoes, FileHasTree
  <2>2. QED
    BY <1>19, <2>1, ExitDoes, BlankRecords DEF IInv, RegsInv
<1>20. ASSUME Environment \/ UNCHANGED vars PROVE RegsInv'
  <2>1. UNCHANGED <<file, rec, pc, found, tainted>>
    BY <1>20, OutsideDoes
  <2>2. CASE regs' = regs
    BY <2>1, <2>2 DEF IInv, RegsInv
  <2>3. CASE dma \in Handles
    <3>1. ASSUME ~tainted
          PROVE  \/ \E a \in Actors : pc[a] \in Carrying
                 \/ file.tree = found /\ \A a \in Actors : pc[a] \in {"idle", "recDma"}
      BY <2>3, <3>1 DEF IInv, DmaInv, Carrying
    <3>2. QED
      BY <2>1, <3>1 DEF IInv, RegsInv
  <2>4. QED
    BY <1>20, <2>2, <2>3, OutsideDoes
<1>21. QED
  BY <1>1, <1>2, <1>3, <1>4, <1>5, <1>6, <1>7, <1>8, <1>9, <1>10, <1>11, <1>12, <1>13, <1>14,
     <1>15, <1>16, <1>17, <1>18, <1>19, <1>20 DEF Next, Step, Death

(* The tree that was found is history.                                      *)
LEMMA FoundSame ==
  ASSUME [Next]_vars
  PROVE  found' = found
<1>1. ASSUME NEW a \in Actors, Step(a) PROVE found' = found
  BY <1>1 DEF Step, TakeLock, RecoverDma, RecoverPins, RecoverPlan, RecoverMem, RecoverClear,
     Skipped, RunsOn, ClockWrite, Claim, Allocate, Publish, MapBlock, SaveClocks, PinOff, Tune, Retune,
     StartDma, StopDma, Close, DmaStop, FreeBlock, ClearRecord, Unlock, ToolReset, history
<1>2. ASSUME NEW a \in Actors, Death(a) PROVE found' = found
  BY <1>2 DEF Death, Crash, CrashInWrite, SignalStop, Exit, Dies
<1>3. ASSUME Environment PROVE found' = found
  BY <1>3 DEF Environment, EngineWrites, OtherDma, ForkChild, ChildExits, MaskChanges,
     OtherAllocates, history
<1>4. QED
  BY <1>1, <1>2, <1>3 DEF Next, vars, history

LEMMA FoundStep ==
  ASSUME IInv, [Next]_vars
  PROVE  FoundKept'
BY FoundSame DEF IInv, FoundKept, Undisturbed

LEMMA Emmc2Step ==
  ASSUME IInv, [Next]_vars
  PROVE  ~Bcm2711 => regs'.emmc2 = found'.emmc2
BY RegsLegal, FoundSame DEF IInv, FitInv, Legal

(* Only a recovery that cannot reset the channel leaves it loose.           *)
LEMMA LooseMoves ==
  ASSUME IInv, [Next]_vars
  PROVE  loose' = loose \/ (loose' = TRUE /\ \E a \in Actors : RecoverDma(a))
<1>1. ASSUME NEW a \in Actors, Step(a), ~RecoverDma(a) PROVE loose' = loose
  BY <1>1 DEF Step, TakeLock, RecoverPins, RecoverPlan, RecoverMem, RecoverClear,
     Skipped, ClockWrite, Claim, Allocate, Publish, MapBlock, SaveClocks, PinOff, Tune, Retune,
     StartDma, StopDma, Close, DmaStop, FreeBlock, ClearRecord, Unlock, ToolReset, history
<1>2. ASSUME NEW a \in Actors, RecoverDma(a) PROVE loose' = loose \/ loose' = TRUE
  <2>1. loose \in BOOLEAN
    BY DEF IInv, Types, BookType
  <2>2. QED
    BY <1>2, <2>1, RecoverDmaDoes
<1>3. ASSUME NEW a \in Actors, Death(a) PROVE loose' = loose
  BY <1>3 DEF Death, Crash, CrashInWrite, SignalStop, Exit, Dies
<1>4. ASSUME Environment \/ UNCHANGED vars PROVE loose' = loose
  BY <1>4, OutsideDoes
<1>5. QED
  BY <1>1, <1>2, <1>3, <1>4 DEF Next

(* Each step leaves clocks that fit the records there were.                 *)
LEMMA RegsFit ==
  ASSUME IInv, [Next]_vars
  PROVE  /\ Fits(regs', Level(loose, file.tree)) /\ Fits(regs', Level(loose, NoTree))
         /\ \A a \in Actors : Fits(regs', Level(loose, rec[a].tree))
<1>1. /\ Fits(regs, Level(loose, file.tree)) /\ regs \in Trees /\ loose \in BOOLEAN
      /\ file.tree \in Trees \cup {NoTree}
      /\ \A a \in Actors : Fits(regs, Level(loose, rec[a].tree)) /\ rec[a].tree \in Trees \cup {NoTree}
  BY DEF IInv, FitInv, Types, TreeType, BookType, RecordType, Records
<1>2. Fits(regs, Level(loose, NoTree))
  BY <1>1, FitsNone
<1>3. CASE regs' = regs
  BY <1>1, <1>2, <1>3
<1>4. CASE regs' = [regs EXCEPT !.gp0.run = FALSE]
  <2>1. \A s : Fits(regs, s) => Fits(regs', s)
    BY <1>1, <1>4, Silenced
  <2>2. QED
    BY <1>1, <1>2, <2>1
<1>5. CASE dma \in Handles /\ regs' = [regs EXCEPT !.ctrl = "tx"]
  <2>1. ~loose => \A g \in Generators \ {"gp0"} : regs[g] # Gen("pllc", TRUE)
    BY <1>5 DEF IInv, EngineInv
  <2>2. \A s : Fits(regs, s) /\ (s = Any \/ \A g \in Generators \ {"gp0"} : regs[g] # Gen("pllc", TRUE)) => Fits(regs', s)
    BY <1>1, <1>5, Modulated
  <2>3. loose => \A s : Level(loose, s) = Any
    BY DEF Level
  <2>4. QED
    BY <1>1, <1>2, <2>1, <2>2, <2>3
<1>6. CASE \E a \in Actors : ClockWrite(a) /\ todo[a] # <<>>
  <2>1. PICK a \in Actors : ClockWrite(a) /\ todo[a] # <<>>
    BY <1>6
  <2>2. Fits(regs', Level(loose, file.tree)) /\ Fits(regs', Level(loose, rec[a].tree))
    BY <2>1, Follows DEF Following
  <2>3. Fits(regs', Level(loose, NoTree))
    BY <1>1, <2>2, FitsNone
  <2>4. \A b \in Actors \ {a} : rec[b].tree = NoTree
    BY <2>1, ClockWriteDoes, BlankRecords DEF IInv, Holder, RecKept
  <2>5. QED
    BY <2>2, <2>3, <2>4
<1>7. QED
  BY <1>3, <1>4, <1>5, <1>6, RegsDo DEF RegsMoves

(* A record gets its tree only from the clocks as they are.                 *)
TreesMove ==
  /\ file'.tree \in {NoTree, file.tree} \/ \E a \in Actors : file'.tree = rec[a].tree
  /\ \A a \in Actors : rec'[a].tree \in {NoTree, rec[a].tree} \/ (rec'[a].tree = regs /\ regs' = regs)

LEMMA TreesDo ==
  ASSUME IInv, [Next]_vars
  PROVE  TreesMove
<1>0. rec \in [Actors -> Records]
  BY DEF IInv, Types, RecordType
<1>1. ASSUME NEW a \in Actors, TakeLock(a) \/ RecoverDma(a) \/ RecoverPins(a) \/ RecoverPlan(a) \/
        RecoverMem(a) \/ ClockWrite(a) \/ PinOff(a) \/ Tune(a) \/ Retune(a) \/ StartDma(a) \/ StopDma(a) \/
        Close(a) \/ FreeBlock(a) \/ ToolReset(a) \/ SignalStop(a)
      PROVE TreesMove
  <2>1. UNCHANGED <<file, rec>>
    BY <1>1 DEF TakeLock, RecoverDma, Skipped, RunsOn, RecoverPins, RecoverPlan, RecoverMem, ClockWrite,
       PinOff, Tune, Retune, StartDma, StopDma, Close, FreeBlock, ToolReset, SignalStop
  <2>2. QED
    BY <2>1 DEF TreesMove
<1>2. ASSUME NEW a \in Actors, RecoverClear(a) \/ ClearRecord(a) PROVE TreesMove
  <2>1. file' = Empty /\ rec' = rec
    BY <1>2 DEF RecoverClear, ClearRecord
  <2>2. QED
    BY <2>1, BlankRecords DEF TreesMove
<1>3. ASSUME NEW a \in Actors, Unlock(a) PROVE TreesMove
  BY <1>0, <1>3, BlankRecords DEF Unlock, Ends, TreesMove
<1>4. ASSUME NEW a \in Actors, Claim(a) PROVE TreesMove
  BY <1>0, <1>4, ClaimDoes DEF TreesMove
<1>5. ASSUME NEW a \in Actors, Allocate(a) PROVE TreesMove
  BY <1>0, <1>5, AllocateDoes DEF TreesMove
<1>6. ASSUME NEW a \in Actors, Publish(a) PROVE TreesMove
  BY <1>6, PublishDoes DEF TreesMove
<1>7. ASSUME NEW a \in Actors, MapBlock(a) PROVE TreesMove
  BY <1>0, <1>7, MapBlockDoes DEF TreesMove
<1>8. ASSUME NEW a \in Actors, SaveClocks(a) PROVE TreesMove
  BY <1>0, <1>8, SaveClocksDoes DEF TreesMove, hardware
<1>9. ASSUME NEW a \in Actors, DmaStop(a) PROVE TreesMove
  BY <1>0, <1>9, DmaStopDoes DEF TreesMove
<1>10. ASSUME NEW a \in Actors, Crash(a) PROVE TreesMove
  BY <1>10, CrashDoes, BlankRecords DEF TreesMove
<1>11. ASSUME NEW a \in Actors, CrashInWrite(a) PROVE TreesMove
  BY <1>11, CrashInWriteDoes, BlankRecords DEF TreesMove
<1>12. ASSUME NEW a \in Actors, Exit(a) PROVE TreesMove
  BY <1>12, ExitDoes, BlankRecords DEF TreesMove
<1>13. ASSUME Environment \/ UNCHANGED vars PROVE TreesMove
  BY <1>13, OutsideDoes DEF TreesMove
<1>14. QED
  BY <1>1, <1>2, <1>3, <1>4, <1>5, <1>6, <1>7, <1>8, <1>9, <1>10, <1>11, <1>12, <1>13 DEF Next, Step, Death

(* The clocks fit the records after each step.                              *)
LEMMA FitStep ==
  ASSUME IInv, [Next]_vars
  PROVE  FitInv'
<1>1. loose' = loose \/ loose' = TRUE
  BY LooseMoves
<1>2. CASE loose' = TRUE
  <2>1. \A s, t : Fits(t, Level(loose', s))
    BY <1>2 DEF Fits, Level
  <2>2. QED
    BY <2>1, Emmc2Step DEF FitInv
<1>3. CASE loose' = loose
  <2>1. /\ loose \in BOOLEAN /\ regs \in Trees
        /\ \A a \in Actors : rec[a].tree \in Trees \cup {NoTree} /\ Fits(regs, Level(loose, rec[a].tree))
    BY DEF IInv, Types, BookType, TreeType, RecordType, Records, FitInv
  <2>2. Fits(regs', Level(loose, file'.tree))
    BY RegsFit, TreesDo DEF TreesMove
  <2>3. ASSUME NEW a \in Actors PROVE Fits(regs', Level(loose, rec'[a].tree))
    <3>1. CASE rec'[a].tree \in {NoTree, rec[a].tree}
      BY <3>1, RegsFit
    <3>2. CASE rec'[a].tree = regs /\ regs' = regs
      BY <2>1, <3>2, FitsSelf
    <3>3. QED
      BY <3>1, <3>2, TreesDo DEF TreesMove
  <2>4. QED
    BY <1>3, <2>2, <2>3, Emmc2Step DEF FitInv
<1>4. QED
  BY <1>1, <1>2, <1>3

(* A tree is recorded before the clocks move, and stays on record while     *)
(* they are away.                                                           *)
LEMMA SavedStep ==
  ASSUME IInv, [Next]_vars
  PROVE  SavedInv'
<1>1. ASSUME NEW a \in Actors, TakeLock(a) PROVE SavedInv'
  BY <1>1, SessionAssumption, TakeLockDoes DEF hardware, history, IInv, Types, RecordType,
     SavedInv, Holder, PcType, Recovering, Published, Carrying
<1>2. ASSUME NEW a \in Actors, RecoverDma(a) PROVE SavedInv'
  BY <1>2, SessionAssumption, RecoverDmaDoes DEF IInv, Types, RecordType, SavedInv, Holder,
     PcType, Recovering, Published, Carrying
<1>3. ASSUME NEW a \in Actors, RecoverPins(a) \/ PinOff(a) \/ Tune(a) \/ Retune(a) \/
        StartDma(a) \/ StopDma(a) \/ Close(a) \/ FreeBlock(a) \/ ToolReset(a) \/ SignalStop(a)
      PROVE SavedInv'
  BY <1>3, SessionAssumption DEF RecoverPins, At, Goto, hardware, history, Skipped, Recovering,
     Published, Carrying, PinOff, Tune, Retune, StartDma, StopDma, Close, FreeBlock, ToolReset,
     SignalStop, Actors, Types, PcType, IInv, SavedInv
<1>4. ASSUME NEW a \in Actors, RecoverPlan(a) PROVE SavedInv'
  BY <1>4, SessionAssumption, RecoverPlanDoes DEF hardware, history, IInv, Types, RecordType,
     SavedInv, Holder, PcType, Recovering, Published, Carrying
<1>5. ASSUME NEW a \in Actors, RecoverMem(a) PROVE SavedInv'
  BY <1>5, SessionAssumption, RecoverMemDoes DEF IInv, Types, RecordType, SavedInv, Holder,
     PcType, Recovering, Published, Carrying
<1>6. ASSUME NEW a \in Actors, RecoverClear(a) PROVE SavedInv'
  <2>1. file' = Empty /\ rec' = rec /\ pc' = [pc EXCEPT ![a] = IF a \in Tools THEN "tool" ELSE "claim"]
        /\ rec[a].tree = NoTree
    BY <1>6, BlankRecords DEF RecoverClear, At, Goto, IInv, RecKept
  <2>2. QED
    BY <2>1, BlankRecords DEF IInv, Types, SavedInv, PcType, Published, Carrying
<1>7. ASSUME NEW a \in Actors, ClockWrite(a) PROVE SavedInv'
  BY <1>7, SessionAssumption, ClockWriteDoes DEF hardware, history, IInv, Types, RecordType,
     SavedInv, Holder, PcType, Recovering, Published, Carrying
<1>8. ASSUME NEW a \in Actors, Claim(a) PROVE SavedInv'
  BY <1>8, SessionAssumption, ClaimDoes DEF hardware, history, IInv, Types, RecordType, SavedInv,
     Holder, PcType, Recovering, Published, Carrying
<1>9. ASSUME NEW a \in Actors, Allocate(a) PROVE SavedInv'
  BY <1>9, SessionAssumption, AllocateDoes DEF hardware, history, IInv, Types, RecordType,
     SavedInv, Holder, PcType, Recovering, Published, Carrying
<1>10. ASSUME NEW a \in Actors, Publish(a) PROVE SavedInv'
  BY <1>10, SessionAssumption, PublishDoes DEF hardware, history, IInv, Types, RecordType,
     SavedInv, Holder, PcType, Recovering, Published, Carrying
<1>11. ASSUME NEW a \in Actors, MapBlock(a) PROVE SavedInv'
  BY <1>11, SessionAssumption, MapBlockDoes DEF hardware, history, IInv, Types, RecordType,
     SavedInv, Holder, PcType, Recovering, Published, Carrying
<1>12. ASSUME NEW a \in Actors, SaveClocks(a) PROVE SavedInv'
  BY <1>12, SessionAssumption, SaveClocksDoes DEF IInv, Types, RecordType, TreeType, SavedInv,
     Holder, PcType, Recovering, Published, Carrying
<1>13. ASSUME NEW a \in Actors, DmaStop(a) PROVE SavedInv'
  BY <1>13, SessionAssumption, DmaStopDoes DEF hardware, history, IInv, Types, RecordType,
     SavedInv, Holder, PcType, Recovering, Published, Carrying
<1>14. ASSUME NEW a \in Actors, ClearRecord(a) PROVE SavedInv'
  BY <1>14, BlankRecords DEF ClearRecord, At, Goto, hardware, history, IInv, Types, RecordType,
     SavedInv, PcType, Recovering, Published, Carrying
<1>15. ASSUME NEW a \in Actors, Unlock(a) PROVE SavedInv'
  <2>1. pc[a] # "idle" /\ rec' = [rec EXCEPT ![a] = Blank] /\ pc' = [pc EXCEPT ![a] = "idle"]
    BY <1>15 DEF Unlock, Ends, At, Goto
  <2>2. QED
    BY <2>1, NobodyLeft DEF SavedInv, Published, Carrying
<1>16. ASSUME NEW a \in Actors, Crash(a) PROVE SavedInv'
  BY <1>16, CrashDoes DEF SavedInv, Published, Carrying
<1>17. ASSUME NEW a \in Actors, CrashInWrite(a) PROVE SavedInv'
  BY <1>17, CrashInWriteDoes DEF SavedInv, Published, Carrying
<1>18. ASSUME NEW a \in Actors, Exit(a) PROVE SavedInv'
  BY <1>18, ExitDoes DEF SavedInv, Published, Carrying
<1>19. ASSUME Environment \/ UNCHANGED vars PROVE SavedInv'
  BY <1>19, SessionAssumption, OutsideDoes DEF IInv, SavedInv
<1>20. QED
  BY <1>1, <1>2, <1>3, <1>4, <1>5, <1>6, <1>7, <1>8, <1>9, <1>10, <1>11, <1>12, <1>13, <1>14,
     <1>15, <1>16, <1>17, <1>18, <1>19 DEF Next, Step, Death

(* Plans are followed to their end.                                         *)
Planned == {"advance", "tune", "restore", "recClocks"} \cup Retuned \cup Carrying

LEMMA PlanStep ==
  ASSUME IInv, [Next]_vars
  PROVE  PlanInv'
<1>1. ASSUME \A b \in Actors : pc'[b] \notin Planned PROVE PlanInv'
  BY <1>1 DEF PlanInv, PlanAt, Planned
<1>2. ASSUME NEW a \in Actors, RecoverPins(a) \/ RecoverClear(a) \/ SaveClocks(a) \/ FreeBlock(a) \/ ClearRecord(a) \/ Unlock(a) \/ ToolReset(a)
      PROVE PlanInv'
  <2>1. \A b \in Actors : pc'[b] \notin Planned
    BY <1>2 DEF RecoverPins, RecoverClear, SaveClocks, FreeBlock, ClearRecord, Unlock, ToolReset,
       At, Goto, Skipped, Ends, IInv, Holder, Types, PcType, Planned, Retuned, Carrying
  <2>2. QED
    BY <1>1, <2>1
<1>3. ASSUME NEW a \in Actors, TakeLock(a) \/ RecoverDma(a) \/ RecoverMem(a) \/ Claim(a) \/ Allocate(a) \/ Publish(a) \/
        MapBlock(a) \/ DmaStop(a) \/ Crash(a) \/ CrashInWrite(a) \/ Exit(a)
      PROVE PlanInv'
  <2>1. \A b \in Actors : pc'[b] \notin Planned
    BY <1>3, TakeLockDoes, RecoverDmaDoes, RecoverMemDoes, ClaimDoes, AllocateDoes, PublishDoes,
       MapBlockDoes, DmaStopDoes, CrashDoes, CrashInWriteDoes, ExitDoes DEF hardware, history,
       IInv, Holder, Types, PcType, Planned, Retuned, Carrying
  <2>2. QED
    BY <1>1, <2>1
<1>4. ASSUME NEW a \in Actors, StartDma(a) \/ StopDma(a) PROVE PlanInv'
  <2>1. \A b \in Actors \ {a} : pc'[b] \notin Planned
    BY <1>4 DEF StartDma, StopDma, At, Goto, IInv, Holder, Types, PcType, Planned, Retuned, Carrying
  <2>2. regs' = regs /\ pc[a] \in {"ready", "running"} /\ pc'[a] \in {"ready", "running"}
    BY <1>4 DEF StartDma, StopDma, At, Goto, IInv, Types, PcType
  <2>3. PlanAt(a)'
    BY <2>2 DEF PlanAt, PlanInv, IInv, Retuned, Carrying
  <2>4. QED
    BY <2>1, <2>3 DEF PlanInv, PlanAt, Planned
<1>5. ASSUME NEW a \in Actors, RecoverPlan(a) PROVE PlanInv'
  <2>1. CASE pc' = [pc EXCEPT ![a] = "recMem"]
    <3>1. \A b \in Actors : pc'[b] \notin Planned
      BY <1>5, <2>1, RecoverPlanDoes DEF IInv, Holder, Types, PcType, Planned, Retuned, Carrying
    <3>2. QED
      BY <3>1 DEF PlanInv, PlanAt, Planned
  <2>2. CASE pc' = [pc EXCEPT ![a] = "recClocks"] /\ todo' = [todo EXCEPT ![a] = RecoveryWrites] /\ tainted' = tainted /\ loose' = loose
    <3>1. \A b \in Actors \ {a} : pc'[b] \notin Planned
      BY <1>5, RecoverPlanDoes DEF IInv, Holder, Types, PcType, Planned, Retuned, Carrying
    <3>2. UNCHANGED <<file, regs, found>> /\ pc[a] = "recPlan"
      BY <1>5, RecoverPlanDoes DEF hardware
    <3>3. todo'[a] = RecoveryWrites /\ pc'[a] = "recClocks"
      BY <2>2 DEF IInv, Types, TreeType, Todo, PcType
    <3>4. \E u \in Trees : Leads(RecoveryWrites, regs, u, Level(loose, file.tree)) /\ (~tainted => u = found)
      BY <3>2, RecoveryPlan
    <3>5. Restores(a, file.tree)'
      BY <2>2, <3>2, <3>3, <3>4 DEF Restores
    <3>6. QED
      BY <3>1, <3>3, <3>5 DEF PlanInv, PlanAt, Planned, Retuned, Carrying
  <2>3. QED
    BY <1>5, <2>1, <2>2 DEF RecoverPlan, Skipped, Goto, RecoveryWrites, history
<1>6. ASSUME NEW a \in Actors, ClockWrite(a) PROVE PlanInv'
  <2>1. \A b \in Actors \ {a} : pc'[b] \notin Planned
    BY <1>6, ClockWriteDoes DEF IInv, Holder, Types, PcType, Planned, Retuned, Carrying
  <2>2. UNCHANGED <<file, rec, found, tainted, loose>>
    BY <1>6, ClockWriteDoes DEF history
  <2>3. CASE todo[a] = <<>>
    <3>1. regs' = regs /\ pc'[a] \notin Retuned \cup {"advance", "restore", "recClocks"}
      BY <1>6, <2>3, ClockWriteDoes DEF IInv, Types, PcType, Retuned
    <3>2. ASSUME pc[a] = "advance" PROVE Moved(regs)
      <4>1. PICK u \in Trees : Leads(<<>>, regs, u, Level(loose, rec[a].tree)) /\ Moved(u)
        BY <2>3, <3>2 DEF IInv, PlanInv, PlanAt
      <4>2. QED
        BY <4>1, PathNil DEF Leads
    <3>3. pc[a] \in Retuned => Moved(regs)
      BY DEF IInv, PlanInv, PlanAt
    <3>4. pc'[a] \in {"tune"} \cup Carrying => pc[a] \in {"advance"} \cup Retuned
      BY <1>6, <2>3, ClockWriteDoes DEF IInv, Types, PcType, Retuned, Carrying
    <3>5. PlanAt(a)'
      BY <3>1, <3>2, <3>3, <3>4 DEF PlanAt
    <3>6. QED
      BY <2>1, <3>5 DEF PlanInv, PlanAt, Planned
  <2>4. CASE todo[a] # <<>>
    <3>1. pc' = pc /\ todo'[a] = Tail(todo[a]) /\ pc[a] \in Retuned \cup {"advance", "restore", "recClocks"}
      BY <1>6, <2>4, ClockWriteDoes DEF IInv, Types, TreeType, Todo, Retuned
    <3>2. Following(a)
      BY <1>6, <2>4, Follows
    <3>3. ASSUME pc[a] \in Retuned PROVE PlanAt(a)'
      BY <2>2, <3>1, <3>2, <3>3 DEF Following, PlanAt, Retuned
    <3>4. ASSUME pc[a] = "advance" PROVE PlanAt(a)'
      BY <2>2, <3>1, <3>2, <3>4 DEF Following, PlanAt, Retuned, Carrying
    <3>5. ASSUME pc[a] \in {"restore", "recClocks"} PROVE PlanAt(a)'
      BY <2>2, <3>1, <3>2, <3>5 DEF Following, PlanAt, Restores, Retuned, Carrying
    <3>6. QED
      BY <2>1, <3>1, <3>3, <3>4, <3>5 DEF PlanInv, PlanAt, Planned
  <2>5. QED
    BY <2>3, <2>4
<1>7. ASSUME NEW a \in Actors, PinOff(a) PROVE PlanInv'
  <2>1. \A b \in Actors \ {a} : pc'[b] \notin Planned
    BY <1>7 DEF PinOff, At, Goto, IInv, Holder, Types, PcType, Planned, Retuned, Carrying
  <2>2. ASSUME todo' = [todo EXCEPT ![a] = AdvanceWrites(regs)] /\ pc' = [pc EXCEPT ![a] = "advance"]
       PROVE  PlanAt(a)'
    <3>1. UNCHANGED <<rec, regs, loose>>
      BY <1>7 DEF PinOff, history
    <3>2. todo'[a] = AdvanceWrites(regs) /\ pc'[a] = "advance"
      BY <2>2 DEF IInv, Types, TreeType, Todo, PcType
    <3>3. \E u \in Trees : Leads(AdvanceWrites(regs), regs, u, Level(loose, rec[a].tree)) /\ Moved(u)
      BY AdvancePlan
    <3>4. QED
      BY <3>1, <3>2, <3>3 DEF PlanAt, Retuned, Carrying
  <2>3. ASSUME pc' = [pc EXCEPT ![a] = "undo"] PROVE PlanAt(a)'
    BY <2>3 DEF PlanAt, Retuned, Carrying, IInv, Types, PcType
  <2>4. PlanAt(a)'
    BY <1>7, <2>2, <2>3 DEF PinOff, Goto
  <2>5. QED
    BY <2>1, <2>4 DEF PlanInv, PlanAt, Planned
<1>8. ASSUME NEW a \in Actors, Tune(a) PROVE PlanInv'
  <2>1. \A b \in Actors \ {a} : pc'[b] \notin Planned
    BY <1>8 DEF Tune, At, Goto, IInv, Holder, Types, PcType, Planned, Retuned, Carrying
  <2>2. ASSUME todo' = [todo EXCEPT ![a] = TuneWrites] /\ pc' = [pc EXCEPT ![a] = "tuned"]
       PROVE  PlanAt(a)'
    <3>1. regs' = regs /\ pc[a] = "tune"
      BY <1>8 DEF Tune, At, hardware
    <3>2. todo'[a] = TuneWrites /\ pc'[a] = "tuned"
      BY <2>2 DEF IInv, Types, TreeType, Todo, PcType
    <3>3. QED
      BY <3>1, <3>2, TunePlan DEF PlanAt, PlanInv, IInv, Retuned, Carrying
  <2>3. ASSUME pc' = [pc EXCEPT ![a] = "undo"] PROVE PlanAt(a)'
    BY <2>3 DEF PlanAt, Retuned, Carrying, IInv, Types, PcType
  <2>4. PlanAt(a)'
    BY <1>8, <2>2, <2>3 DEF Tune, Goto
  <2>5. QED
    BY <2>1, <2>4 DEF PlanInv, PlanAt, Planned
<1>9. ASSUME NEW a \in Actors, Retune(a) PROVE PlanInv'
  <2>1. \A b \in Actors \ {a} : pc'[b] \notin Planned
    BY <1>9 DEF Retune, At, Goto, IInv, Holder, Types, PcType, Planned, Retuned, Carrying
  <2>2. regs' = regs /\ pc[a] \in {"ready", "running"} /\ pc'[a] \in {"retune", "retuneTx"} /\ todo'[a] = TuneWrites
    BY <1>9 DEF Retune, At, Goto, hardware, IInv, Types, TreeType, Todo, PcType
  <2>3. PlanAt(a)'
    BY <2>2, TunePlan DEF PlanAt, PlanInv, IInv, Retuned, Carrying
  <2>4. QED
    BY <2>1, <2>3 DEF PlanInv, PlanAt, Planned
<1>10. ASSUME NEW a \in Actors, Close(a) PROVE PlanInv'
  <2>1. \A b \in Actors \ {a} : pc'[b] \notin Planned
    BY <1>10 DEF Close, At, Goto, IInv, Holder, Types, PcType, Planned, Retuned, Carrying
  <2>2. UNCHANGED <<rec, regs, found, tainted, loose>> /\ pc[a] \in {"ready", "undo"} /\ pc'[a] = "restore"
    BY <1>10 DEF Close, Goto, history, IInv, Types, PcType
  <2>3. todo'[a] = RestorePacing(rec[a].tree) \o RestoreTree(regs, rec[a].tree)
    BY <1>10 DEF Close, IInv, Types, TreeType, Todo
  <2>4. Restores(a, rec[a].tree)'
    BY <2>2, <2>3, ClosePlan DEF Restores
  <2>5. PlanAt(a)'
    BY <2>2, <2>4 DEF PlanAt, Retuned, Carrying
  <2>6. QED
    BY <2>1, <2>5 DEF PlanInv, PlanAt, Planned
<1>11. ASSUME NEW a \in Actors, SignalStop(a) PROVE PlanInv'
  <2>1. /\ UNCHANGED <<pc, todo, rec, file, found, tainted>> /\ regs' = [regs EXCEPT !.gp0.run = FALSE]
        /\ pc[a] \in Carrying
    BY <1>11 DEF SignalStop, Silence, HandlersInstalled, Carrying
  <2>2. \A b \in Actors : pc[b] \notin {"advance", "restore", "recClocks"}
    BY <2>1 DEF IInv, Holder, Carrying
  <2>3. Moved(regs) => Moved(regs')
    BY <2>1, Silenced DEF IInv, Types, TreeType
  <2>4. QED
    BY <2>1, <2>2, <2>3 DEF PlanAt, PlanInv, IInv
<1>12. ASSUME Environment \/ UNCHANGED vars PROVE PlanInv'
  <2>1. UNCHANGED <<file, rec, pc, todo, found, tainted, loose>>
    BY <1>12, OutsideDoes
  <2>2. CASE regs' = regs
    BY <2>1, <2>2 DEF IInv, PlanInv, PlanAt, Restores
  <2>3. CASE dma \in Handles /\ regs' = [regs EXCEPT !.ctrl = "tx"]
    <3>1. regs \in Trees /\ loose \in BOOLEAN
      BY DEF IInv, Types, TreeType, BookType
    <3>2. \A a \in Actors : pc[a] \notin {"advance", "restore"}
      BY <2>3 DEF IInv, RestInv, Resting
    <3>3. (Moved(regs) => Moved(regs')) /\ regs' \in Trees /\ regs'["gp0"] = regs["gp0"]
      BY <2>3, <3>1, Modulated DEF Generators
    <3>4. ASSUME NEW a \in Actors, pc[a] = "recClocks" PROVE Restores(a, file.tree)'
      <4>1. tainted
        BY <2>3, <3>4 DEF IInv, DmaInv, Holder
      <4>2. CASE loose
        <5>1. PICK u \in Trees : Leads(todo[a], regs, u, Any)
          BY <3>4, <4>2 DEF IInv, PlanInv, PlanAt, Restores, Level
        <5>2. PICK v \in Trees : Leads(todo[a], regs', v, Any)
          BY <2>3, <3>1, <5>1, ModulatedLeads
        <5>3. QED
          BY <2>1, <4>1, <4>2, <5>2 DEF Restores, Level
      <4>3. CASE ~loose
        <5>1. file.tree = NoTree
          BY <2>3, <3>4, <4>3 DEF IInv, EngineInv
        <5>2. todo[a] \in {<<>>, Stop("gp0", regs.gp0)}
          BY <3>4, <5>1 DEF IInv, StopInv
        <5>3. Fits(regs', NoTree)
          BY <1>12, <4>3, RegsFit DEF Level, Next
        <5>4. \E v \in Trees : Leads(todo[a], regs', v, NoTree)
          <6>1. CASE todo[a] = <<>>
            BY <3>3, <5>3, <6>1, Nothing
          <6>2. CASE todo[a] = Stop("gp0", regs.gp0)
            BY <3>3, <5>3, <6>2, Stopped DEF Generators
          <6>3. QED
            BY <5>2, <6>1, <6>2
        <5>5. QED
          BY <2>1, <4>1, <4>3, <5>1, <5>4 DEF Restores, Level
      <4>4. QED
        BY <3>1, <4>2, <4>3
    <3>5. ASSUME NEW a \in Actors PROVE PlanAt(a)'
      <4>1. pc'[a] \in Retuned => todo'[a] \in Seq(Retuning)
        BY <2>1 DEF IInv, PlanInv, PlanAt
      <4>2. pc'[a] \in {"tune"} \cup Retuned \cup Carrying => Moved(regs')
        BY <2>1, <3>3 DEF IInv, PlanInv, PlanAt
      <4>3. QED
        BY <2>1, <3>2, <3>4, <4>1, <4>2 DEF PlanAt
    <3>6. QED
      BY <3>5 DEF PlanInv
  <2>4. QED
    BY <1>12, <2>2, <2>3, OutsideDoes
<1>13. QED
  BY <1>2, <1>3, <1>4, <1>5, <1>6, <1>7, <1>8, <1>9, <1>10, <1>11, <1>12 DEF Next, Step, Death

LEMMA StopStep ==
  ASSUME IInv, [Next]_vars
  PROVE  StopInv'
<1>1. ASSUME NEW a \in Actors, TakeLock(a) PROVE StopInv'
  BY <1>1, SessionAssumption, TakeLockDoes DEF hardware, history, IInv, Types, RecordType,
     StopInv, Holder, PcType, Recovering, Published, Carrying
<1>2. ASSUME NEW a \in Actors, RecoverDma(a) PROVE StopInv'
  BY <1>2, SessionAssumption, RecoverDmaDoes DEF IInv, Types, RecordType, StopInv, Holder, PcType,
     Recovering, Published, Carrying
<1>3. ASSUME NEW a \in Actors, RecoverPins(a) \/ RecoverClear(a) \/ PinOff(a) \/ Tune(a) \/
        Retune(a) \/ StartDma(a) \/ StopDma(a) \/ Close(a) \/ FreeBlock(a) \/ ClearRecord(a)
      PROVE StopInv'
  BY <1>3, SessionAssumption DEF RecoverPins, At, Goto, hardware, history, Skipped, Recovering,
     Published, Carrying, RecoverClear, PinOff, Tune, Retune, StartDma, StopDma, Close, FreeBlock,
     ClearRecord, Actors, Types, Holder, PcType, IInv, StopInv
<1>4. ASSUME NEW a \in Actors, RecoverPlan(a) PROVE StopInv'
  <2>1. CASE pc' = [pc EXCEPT ![a] = "recMem"] /\ todo' = todo
    BY <1>4, <2>1, RecoverPlanDoes DEF hardware, IInv, Holder, Types, PcType, StopInv
  <2>2. CASE todo' = [todo EXCEPT ![a] = RecoveryWrites]
    <3>1. file.tree = NoTree => RecoveryWrites = Stop("gp0", regs.gp0)
      BY DEF RecoveryWrites, Stop
    <3>2. \A b \in Actors \ {a} : pc'[b] = "idle"
      BY <1>4, RecoverPlanDoes DEF IInv, Holder, Types, PcType
    <3>3. UNCHANGED <<file, regs>>
      BY <1>4, RecoverPlanDoes DEF hardware
    <3>4. todo'[a] = RecoveryWrites
      BY <2>2 DEF IInv, Types, TreeType, Todo
    <3>5. QED
      BY <3>1, <3>2, <3>3, <3>4 DEF StopInv
  <2>3. QED
    BY <1>4, <2>1, <2>2 DEF RecoverPlan, Skipped, Goto, RecoveryWrites
<1>5. ASSUME NEW a \in Actors, RecoverMem(a) PROVE StopInv'
  BY <1>5, SessionAssumption, RecoverMemDoes DEF IInv, Types, RecordType, StopInv, Holder, PcType,
     Recovering, Published, Carrying
<1>6. ASSUME NEW a \in Actors, ClockWrite(a) PROVE StopInv'
  <2>1. file' = file /\ \A b \in Actors \ {a} : pc'[b] = "idle"
    BY <1>6, ClockWriteDoes DEF IInv, Holder, Types, PcType
  <2>2. CASE todo[a] = <<>>
    BY <1>6, <2>1, <2>2, ClockWriteDoes DEF StopInv, IInv, Types, TreeType, Todo
  <2>3. CASE todo[a] # <<>>
    <3>1. pc' = pc /\ todo'[a] = Tail(todo[a])
      BY <1>6, <2>3, ClockWriteDoes DEF IInv, Types, TreeType, Todo
    <3>2. pc[a] = "recClocks" /\ file.tree = NoTree => Tail(todo[a]) = <<>>
      <4>1. \A w : Tail(<<w>>) = <<>>
        OBVIOUS
      <4>2. QED
        BY <2>3, <4>1 DEF IInv, StopInv, Stop
    <3>3. QED
      BY <2>1, <3>1, <3>2 DEF StopInv
  <2>4. QED
    BY <2>2, <2>3
<1>7. ASSUME NEW a \in Actors, Claim(a) PROVE StopInv'
  BY <1>7, SessionAssumption, ClaimDoes DEF hardware, history, IInv, Types, RecordType, StopInv,
     Holder, PcType, Recovering, Published, Carrying
<1>8. ASSUME NEW a \in Actors, Allocate(a) PROVE StopInv'
  BY <1>8, SessionAssumption, AllocateDoes DEF hardware, history, IInv, Types, RecordType,
     StopInv, Holder, PcType, Recovering, Published, Carrying
<1>9. ASSUME NEW a \in Actors, Publish(a) PROVE StopInv'
  BY <1>9, SessionAssumption, PublishDoes DEF hardware, history, IInv, Types, RecordType, StopInv,
     Holder, PcType, Recovering, Published, Carrying
<1>10. ASSUME NEW a \in Actors, MapBlock(a) PROVE StopInv'
  BY <1>10, SessionAssumption, MapBlockDoes DEF hardware, history, IInv, Types, RecordType,
     StopInv, Holder, PcType, Recovering, Published, Carrying
<1>11. ASSUME NEW a \in Actors, SaveClocks(a) PROVE StopInv'
  BY <1>11, SessionAssumption, SaveClocksDoes DEF hardware, history, IInv, Types, RecordType,
     StopInv, Holder, PcType, Recovering, Published, Carrying
<1>12. ASSUME NEW a \in Actors, DmaStop(a) PROVE StopInv'
  BY <1>12, SessionAssumption, DmaStopDoes DEF hardware, history, IInv, Types, RecordType,
     StopInv, Holder, PcType, Recovering, Published, Carrying
<1>13. ASSUME NEW a \in Actors, Unlock(a) PROVE StopInv'
  <2>1. \A b \in Actors : pc'[b] # "recClocks"
    BY <1>13 DEF Unlock, Ends, At, Goto, IInv, Holder, Types, PcType
  <2>2. QED
    BY <2>1 DEF StopInv
<1>14. ASSUME NEW a \in Actors, ToolReset(a) PROVE StopInv'
  <2>1. \A b \in Actors : pc'[b] # "recClocks"
    BY <1>14 DEF ToolReset, At, Goto, IInv, Holder, Types, PcType
  <2>2. QED
    BY <2>1 DEF StopInv
<1>15. ASSUME NEW a \in Actors, Crash(a) PROVE StopInv'
  BY <1>15, CrashDoes DEF StopInv
<1>16. ASSUME NEW a \in Actors, CrashInWrite(a) PROVE StopInv'
  BY <1>16, CrashInWriteDoes DEF StopInv
<1>17. ASSUME NEW a \in Actors, SignalStop(a) PROVE StopInv'
  <2>1. \A b \in Actors : pc'[b] # "recClocks"
    BY <1>17 DEF SignalStop, HandlersInstalled, IInv, Holder, Types, PcType
  <2>2. QED
    BY <2>1 DEF StopInv
<1>18. ASSUME NEW a \in Actors, Exit(a) PROVE StopInv'
  BY <1>18, ExitDoes DEF StopInv
<1>19. ASSUME Environment \/ UNCHANGED vars PROVE StopInv'
  <2>1. UNCHANGED <<file, pc, todo>> /\ (regs' = regs \/ regs' = [regs EXCEPT !.ctrl = "tx"]) /\ regs \in Trees
    BY <1>19, OutsideDoes DEF IInv, Types, TreeType
  <2>2. regs'["gp0"] = regs["gp0"]
    BY <2>1, Modulated DEF Generators
  <2>3. QED
    BY <2>1, <2>2 DEF IInv, StopInv, Stop
<1>20. QED
  BY <1>1, <1>2, <1>3, <1>4, <1>5, <1>6, <1>7, <1>8, <1>9, <1>10, <1>11, <1>12, <1>13, <1>14,
     <1>15, <1>16, <1>17, <1>18, <1>19 DEF Next, Step, Death

(* Only a session that starts it makes the channel run a block.             *)
LEMMA DmaMoves ==
  ASSUME IInv, [Next]_vars, dma' \in Handles
  PROVE  dma' = dma \/ \E a \in Actors : StartDma(a)
<1>1. "idle" \notin Handles /\ "other" \notin Handles
  BY SessionAssumption
<1>2. ASSUME NEW a \in Actors, Step(a), ~StartDma(a) PROVE dma' \in {dma, "idle"}
  <2>1. CASE RecoverDma(a)
    BY <2>1, RecoverDmaDoes
  <2>2. CASE MapBlock(a) \/ StopDma(a) \/ Close(a) \/ DmaStop(a) \/ ToolReset(a)
    BY <2>2 DEF MapBlock, StopDma, Close, DmaStop, ToolReset
  <2>3. CASE ~(RecoverDma(a) \/ MapBlock(a) \/ StopDma(a) \/ Close(a) \/ DmaStop(a) \/ ToolReset(a))
    BY <1>2, <2>3 DEF Step, TakeLock, RecoverPins, RecoverPlan, RecoverMem, RecoverClear, Skipped,
       ClockWrite, Claim, Allocate, Publish, SaveClocks, PinOff, Tune, Retune, FreeBlock, ClearRecord,
       Unlock, hardware
  <2>4. QED
    BY <2>1, <2>2, <2>3
<1>3. ASSUME NEW a \in Actors, Death(a) PROVE dma' \in {dma, "idle"}
  BY <1>3 DEF Death, Crash, CrashInWrite, SignalStop, Exit, Silence
<1>4. ASSUME Environment \/ UNCHANGED vars PROVE dma' \in {dma, "idle", "other"}
  BY <1>4, OutsideDoes
<1>5. QED
  BY <1>1, <1>2, <1>3, <1>4 DEF Next

(* While the engine runs no storage clock comes to PLLC.                    *)
LEMMA EngineGenerators ==
  ASSUME IInv, [Next]_vars, dma' \in Handles, ~loose'
  PROVE  \A g \in Generators \ {"gp0"} : regs'[g] # Gen("pllc", TRUE)
<1>1. ~loose /\ regs \in Trees
  BY LooseMoves DEF IInv, Types, TreeType, BookType
<1>2. CASE \E a \in Actors : StartDma(a)
  <2>1. regs' = regs /\ Moved(regs)
    BY <1>2 DEF StartDma, At, IInv, PlanInv, PlanAt, Carrying
  <2>2. QED
    BY <1>1, <2>1, MovedRuns DEF Moved
<1>3. CASE dma' = dma
  <2>1. /\ \A g \in Generators \ {"gp0"} : regs[g] # Gen("pllc", TRUE)
        /\ \A a \in Actors : pc[a] \notin Resting /\ (pc[a] = "recClocks" => file.tree = NoTree)
    BY <1>1, <1>3 DEF IInv, EngineInv, RestInv
  <2>2. CASE regs' = regs
    BY <2>1, <2>2
  <2>3. CASE regs' = [regs EXCEPT !.gp0.run = FALSE]
    <3>1. \A g \in Generators \ {"gp0"} : regs'[g] = regs[g]
      BY <1>1, <2>3, Silenced
    <3>2. QED
      BY <2>1, <3>1
  <2>4. CASE regs' = [regs EXCEPT !.ctrl = "tx"]
    BY <1>1, <2>1, <2>4, Modulated
  <2>5. ASSUME NEW a \in Actors, ClockWrite(a), todo[a] # <<>>
        PROVE  \A g \in Generators \ {"gp0"} : regs'[g] # Gen("pllc", TRUE)
    <3>1. regs' = Written(regs, Head(todo[a])) /\ pc[a] \in {"recClocks", "retuneTx"} /\ regs' \in Trees
      BY <2>1, <2>5, ClockWriteDoes, Follows DEF Resting, Following
    <3>2. CASE pc[a] = "recClocks"
      <4>1. todo[a] = Stop("gp0", regs.gp0) /\ todo[a] \in Seq(Writes)
        BY <2>1, <2>5, <3>2 DEF IInv, StopInv, Types, TreeType, Todo
      <4>2. Head(todo[a]) = W("gp0", Gen(regs.gp0.src, FALSE)) /\ Head(todo[a]) \in Writes
        <5>1. Head(todo[a]) \in Writes
          BY <2>5, <4>1, HeadTailProperties
        <5>2. \A x : Head(<<x>>) = x
          OBVIOUS
        <5>3. QED
          BY <4>1, <5>1, <5>2 DEF Stop
      <4>3. \A k \in Registers \ {"gp0"} : regs'[k] = regs[k]
        <5> DEFINE w == Head(todo[a])
        <5>1. w \in Writes /\ w[1] = "gp0" /\ regs' = Written(regs, w)
          BY <3>1, <4>2 DEF W
        <5> HIDE DEF w
        <5>2. QED
          BY <1>1, <5>1, WrittenTree DEF Registers
      <4>4. QED
        BY <2>1, <4>3 DEF Registers
    <3>3. CASE pc[a] = "retuneTx"
      <4>1. Moved(regs')
        BY <2>5, <3>3, Follows DEF Following, Retuned
      <4>2. QED
        BY <3>1, <4>1, MovedRuns DEF Moved
    <3>4. QED
      BY <3>1, <3>2, <3>3
  <2>6. QED
    BY <2>2, <2>3, <2>4, <2>5, RegsDo DEF RegsMoves
<1>4. QED
  BY <1>2, <1>3, DmaMoves

(* A record that is written while the engine runs has no tree.              *)
LEMMA RunningRecord ==
  ASSUME IInv, dma \in Handles, ~loose, NEW a \in Actors, pc[a] \in {"pubAlloc", "pubClocks", "pubFree"}
  PROVE  file.tree = NoTree /\ rec[a].tree = NoTree
<1>1. pc[a] # "pubClocks"
  BY DEF IInv, RestInv, Resting
<1>2. rec[a].tree = NoTree
  BY <1>1 DEF IInv, SavedInv, EngineInv
<1>3. file.tree \in {NoTree, rec[a].tree}
  BY DEF IInv, SavedInv, Recovering
<1>4. QED
  BY <1>2, <1>3

(* Who is in a recovery after its channel, has a release to record, or has  *)
(* a channel it has reset, was there before, or comes from there.           *)
LEMMA PlacesMove ==
  ASSUME IInv, [Next]_vars, NEW a \in Actors
  PROVE  /\ pc'[a] \in {"recPins", "recPlan", "recClocks", "recMem"} =>
              pc[a] \in {"recPins", "recPlan", "recClocks", "recMem"} \/ RecoverDma(a)
         /\ pc'[a] = "pubFree" =>
              \/ pc[a] = "pubFree" /\ rec'[a] = rec[a]
              \/ pc[a] = "map" /\ rec'[a].tree = rec[a].tree
              \/ pc[a] = "dmaStop"
         /\ pc'[a] \in Resting => pc[a] \in Resting \/ dma' = "idle"
<1> DEFINE On(p) == p \in {"recPins", "recPlan", "recClocks", "recMem"}
           Ok == /\ On(pc'[a]) => On(pc[a]) \/ RecoverDma(a)
                 /\ pc'[a] = "pubFree" =>
                      \/ pc[a] = "pubFree" /\ rec'[a] = rec[a]
                      \/ pc[a] = "map" /\ rec'[a].tree = rec[a].tree
                      \/ pc[a] = "dmaStop"
                 /\ pc'[a] \in Resting => pc[a] \in Resting \/ dma' = "idle"
<1>0. pc \in [Actors -> Places] /\ rec \in [Actors -> Records]
  BY DEF IInv, Types, PcType, RecordType
<1>1. ASSUME NEW b \in Actors, TakeLock(b) \/ RecoverPins(b) \/ RecoverClear(b) \/ PinOff(b) \/ Tune(b) \/
        Retune(b) \/ StartDma(b) \/ StopDma(b) \/ Close(b) \/ FreeBlock(b) \/ ClearRecord(b) \/
        Unlock(b) \/ ToolReset(b) \/ SignalStop(b)
      PROVE Ok
  <2>1. CASE TakeLock(b) \/ SignalStop(b)
    BY <1>0, <2>1, TakeLockDoes DEF SignalStop, Resting
  <2>2. CASE RecoverPins(b)
    BY <1>0, <2>2 DEF RecoverPins, Skipped, At, Goto, Resting
  <2>3. CASE RecoverClear(b) \/ ClearRecord(b) \/ PinOff(b) \/ Tune(b) \/ Retune(b) \/ StartDma(b)
    BY <1>0, <2>3 DEF RecoverClear, ClearRecord, PinOff, Tune, Retune, StartDma, At, Goto, Resting
  <2>4. CASE StopDma(b) \/ Close(b) \/ FreeBlock(b) \/ ToolReset(b)
    BY <1>0, <2>4 DEF StopDma, Close, FreeBlock, ToolReset, At, Goto, Resting
  <2>5. CASE Unlock(b)
    BY <1>0, <2>5 DEF Unlock, Ends, At, Goto, Resting
  <2>6. QED
    BY <1>1, <2>1, <2>2, <2>3, <2>4, <2>5
<1>2. ASSUME NEW b \in Actors, RecoverDma(b) \/ RecoverPlan(b) \/ RecoverMem(b) PROVE Ok
  <2>1. CASE RecoverDma(b)
    BY <1>0, <2>1, RecoverDmaDoes DEF Resting
  <2>2. CASE RecoverPlan(b)
    BY <1>0, <2>2, RecoverPlanDoes DEF Resting
  <2>3. CASE RecoverMem(b)
    BY <1>0, <2>3, RecoverMemDoes DEF Resting
  <2>4. QED
    BY <1>2, <2>1, <2>2, <2>3
<1>3. ASSUME NEW b \in Actors, ClockWrite(b) PROVE Ok
  BY <1>0, <1>3, ClockWriteDoes DEF Resting
<1>4. ASSUME NEW b \in Actors, Claim(b) \/ Allocate(b) \/ SaveClocks(b) PROVE Ok
  <2>1. CASE Claim(b)
    BY <1>0, <2>1, ClaimDoes DEF Resting
  <2>2. CASE Allocate(b)
    BY <1>0, <2>2, AllocateDoes DEF Resting
  <2>3. CASE SaveClocks(b)
    BY <1>0, <2>3, SaveClocksDoes DEF Resting
  <2>4. QED
    BY <1>4, <2>1, <2>2, <2>3
<1>5. ASSUME NEW b \in Actors, Publish(b) PROVE Ok
  BY <1>0, <1>5, PublishDoes DEF Resting
<1>6. ASSUME NEW b \in Actors, MapBlock(b) PROVE Ok
  BY <1>0, <1>6, MapBlockDoes DEF Resting
<1>7. ASSUME NEW b \in Actors, DmaStop(b) PROVE Ok
  BY <1>0, <1>7, DmaStopDoes DEF Resting
<1>8. ASSUME NEW b \in Actors, Crash(b) \/ CrashInWrite(b) \/ Exit(b) PROVE Ok
  <2>1. pc'[a] = "idle"
    BY <1>8, CrashDoes, CrashInWriteDoes, ExitDoes
  <2>2. QED
    BY <2>1 DEF Resting
<1>9. ASSUME Environment \/ UNCHANGED vars PROVE Ok
  BY <1>9, OutsideDoes
<1>10. Ok
  BY <1>1, <1>2, <1>3, <1>4, <1>5, <1>6, <1>7, <1>8, <1>9 DEF Next, Step, Death
<1>11. QED
  BY <1>10

LEMMA EngineStep ==
  ASSUME IInv, [Next]_vars
  PROVE  EngineInv'
<1> SUFFICES ASSUME dma' \in Handles, ~loose' PROVE EngineInv'
  BY DEF EngineInv
<1>1. ~loose
  BY LooseMoves
<1>2. \A g \in Generators \ {"gp0"} : regs'[g] # Gen("pllc", TRUE)
  BY EngineGenerators
<1> DEFINE On(p) == p \in {"recPins", "recPlan", "recClocks", "recMem"}
<1>3. ASSUME NEW a \in Actors, StartDma(a) PROVE EngineInv'
  <2>1. /\ pc[a] = "ready" /\ pc' = [pc EXCEPT ![a] = "running"] /\ dma' = rec[a].mem
        /\ UNCHANGED <<file, rec>>
    BY <1>3 DEF StartDma, At, Goto
  <2>2. \A b \in Actors \ {a} : pc[b] = "idle"
    BY <2>1 DEF IInv, Holder
  <2>3. file.tree # NoTree => file.chan /\ file.loc = rec[a].mem
    BY <2>1 DEF IInv, NamedTree, Carrying
  <2>4. \A b \in Actors : ~On(pc'[b]) /\ pc'[b] # "pubFree"
    BY <2>1, <2>2 DEF IInv, Types, PcType
  <2>5. QED
    BY <1>2, <2>1, <2>3, <2>4 DEF EngineInv
<1> SUFFICES ASSUME dma' = dma PROVE EngineInv'
  BY <1>3, DmaMoves
<1>4. /\ file.tree # NoTree => file.chan /\ file.loc = dma
      /\ \A a \in Actors : On(pc[a]) => file.tree = NoTree
      /\ \A a \in Actors : pc[a] = "pubFree" => rec[a].tree = NoTree
      /\ \A a \in Actors : pc[a] \notin Resting
  BY <1>1 DEF IInv, EngineInv, RestInv
<1>5. file' = file \/ file'.tree = NoTree
  <2>1. ASSUME NEW a \in Actors, Publish(a) \/ CrashInWrite(a) PROVE file'.tree = NoTree
    <3>1. pc[a] \in {"pubAlloc", "pubClocks", "pubFree"} /\ file'.tree \in {NoTree, file.tree, rec[a].tree}
      BY <2>1, PublishDoes, CrashInWriteDoes
    <3>2. QED
      BY <1>1, <3>1, RunningRecord
  <2>2. ASSUME NEW a \in Actors, RecoverClear(a) \/ ClearRecord(a) PROVE file'.tree = NoTree
    BY <2>2, BlankRecords DEF RecoverClear, ClearRecord
  <2>3. ASSUME NEW a \in Actors, Step(a), ~Publish(a), ~RecoverClear(a), ~ClearRecord(a) PROVE file' = file
    BY <2>3 DEF Step, TakeLock, RecoverDma, RecoverPins, RecoverPlan, RecoverMem, Skipped, RunsOn,
       ClockWrite, Claim, Allocate, MapBlock, SaveClocks, PinOff, Tune, Retune, StartDma, StopDma,
       Close, DmaStop, FreeBlock, Unlock, ToolReset
  <2>4. ASSUME NEW a \in Actors, Crash(a) \/ SignalStop(a) \/ Exit(a) PROVE file' = file
    BY <2>4 DEF Crash, SignalStop, Exit, Dies
  <2>5. ASSUME Environment \/ UNCHANGED vars PROVE file' = file
    BY <2>5, OutsideDoes
  <2>6. QED
    BY <2>1, <2>2, <2>3, <2>4, <2>5 DEF Next, Death
<1>6. ASSUME NEW a \in Actors, On(pc'[a]) PROVE file'.tree = NoTree
  <2>1. On(pc[a]) \/ RecoverDma(a)
    BY <1>6, PlacesMove
  <2>2. CASE RecoverDma(a)
    BY <1>4, <2>2, RecoverDmaDoes, SessionAssumption
  <2>3. QED
    BY <1>4, <1>5, <2>1, <2>2
<1>7. ASSUME NEW a \in Actors, pc'[a] = "pubFree" PROVE rec'[a].tree = NoTree
  <2>1. \/ pc[a] = "pubFree" /\ rec'[a] = rec[a]
        \/ pc[a] = "map" /\ rec'[a].tree = rec[a].tree
        \/ pc[a] = "dmaStop"
    BY <1>7, PlacesMove
  <2>2. pc[a] # "dmaStop" /\ (pc[a] = "map" => rec[a].tree = NoTree)
    BY <1>4 DEF Resting, IInv, SavedInv
  <2>3. QED
    BY <1>4, <2>1, <2>2
<1>8. QED
  BY <1>2, <1>4, <1>5, <1>6, <1>7 DEF EngineInv

(* Nothing starts the channel but StartDma(), and what follows its reset    *)
(* leaves it idle.                                                          *)
LEMMA RestStep ==
  ASSUME IInv, [Next]_vars
  PROVE  RestInv'
<1> SUFFICES ASSUME dma' \in Handles, NEW a \in Actors PROVE pc'[a] \notin Resting
  BY DEF RestInv
<1>0. pc \in [Actors -> Places] /\ "idle" \notin Handles
  BY SessionAssumption DEF IInv, Types, PcType
<1>1. ASSUME NEW b \in Actors, StartDma(b) PROVE pc'[a] \notin Resting
  <2>1. pc[b] = "ready" /\ pc' = [pc EXCEPT ![b] = "running"]
    BY <1>1 DEF StartDma, At, Goto
  <2>2. a # b => pc[a] = "idle"
    BY <2>1 DEF IInv, Holder
  <2>3. QED
    BY <1>0, <2>1, <2>2 DEF Resting
<1>2. CASE dma' = dma
  <2>1. \A b \in Actors : pc[b] \notin Resting
    BY <1>2 DEF IInv, RestInv
  <2>2. QED
    BY <1>0, <1>2, <2>1, PlacesMove
<1>3. QED
  BY <1>1, <1>2, DmaMoves

(* A tree comes on file with the block's record, which stays until the      *)
(* clocks are back.                                                         *)
LEMMA NamedTreeStep ==
  ASSUME IInv, [Next]_vars
  PROVE  NamedTree'
<1> DEFINE Open == {"pinOff", "advance", "tune", "tuned"} \cup Carrying
           Ok(a) == /\ pc'[a] = "pubClocks" => file'.tree = NoTree
                    /\ pc'[a] \in Open /\ file'.tree # NoTree => file'.chan /\ file'.loc = rec'[a].mem
<1> SUFFICES ASSUME NEW a \in Actors PROVE Ok(a)
  BY DEF NamedTree
<1>0. /\ pc \in [Actors -> Places] /\ rec \in [Actors -> Records]
      /\ pc[a] = "pubClocks" => file.tree = NoTree
      /\ pc[a] \in Open /\ file.tree # NoTree => file.chan /\ file.loc = rec[a].mem
  BY DEF IInv, Types, PcType, RecordType, NamedTree
<1>1. ASSUME NEW b \in Actors, Publish(b) PROVE Ok(a)
  <2>1. CASE pc[b] = "pubClocks"
    <3>1. pc' = [pc EXCEPT ![b] = "pinOff"] /\ rec' = rec /\ file.tree = NoTree
      BY <1>1, <2>1, PublishDoes DEF IInv, NamedTree
    <3>2. file'.tree # NoTree => file'.chan = rec[b].chan /\ file'.loc = rec[b].loc
      BY <1>1, <3>1, PublishDoes
    <3>3. rec[b].chan /\ rec[b].loc = rec[b].mem
      BY <2>1 DEF IInv, MemInv, Naming
    <3>4. a # b => pc[a] = "idle"
      BY <2>1 DEF IInv, Holder
    <3>5. QED
      BY <1>0, <3>1, <3>2, <3>3, <3>4 DEF Carrying
  <2>2. CASE pc[b] \in {"pubAlloc", "pubFree"}
    <3>1. a # b => pc[a] = "idle"
      BY <2>2 DEF IInv, Holder
    <3>2. pc'[a] \in {"idle", "map", "free"}
      BY <1>0, <1>1, <2>2, <3>1, PublishDoes
    <3>3. QED
      BY <3>2 DEF Carrying
  <2>3. QED
    BY <1>1, <2>1, <2>2, PublishDoes
<1>2. ASSUME NEW b \in Actors, TakeLock(b) \/ RecoverDma(b) \/ RecoverPins(b) \/ RecoverPlan(b) \/
        RecoverMem(b) \/ PinOff(b) \/ Tune(b) \/ Retune(b) \/ StartDma(b) \/ StopDma(b) \/
        Close(b) \/ FreeBlock(b) \/ ToolReset(b) \/ SignalStop(b)
      PROVE Ok(a)
  <2>1. UNCHANGED <<file, rec>>
    BY <1>2 DEF TakeLock, RecoverDma, Skipped, RunsOn, RecoverPins, RecoverPlan, RecoverMem,
       PinOff, Tune, Retune, StartDma, StopDma, Close, FreeBlock, ToolReset, SignalStop
  <2>2. CASE TakeLock(b) \/ RecoverDma(b) \/ RecoverPins(b) \/ RecoverPlan(b) \/ RecoverMem(b)
    <3>1. pc[b] \in {"idle", "recDma", "recPins", "recPlan", "recMem"}
      BY <2>2, TakeLockDoes, RecoverDmaDoes, RecoverPlanDoes, RecoverMemDoes DEF RecoverPins, Skipped, At
    <3>2. pc'[a] = pc[a] \/ pc'[a] \in {"recDma", "recPins", "recPlan", "recClocks", "recMem", "recClear"}
      <4>1. CASE TakeLock(b)
        BY <1>0, <4>1, TakeLockDoes
      <4>2. CASE RecoverDma(b)
        BY <1>0, <4>2, RecoverDmaDoes
      <4>3. CASE RecoverPins(b)
        BY <1>0, <4>3 DEF RecoverPins, Skipped, Goto
      <4>4. CASE RecoverPlan(b)
        BY <1>0, <4>4, RecoverPlanDoes
      <4>5. CASE RecoverMem(b)
        BY <1>0, <4>5, RecoverMemDoes
      <4>6. QED
        BY <2>2, <4>1, <4>2, <4>3, <4>4, <4>5
    <3>3. QED
      BY <1>0, <2>1, <3>2 DEF Carrying
  <2>3. CASE PinOff(b) \/ Tune(b) \/ Retune(b) \/ StartDma(b) \/ StopDma(b)
    <3>1. pc'[a] = pc[a] \/ (pc[a] \in Open /\ pc'[a] # "pubClocks")
      BY <1>0, <2>3 DEF PinOff, Tune, Retune, StartDma, StopDma, At, Goto, Carrying
    <3>2. QED
      BY <1>0, <2>1, <3>1
  <2>4. CASE Close(b) \/ FreeBlock(b) \/ ToolReset(b)
    <3>1. pc'[a] = pc[a] \/ pc'[a] \in {"restore", "clear"}
      BY <1>0, <2>4 DEF Close, FreeBlock, ToolReset, At, Goto
    <3>2. QED
      BY <1>0, <2>1, <3>1 DEF Carrying
  <2>5. CASE SignalStop(b)
    BY <1>0, <2>1, <2>5 DEF SignalStop
  <2>6. QED
    BY <1>2, <2>2, <2>3, <2>4, <2>5
<1>3. ASSUME NEW b \in Actors, ClockWrite(b) PROVE Ok(a)
  <2>1. UNCHANGED <<file, rec>>
    BY <1>3, ClockWriteDoes
  <2>2. \/ pc'[a] = pc[a] \/ pc'[a] \in {"recMem", "dmaStop"}
        \/ pc[a] \in Open /\ pc'[a] # "pubClocks"
    BY <1>0, <1>3, ClockWriteDoes DEF Carrying
  <2>3. QED
    BY <1>0, <2>1, <2>2 DEF Carrying
<1>4. ASSUME NEW b \in Actors, RecoverClear(b) \/ ClearRecord(b) PROVE Ok(a)
  BY <1>4, BlankRecords DEF RecoverClear, ClearRecord
<1>5. ASSUME NEW b \in Actors, Unlock(b) PROVE Ok(a)
  <2>1. pc[b] = "unlock" /\ pc' = [pc EXCEPT ![b] = "idle"]
    BY <1>5 DEF Unlock, Ends, At, Goto
  <2>2. pc'[a] = "idle"
    BY <1>0, <2>1 DEF IInv, Holder
  <2>3. QED
    BY <2>2 DEF Carrying
<1>6. ASSUME NEW b \in Actors, Claim(b) \/ Allocate(b) \/ MapBlock(b) \/ DmaStop(b) PROVE Ok(a)
  <2>1. pc'[b] \in {"alloc", "clear", "pubAlloc", "save", "pubFree"} /\ pc[b] # "idle"
        /\ \A c \in Actors \ {b} : pc'[c] = pc[c]
    <3>1. CASE Claim(b)
      BY <1>0, <3>1, ClaimDoes
    <3>2. CASE Allocate(b)
      BY <1>0, <3>2, AllocateDoes
    <3>3. CASE MapBlock(b)
      BY <1>0, <3>3, MapBlockDoes
    <3>4. CASE DmaStop(b)
      BY <1>0, <3>4, DmaStopDoes
    <3>5. QED
      BY <1>6, <3>1, <3>2, <3>3, <3>4
  <2>2. a # b => pc'[a] = "idle"
    BY <2>1 DEF IInv, Holder
  <2>3. QED
    BY <2>1, <2>2 DEF Carrying
<1>7. ASSUME NEW b \in Actors, SaveClocks(b) PROVE Ok(a)
  <2>1. pc[b] = "save" /\ file' = file /\ pc'[b] \in {"dmaStop", "pubClocks"}
        /\ \A c \in Actors \ {b} : pc'[c] = pc[c]
    BY <1>0, <1>7, SaveClocksDoes
  <2>2. file.tree = NoTree
    BY <2>1 DEF IInv, SavedInv, Recovering
  <2>3. QED
    BY <2>1, <2>2
<1>8. ASSUME NEW b \in Actors, Crash(b) \/ CrashInWrite(b) \/ Exit(b) PROVE Ok(a)
  <2>1. pc'[a] = "idle"
    BY <1>8, CrashDoes, CrashInWriteDoes, ExitDoes
  <2>2. QED
    BY <2>1 DEF Carrying
<1>9. ASSUME Environment \/ UNCHANGED vars PROVE Ok(a)
  BY <1>0, <1>9, OutsideDoes
<1>10. QED
  BY <1>1, <1>2, <1>3, <1>4, <1>5, <1>6, <1>7, <1>8, <1>9 DEF Next, Step, Death

-----------------------------------------------------------------------------
(* The theorems.                                                            *)

(* The first state: idle, blank and as found.                               *)
LEMMA InitMore ==
  ASSUME Init
  PROVE  /\ regs = found /\ found \in FoundTrees /\ found \in Trees
         /\ rec = [a \in Actors |-> Blank] /\ file = Empty
         /\ pc = [a \in Actors |-> "idle"] /\ ~tainted
         /\ FoundKept
<1>1. /\ regs = found /\ found \in FoundTrees /\ found \in Trees
      /\ rec = [a \in Actors |-> Blank] /\ file = Empty
      /\ pc = [a \in Actors |-> "idle"] /\ ~tainted
  BY SessionAssumption DEF Init
<1>2. FoundKept
  BY <1>1, FoundAssumption DEF FoundKept, Undisturbed
<1>3. QED
  BY <1>1, <1>2

LEMMA InitTypes ==
  ASSUME Init
  PROVE  Types
<1>1. BookType
  <2>1. crashes = 0 /\ 0 \in 0 .. MaxCrashes
    BY SessionAssumption DEF Init
  <2>2. QED
    BY <2>1, InitMore DEF Init, BookType
<1>2. PcType
  BY DEF Init, PcType, Places
<1>3. RecordType
  BY InitMore, BlankRecords DEF RecordType
<1>4. HardwareType
  BY DEF Init, HardwareType
<1>5. QuietType /\ TreeType
  BY InitMore, EmptySeq DEF Init, QuietType, TreeType, Todo
<1>6. QED
  BY <1>1, <1>2, <1>3, <1>4, <1>5 DEF Types

LEMMA InitIInv ==
  ASSUME Init
  PROVE  IInv
<1>1. \A a \in Actors : pc[a] = "idle" /\ rec[a] = Blank
  BY InitMore
<1>2. Types
  BY InitTypes
<1>3. Holder /\ Sessions
  BY <1>1 DEF Init, Holder, Sessions, Actors, Recovering
<1>4. RecKept
  BY <1>1, BlankRecords DEF RecKept
<1>5. MemInv
  BY <1>1, SessionAssumption DEF Init, MemInv, Naming, Published, Carrying
<1>6. FileInv
  BY <1>1 DEF FileInv, FileAt, Recovering, Published, Carrying
<1>7. NamedInv /\ DmaInv /\ OrphanInv /\ PinInv
  BY <1>1, BlankRecords, SessionAssumption DEF Init, NamedInv, DmaInv, OrphanInv, PinInv, Naming,
     Published, Carrying
<1>8. RegsInv /\ SavedInv /\ PlanInv /\ StopInv
  BY <1>1, InitMore, BlankRecords DEF RegsInv, SavedInv, PlanInv, PlanAt, StopInv, Published,
     Retuned, Carrying
<1>9. Fits(regs, NoTree) /\ Level(loose, NoTree) = NoTree
  BY InitMore, FoundAssumption DEF Init, Level, Fits, FedByModulated, Undisturbed, FoundKept
<1>10. FitInv
  BY <1>1, <1>9, InitMore, BlankRecords DEF FitInv
<1>11. RestInv /\ NamedTree /\ EngineInv
  BY <1>1, SessionAssumption DEF Init, RestInv, NamedTree, EngineInv, Carrying
<1>12. QED
  BY <1>2, <1>3, <1>4, <1>5, <1>6, <1>7, <1>8, <1>10, <1>11, InitMore DEF IInv

(* The invariant is inductive.                                              *)
LEMMA Stepping ==
  ASSUME IInv, [Next]_vars
  PROVE  IInv'
<1>1. Types'
  BY BookStep, PcStep, RecordStep, HardwareStep, QuietStep, TreeStep DEF Types
<1>2. QED
  BY <1>1, HolderStep, SessionsStep, RecStep, MemStep, FileStep, NamedStep, DmaStep, OrphanStep,
     PinStep, RegsStep, FitStep, SavedStep, PlanStep, StopStep, FoundStep, RestStep, NamedTreeStep,
     EngineStep DEF IInv

LEMMA Inductive == Spec => []IInv
<1>1. Init => IInv
  BY InitIInv
<1>2. IInv /\ [Next]_vars => IInv'
  BY Stepping
<1>3. QED
  BY <1>1, <1>2, PTL DEF Spec

(* Every variable keeps its type, for any number of drivers, tools, handles *)
(* and crashes (the state of SoapyRPITX_Session.cpp).                       *)
THEOREM SessionTypes == Spec => []TypeOK
<1>1. IInv => TypeOK
  BY DEF IInv, Types, BookType, PcType, RecordType, HardwareType, QuietType, TreeType, TypeOK
<1>2. QED
  BY <1>1, Inductive, PTL

(* The channel never runs control blocks in memory that is free or somebody *)
(* else's, whatever dies, and wherever (Session.cpp:313, ~dma()).           *)
THEOREM NoStray == Spec => []NoStrayDma
<1>1. IInv => NoStrayDma
  <2> SUFFICES ASSUME IInv, dma \in Handles, ~tainted PROVE mem[dma] \in Actors \cup {"orphan"}
    BY DEF NoStrayDma
  <2>1. CASE \E a \in Actors : pc[a] \in {"running", "retuneTx"} /\ dma = rec[a].mem
    BY <2>1 DEF IInv, MemInv, Naming, Published, Carrying
  <2>2. QED
    BY <2>1 DEF IInv, DmaInv
<1>2. QED
  BY <1>1, Inductive, PTL

(* Whatever block a dead process leaves behind is named by a record with    *)
(* its end marker, wherever the process died and whatever of a record it    *)
(* was writing stands over the old one, outside the places the              *)
(* documentation gives (PublishRecord(), Session::Write()).                 *)
THEOREM BlocksNamed == Spec => []OrphansNamed
<1>1. IInv => OrphansNamed
  BY DEF IInv, OrphanInv, OrphansNamed
<1>2. QED
  BY <1>1, Inductive, PTL

(* Free lock and empty record mean clocks and pin as they were found,       *)
(* however often a recovery or a restoration died half way                  *)
(* (Session.cpp:308).                                                       *)
THEOREM IdleOriginal == Spec => []IdleMeansOriginal
<1>1. IInv => IdleMeansOriginal
  <2> SUFFICES ASSUME IInv, lock = {}, file = Empty, ~tainted PROVE regs = found /\ pins = "orig"
    BY DEF IdleMeansOriginal
  <2>1. \A a \in Actors : pc[a] = "idle"
    BY DEF IInv, Holder
  <2>2. file.tree = NoTree /\ found # NoTree
    BY BlankRecords, SessionAssumption DEF IInv, Types, BookType
  <2>3. QED
    BY <2>1, <2>2 DEF IInv, RegsInv, PinInv, Carrying
<1>2. QED
  BY <1>1, Inductive, PTL

(* No processor or storage clock ever runs from a modulated PLLC: not       *)
(* between two register writes, not when a recovery restores the clocks     *)
(* from any point of any reprogramming, and not while the channel of a dead *)
(* process writes PLLC, unless a recovery could not reset it                *)
(* (gpio.cpp:595, Session.cpp:313).                                         *)
THEOREM StorageClocksSafe == Spec => []NeverModulated
<1>1. IInv => NeverModulated
  <2> SUFFICES ASSUME IInv, ~loose PROVE ~FedByModulated(regs)
    BY DEF NeverModulated
  <2>1. Fits(regs, Level(loose, file.tree)) /\ loose \in BOOLEAN /\ file.tree \in Trees \cup {NoTree}
    BY DEF IInv, FitInv, Types, BookType, RecordType, Records
  <2>2. Level(loose, file.tree) # Any
    BY <2>1, LevelKind
  <2>3. QED
    BY <2>1, <2>2 DEF Fits
<1>2. QED
  BY <1>1, Inductive, PTL

(* No generator but the VPU's changes its source while it runs              *)
(* (gpio.cpp:77).                                                           *)
THEOREM SwitchStopped == Spec => SwitchedStopped
<1>1. IInv /\ [Next]_vars => [\A g \in Generators \ {"vpu"} :
                               regs'[g].src # regs[g].src => ~regs[g].run /\ ~regs'[g].run]_regs
  BY RegsLegal DEF Legal
<1>2. QED
  BY <1>1, Inductive, PTL DEF Spec, SwitchedStopped

(* A block of another VideoCore client is left alone.                       *)
Foreign == \A h \in Handles : mem[h] = "other" /\ ~tainted => mem'[h] = "other"

(* The recovery frees what is an orphan, and nobody else can have taken     *)
(* that.                                                                    *)
LEMMA ForeignStep ==
  ASSUME IInv, [Next]_vars, CrashAfterFree = FALSE
  PROVE  Foreign
<1>1. ASSUME NEW a \in Actors, TakeLock(a) \/ RecoverDma(a) \/ RecoverPins(a) \/
        RecoverClear(a) \/ Claim(a) \/ Allocate(a) \/ Publish(a) \/ MapBlock(a) \/
        SaveClocks(a) \/ PinOff(a) \/ Tune(a) \/ Retune(a) \/ StartDma(a) \/ StopDma(a) \/
        Close(a) \/ DmaStop(a) \/ FreeBlock(a) \/ ClearRecord(a) \/ Unlock(a) \/
        ToolReset(a) \/ SignalStop(a)
      PROVE Foreign
  BY <1>1, SessionAssumption DEF TakeLock, At, Goto, hardware, history, RecoverDma, Skipped, RunsOn,
     RecoverPins, RecoverClear, Claim, Allocate, Publish, MapBlock, SaveClocks, PinOff, Tune,
     Retune, StartDma, StopDma, Close, DmaStop, FreeBlock, ClearRecord, Unlock, Ends, ToolReset,
     SignalStop, Silence, IInv, Types, HardwareType, Foreign
<1>2. ASSUME NEW a \in Actors, RecoverPlan(a) PROVE Foreign
  BY <1>2, RecoverPlanDoes DEF hardware, Foreign
<1>3. ASSUME NEW a \in Actors, RecoverMem(a) PROVE Foreign
  <2>1. \/ mem' = mem
        \/ file.end /\ file.mem # "none" /\ mem' = [mem EXCEPT ![file.mem] = "free"]
    BY <1>3 DEF RecoverMem
  <2>2. ~tainted /\ file.end /\ file.mem # "none" => mem[file.mem] = "orphan"
    BY <1>3, RecoverMemDoes DEF IInv, Holder, NamedInv, Recovering
  <2>3. QED
    BY <2>1, <2>2 DEF IInv, Types, HardwareType, Foreign
<1>4. ASSUME NEW a \in Actors, ClockWrite(a) PROVE Foreign
  BY <1>4, ClockWriteDoes DEF Foreign
<1>5. ASSUME NEW a \in Actors, Crash(a) PROVE Foreign
  BY <1>5, SessionAssumption, CrashDoes DEF Foreign
<1>6. ASSUME NEW a \in Actors, CrashInWrite(a) PROVE Foreign
  BY <1>6, SessionAssumption, CrashInWriteDoes DEF Foreign
<1>7. ASSUME NEW a \in Actors, Exit(a) PROVE Foreign
  BY <1>7, SessionAssumption, ExitDoes DEF Foreign
<1>8. ASSUME Environment \/ UNCHANGED vars PROVE Foreign
  BY <1>8, SessionAssumption, OutsideDoes DEF IInv, Types, HardwareType, Foreign
<1>9. QED
  BY <1>1, <1>2, <1>3, <1>4, <1>5, <1>6, <1>7, <1>8 DEF Next, Step, Death

(* When a recovery does not die between giving the block back and clearing  *)
(* the record, no step frees a block another VideoCore client has allocated *)
(* (Session.cpp:403, dma.cpp:160).                                          *)
THEOREM ForeignKept ==
  ASSUME CrashAfterFree = FALSE
  PROVE  Spec => NeverFreesForeign
<1>1. IInv /\ [Next]_vars => [\A h \in Handles : mem[h] = "other" /\ ~tainted => mem'[h] = "other"]_mem
  BY ForeignStep DEF Foreign
<1>2. QED
  BY <1>1, Inductive, PTL DEF Spec, NeverFreesForeign

=============================================================================
