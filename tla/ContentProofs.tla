---------------------------- MODULE ContentProofs ----------------------------
(***************************************************************************)
(* Theorems about what a world is made of.  The config files of its mods:  *)
(* what operators choose is stored for the settings they saw, and a merge  *)
(* sets that and nothing else.  Versions: the comparisons order what the   *)
(* catalogues publish.  Packs: what is exported and imported.              *)
(* Resolutions: what is listed for a mod that is installed.  Each for any  *)
(* number of files, lines, settings, versions, mods and requests.          *)
(***************************************************************************)
EXTENDS BepInEx, Versions, Packs, Dependencies, FiniteSetTheorems, SequenceTheorems, WellFoundedInduction, TLAPS


-----------------------------------------------------------------------------
(* Config files: what is read and written line by line                      *)

(* Induction over the lines of a text.                                      *)
LEMMA UpTo ==
  ASSUME NEW n \in Nat, NEW S, 0 \in S,
         \A i \in 0 .. n : i < n /\ i \in S => i + 1 \in S
  PROVE  0 .. n \subseteq S
<1> DEFINE R == OpToRel(<, Nat)
           T == {i \in 0 .. n : i \notin S}
<1>1. IsWellFoundedOn(R, Nat)
  BY NatLessThanWellFounded
<1>2. \A i, j \in Nat : i < j => <<i, j>> \in R
  BY DEF OpToRel
<1>3. ASSUME T # {} PROVE FALSE
  <2>1. T \subseteq Nat
    OBVIOUS
  <2> HIDE DEF R
  <2>2. PICK x \in T : \A y \in T : ~ (<<y, x>> \in R)
    BY <1>1, <1>3, <2>1, WFMin
  <2>3. x \in 0 .. n /\ x \notin S /\ x # 0
    OBVIOUS
  <2>4. x - 1 \in 0 .. n /\ x - 1 < n /\ x - 1 < x /\ (x - 1) + 1 = x
    BY <2>3
  <2>5. x - 1 \notin T
    BY <1>2, <2>1, <2>2, <2>4
  <2>6. x - 1 \in S
    BY <2>4, <2>5
  <2> QED
    BY <2>3, <2>4, <2>6
<1> QED
  BY <1>3

(* What a loop over numbered steps computes is defined.                     *)
Computes(n, A, base, step) ==
  \E g \in [0 .. n -> A] : g[0] = base /\ \A i \in 1 .. n : g[i] = step[<<i, g[i - 1]>>]
LEMMA Loops ==
  ASSUME NEW n \in Nat, NEW A, NEW base \in A, NEW step \in [(1 .. n) \X A -> A]
  PROVE  Computes(n, A, base, step)
<1> DEFINE Good(m, g) == g[0] = base /\ \A i \in 1 .. m : g[i] = step[<<i, g[i - 1]>>]
           S == {m \in 0 .. n : \E g \in [0 .. m -> A] : Good(m, g)}
<1>1. 0 \in S
  <2> DEFINE g0 == [i \in 0 .. 0 |-> base]
  <2>1. g0 \in [0 .. 0 -> A] /\ Good(0, g0)
    OBVIOUS
  <2> HIDE DEF g0, Good
  <2>2. \E g \in [0 .. 0 -> A] : Good(0, g)
    BY <2>1
  <2> QED
    BY <2>2
<1>2. ASSUME NEW m \in 0 .. n, m < n, m \in S PROVE m + 1 \in S
  <2>1. PICK g \in [0 .. m -> A] : Good(m, g)
    BY <1>2
  <2> DEFINE h == [i \in 0 .. m + 1 |-> IF i = m + 1 THEN step[<<m + 1, g[m]>>] ELSE g[i]]
  <2>2. g[m] \in A /\ m + 1 \in 1 .. n
    BY <1>2
  <2>3. step[<<m + 1, g[m]>>] \in A
    BY <2>2
  <2>4. h \in [0 .. m + 1 -> A]
    BY <2>3
  <2>5. h[0] = base
    BY <2>1
  <2>6. ASSUME NEW i \in 1 .. m + 1 PROVE h[i] = step[<<i, h[i - 1]>>]
    <3>1. i - 1 \in 0 .. m /\ h[i - 1] = g[i - 1]
      OBVIOUS
    <3>2. CASE i = m + 1
      <4>1. i - 1 = m /\ h[i] = step[<<m + 1, g[m]>>]
        BY <3>2
      <4> HIDE DEF h
      <4> QED
        BY <3>1, <3>2, <4>1
    <3>3. CASE i # m + 1
      BY <2>1, <3>1, <3>3
    <3> QED
      BY <3>2, <3>3
  <2>7. Good(m + 1, h)
    BY <2>5, <2>6
  <2> HIDE DEF h, Good
  <2> QED
    BY <2>2, <2>4, <2>7
<1> HIDE DEF S
<1>3. n \in S
  BY <1>1, <1>2, UpTo
<1> QED
  BY <1>3 DEF S, Computes

-----------------------------------------------------------------------------
(* Reading a file                                                           *)

SettingsRead == [key : SettingKeys, value : CfgValues, default : CfgValues \cup {0}, line : Nat]
Readings ==
  [section : Sections \cup {0}, sections : SUBSET Sections, default : CfgValues \cup {0},
   settings : Seq(SettingsRead), parsable : BOOLEAN]

LEMMA LineKinds ==
  ASSUME NEW l \in CfgLines
  PROVE  \/ l = <<"blank">> \/ l = <<"junk">>
         \/ l[1] = "comment" /\ l[2] \in CfgValues
         \/ IsHeader(l) /\ l[2] \in Sections
         \/ l[1] = "entry" /\ l[2] \in Keys /\ l[3] \in CfgValues
  BY DEF CfgLines, IsHeader

LEMMA LineRead ==
  ASSUME NEW f \in Readings, NEW l \in CfgLines, NEW i \in Nat
  PROVE  ParseLine(f, l, i) \in Readings
<1>1. CASE l = <<"blank">>
  <2>1. l[1] = "blank"
    BY <1>1
  <2> QED
    BY <2>1 DEF ParseLine, IsHeader
<1>2. CASE l = <<"junk">>
  <2>1. l[1] = "junk"
    BY <1>2
  <2>2. ParseLine(f, l, i) = [f EXCEPT !.default = 0, !.parsable = FALSE]
    BY <2>1 DEF ParseLine, IsHeader
  <2> QED
    BY <2>2 DEF Readings
<1>3. CASE l[1] = "comment" /\ l[2] \in CfgValues
  <2>1. ParseLine(f, l, i) = [f EXCEPT !.default = l[2]]
    BY <1>3 DEF ParseLine, IsHeader
  <2> QED
    BY <1>3, <2>1 DEF Readings
<1>4. CASE IsHeader(l) /\ l[2] \in Sections
  BY <1>4 DEF ParseLine, IsHeader, Readings
<1>5. CASE l[1] = "entry" /\ l[2] \in Keys /\ l[3] \in CfgValues
  <2> DEFINE s == [key |-> <<f.section, l[2]>>, value |-> l[3], default |-> f.default, line |-> i]
  <2>1. CASE f.section # 0
    <3>1. s \in SettingsRead
      BY <1>5, <2>1 DEF SettingsRead, SettingKeys, Readings
    <3>2. Append(f.settings, s) \in Seq(SettingsRead)
      BY <3>1 DEF Readings
    <3>3. ParseLine(f, l, i) = [f EXCEPT !.settings = Append(@, s), !.default = 0]
      BY <1>5, <2>1 DEF ParseLine, IsHeader
    <3> HIDE DEF s
    <3> QED
      BY <3>2, <3>3 DEF Readings
  <2>2. CASE f.section = 0
    BY <1>5, <2>2 DEF ParseLine, IsHeader, Readings
  <2> QED
    BY <2>1, <2>2
<1> QED
  BY <1>1, <1>2, <1>3, <1>4, <1>5, LineKinds

LEMMA NothingIsRead == NothingRead \in Readings
  BY DEF NothingRead, Readings

LEMMA ReadingIs ==
  ASSUME NEW lines \in Texts
  PROVE  /\ Reading(lines) \in [0 .. Len(lines) -> Readings]
         /\ Reading(lines)[0] = NothingRead
         /\ \A i \in 1 .. Len(lines) : Reading(lines)[i] = ParseLine(Reading(lines)[i - 1], lines[i], i)
<1> DEFINE n == Len(lines)
           step == [x \in (1 .. n) \X Readings |-> ParseLine(x[2], lines[x[1]], x[1])]
           Def(g) == g = [i \in 0 .. n |-> IF i = 0 THEN NothingRead ELSE ParseLine(g[i - 1], lines[i], i)]
<1>1. n \in Nat /\ \A i \in 1 .. n : lines[i] \in CfgLines
  BY DEF Texts
<1>2. step \in [(1 .. n) \X Readings -> Readings]
  <2>1. ASSUME NEW x \in (1 .. n) \X Readings PROVE ParseLine(x[2], lines[x[1]], x[1]) \in Readings
    BY <1>1, LineRead
  <2> QED
    BY <2>1
<1> HIDE DEF n
<1>3. PICK g \in [0 .. n -> Readings] : g[0] = NothingRead /\ \A i \in 1 .. n : g[i] = step[<<i, g[i - 1]>>]
  <2> HIDE DEF step, Def
  <2>1. n \in Nat
    BY <1>1
  <2>2. NothingRead \in Readings
    BY NothingIsRead
  <2> QED
    <3>1. Computes(n, Readings, NothingRead, step)
      BY <1>2, <2>1, <2>2, Loops
    <3> QED
      BY <3>1 DEF Computes
<1>4. \A i \in 1 .. n : g[i] = ParseLine(g[i - 1], lines[i], i)
  <2> TAKE i \in 1 .. n
  <2>1. i - 1 \in 0 .. n
    BY <1>1
  <2>2. <<i, g[i - 1]>> \in (1 .. n) \X Readings
    BY <1>3, <2>1
  <2> QED
    BY <1>3, <2>2
<1>5. Def(g)
  BY <1>3, <1>4, <1>1
<1>6. Reading(lines) = CHOOSE h : Def(h)
  BY DEF Reading, n
<1>7. Def(Reading(lines))
  <2> HIDE DEF Def
  <2> QED
    BY <1>5, <1>6
<1>8. \A i \in 0 .. n : Reading(lines)[i] = IF i = 0 THEN NothingRead ELSE ParseLine(Reading(lines)[i - 1], lines[i], i)
  BY <1>7
<1>9. DOMAIN Reading(lines) = 0 .. n
  BY <1>7
<1> DEFINE S == {i \in 0 .. n : Reading(lines)[i] \in Readings}
<1>10. 0 \in S
  BY <1>8, <1>1, NothingIsRead
<1>11. ASSUME NEW i \in 0 .. n, i < n, i \in S PROVE i + 1 \in S
  <2>1. i + 1 \in 1 .. n /\ (i + 1) - 1 = i
    BY <1>1, <1>11
  <2>2. Reading(lines)[i + 1] = ParseLine(Reading(lines)[i], lines[i + 1], i + 1)
    BY <1>8, <2>1
  <2>3. ParseLine(Reading(lines)[i], lines[i + 1], i + 1) \in Readings
    BY <1>1, <1>11, <2>1, LineRead
  <2> QED
    BY <2>1, <2>2, <2>3
<1> HIDE DEF S
<1>12. 0 .. n \subseteq S
  BY <1>1, <1>10, <1>11, UpTo
<1>13. Reading(lines) \in [0 .. n -> Readings]
  <2>1. \A i \in 0 .. n : Reading(lines)[i] \in Readings
    BY <1>12 DEF S
  <2>2. Reading(lines) = [i \in 0 .. n |-> Reading(lines)[i]]
    BY <1>7
  <2> QED
    BY <2>1, <2>2
<1> QED
  BY <1>1, <1>8, <1>13 DEF n

(* Every line is read the same whatever follows it.                         *)
LEMMA PrefixIsRead ==
  ASSUME NEW t \in Texts, NEW u \in Texts, Len(t) <= Len(u), \A i \in 1 .. Len(t) : u[i] = t[i]
  PROVE  \A i \in 0 .. Len(t) : Reading(u)[i] = Reading(t)[i]
<1> DEFINE S == {i \in 0 .. Len(t) : Reading(u)[i] = Reading(t)[i]}
<1>1. Len(t) \in Nat /\ Len(u) \in Nat
  BY DEF Texts
<1>2. 0 \in S
  BY <1>1, ReadingIs
<1>3. ASSUME NEW i \in 0 .. Len(t), i < Len(t), i \in S PROVE i + 1 \in S
  <2>1. i + 1 \in 1 .. Len(t) /\ i + 1 \in 1 .. Len(u) /\ (i + 1) - 1 = i
    BY <1>1, <1>3
  <2>2. /\ Reading(t)[i + 1] = ParseLine(Reading(t)[i], t[i + 1], i + 1)
        /\ Reading(u)[i + 1] = ParseLine(Reading(u)[i], u[i + 1], i + 1)
    BY <2>1, ReadingIs
  <2> QED
    BY <1>3, <2>1, <2>2
<1> HIDE DEF S
<1>4. 0 .. Len(t) \subseteq S
  BY <1>1, <1>2, <1>3, UpTo
<1> QED
  BY <1>4 DEF S

LEMMA FileIsRead ==
  ASSUME NEW t \in Texts
  PROVE  ParseConfigFile(t) \in Readings
<1>1. Len(t) \in 0 .. Len(t)
  BY DEF Texts
<1> QED
  BY <1>1, ReadingIs DEF ParseConfigFile

LEMMA OneLineMore ==
  ASSUME NEW t \in Texts, NEW l \in CfgLines
  PROVE  /\ Append(t, l) \in Texts
         /\ ParseConfigFile(Append(t, l)) = ParseLine(ParseConfigFile(t), l, Len(t) + 1)
<1> DEFINE u == Append(t, l)
<1>1. u \in Texts /\ Len(t) \in Nat /\ Len(u) = Len(t) + 1 /\ u[Len(t) + 1] = l /\ \A i \in 1 .. Len(t) : u[i] = t[i]
  BY DEF Texts
<1> HIDE DEF u
<1>2. Reading(u)[Len(t)] = Reading(t)[Len(t)]
  BY <1>1, PrefixIsRead
<1>3. Len(u) \in 1 .. Len(u) /\ Len(u) - 1 = Len(t)
  BY <1>1
<1>4. Reading(u)[Len(u)] = ParseLine(Reading(u)[Len(t)], u[Len(u)], Len(u))
  BY <1>1, <1>3, ReadingIs
<1>5. ParseConfigFile(u) = ParseLine(ParseConfigFile(t), l, Len(t) + 1)
  BY <1>1, <1>2, <1>4 DEF ParseConfigFile
<1> QED
  BY <1>1, <1>5 DEF u

LEMMA NothingParsed == <<>> \in Texts /\ ParseConfigFile(<<>>) = NothingRead
<1>1. <<>> \in Texts /\ Len(<<>>) = 0
  BY DEF Texts
<1> QED
  BY <1>1, ReadingIs DEF ParseConfigFile

-----------------------------------------------------------------------------
(* Numbers in their order                                                   *)

LEMMA MaxIsGreatest ==
  ASSUME NEW S \in SUBSET Nat, NEW n \in Nat, S # {}, \A y \in S : y <= n
  PROVE  Max(S) \in S /\ \A y \in S : y <= Max(S)
<1> DEFINE T == {i \in 0 .. n : \E y \in S : y >= i}
<1>1. ASSUME \A x \in S : \E y \in S : ~ (y <= x) PROVE FALSE
  <2>1. PICK z \in S : TRUE
    OBVIOUS
  <2>2. 0 \in T
    BY <2>1
  <2>3. ASSUME NEW i \in 0 .. n, i < n, i \in T PROVE i + 1 \in T
    <3>1. PICK x \in S : x >= i
      BY <2>3
    <3>2. PICK y \in S : ~ (y <= x)
      BY <1>1
    <3>3. y >= i + 1
      BY <3>1, <3>2
    <3> QED
      BY <2>3, <3>3
  <2> HIDE DEF T
  <2>4. 0 .. n \subseteq T
    BY <2>2, <2>3, UpTo
  <2>5. n \in T
    BY <2>4
  <2>6. PICK x \in S : x >= n
    BY <2>5 DEF T
  <2>7. PICK y \in S : ~ (y <= x)
    BY <1>1
  <2> QED
    BY <2>6, <2>7
<1>2. PICK x \in S : \A y \in S : y <= x
  BY <1>1
<1>3. \A y \in S : x >= y
  BY <1>2
<1>4. Max(S) \in S /\ \A y \in S : Max(S) >= y
  BY <1>3 DEF Max
<1> QED
  BY <1>4

LEMMA FiniteIsBounded ==
  ASSUME NEW N \in SUBSET Nat, IsFiniteSet(N)
  PROVE  \E n \in Nat : \A y \in N : y <= n
<1> DEFINE Sized(c) == {M \in SUBSET Nat : IsFiniteSet(M) /\ Cardinality(M) = c}
           S == {c \in Nat : \A M \in Sized(c) : \E n \in Nat : \A y \in M : y <= n}
<1>1. 0 \in S
  <2> SUFFICES ASSUME NEW M \in Sized(0) PROVE \E n \in Nat : \A y \in M : y <= n
    OBVIOUS
  <2>1. M = {}
    BY FS_EmptySet
  <2>2. \A y \in M : y <= 0
    BY <2>1
  <2> QED
    BY <2>2
<1>2. ASSUME NEW c \in Nat, c \in S PROVE c + 1 \in S
  <2> SUFFICES ASSUME NEW M \in Sized(c + 1) PROVE \E n \in Nat : \A y \in M : y <= n
    OBVIOUS
  <2>0. M \in SUBSET Nat /\ IsFiniteSet(M) /\ Cardinality(M) = c + 1
    OBVIOUS
  <2>a. M # {}
    <3>1. Cardinality(M) # 0
      BY <2>0
    <3> QED
      BY <3>1, FS_EmptySet
  <2>1. PICK x \in M : TRUE
    BY <2>a
  <2>2. M \ {x} \in SUBSET Nat /\ IsFiniteSet(M \ {x}) /\ Cardinality(M \ {x}) = c
    <3>1. IsFiniteSet(M \ {x}) /\ Cardinality(M \ {x}) = Cardinality(M) - 1
      BY <2>0, <2>1, FS_RemoveElement
    <3> QED
      BY <2>0, <3>1
  <2>3. PICK n \in Nat : \A y \in M \ {x} : y <= n
    BY <1>2, <2>2
  <2>4. x \in Nat /\ n + x \in Nat /\ \A y \in M : y \in Nat /\ y <= n + x
    BY <2>0, <2>1, <2>3
  <2> QED
    BY <2>4
<1> DEFINE n == Cardinality(N)
<1>3. n \in Nat
  BY FS_CardinalityType
<1> HIDE DEF S
<1>4. 0 .. n \subseteq S
  BY <1>1, <1>2, <1>3, UpTo
<1>5. n \in S
  BY <1>3, <1>4
<1>6. N \in Sized(n)
  OBVIOUS
<1> QED
  BY <1>5, <1>6 DEF S

Increasing(N, f) ==
  f \in [1 .. Cardinality(N) -> N] /\ \A i, j \in 1 .. Cardinality(N) : i < j => f[i] < f[j]

LEMMA AscendingExists ==
  ASSUME NEW N \in SUBSET Nat, IsFiniteSet(N)
  PROVE  \E f : Increasing(N, f)
<1> DEFINE Sized(c) == {M \in SUBSET Nat : IsFiniteSet(M) /\ Cardinality(M) = c}
           S == {c \in Nat : \A M \in Sized(c) : \E f : Increasing(M, f)}
<1>1. 0 \in S
  <2> SUFFICES ASSUME NEW M \in Sized(0) PROVE \E f : Increasing(M, f)
    OBVIOUS
  <2>1. M = {} /\ Cardinality(M) = 0
    BY FS_EmptySet
  <2>2. [i \in 1 .. 0 |-> 0] \in [1 .. Cardinality(M) -> M]
    BY <2>1
  <2>3. Increasing(M, [i \in 1 .. 0 |-> 0])
    BY <2>1, <2>2 DEF Increasing
  <2> QED
    BY <2>3
<1>2. ASSUME NEW c \in Nat, c \in S PROVE c + 1 \in S
  <2> SUFFICES ASSUME NEW M \in Sized(c + 1) PROVE \E f : Increasing(M, f)
    OBVIOUS
  <2>0. M \in SUBSET Nat /\ IsFiniteSet(M) /\ Cardinality(M) = c + 1
    OBVIOUS
  <2>1. M # {}
    <3>1. Cardinality(M) # 0
      BY <2>0
    <3> QED
      BY <3>1, FS_EmptySet
  <2>2. PICK n \in Nat : \A y \in M : y <= n
    BY <2>0, FiniteIsBounded
  <2> DEFINE x == Max(M)
             R == M \ {x}
  <2>3. x \in M /\ \A y \in M : y <= x
    BY <2>0, <2>1, <2>2, MaxIsGreatest
  <2> HIDE DEF x
  <2>4. R \in SUBSET Nat /\ IsFiniteSet(R) /\ Cardinality(R) = c
    <3>1. IsFiniteSet(M \ {x}) /\ Cardinality(M \ {x}) = Cardinality(M) - 1
      BY <2>0, <2>3, FS_RemoveElement
    <3>2. R \in SUBSET Nat
      BY <2>0
    <3>3. (c + 1) - 1 = c
      OBVIOUS
    <3> QED
      BY <2>0, <3>1, <3>2, <3>3
  <2>5. PICK g : Increasing(R, g)
    BY <1>2, <2>4
  <2> DEFINE f == [i \in 1 .. c + 1 |-> IF i = c + 1 THEN x ELSE g[i]]
  <2>6. g \in [1 .. c -> R] /\ \A i, j \in 1 .. c : i < j => g[i] < g[j]
    BY <2>4, <2>5 DEF Increasing
  <2>7. f \in [1 .. c + 1 -> M]
    BY <2>3, <2>6
  <2>8. ASSUME NEW i \in 1 .. c + 1, NEW j \in 1 .. c + 1, i < j PROVE f[i] < f[j]
    <3>1. i \in 1 .. c /\ f[i] = g[i] /\ g[i] \in R
      BY <2>6, <2>8
    <3>2. CASE j = c + 1
      <4>1. f[j] = x
        BY <3>2
      <4>2. g[i] <= x /\ g[i] # x /\ g[i] \in Nat /\ x \in Nat
        BY <2>0, <2>3, <3>1
      <4> QED
        BY <3>1, <4>1, <4>2
    <3>3. CASE j # c + 1
      <4>1. j \in 1 .. c /\ f[j] = g[j]
        BY <3>3
      <4> QED
        BY <2>6, <2>8, <3>1, <4>1
    <3> QED
      BY <3>2, <3>3
  <2>9. Increasing(M, f)
    BY <2>0, <2>7, <2>8 DEF Increasing
  <2> QED
    BY <2>9
<1> DEFINE n == Cardinality(N)
<1>3. n \in Nat
  BY FS_CardinalityType
<1> HIDE DEF S
<1>4. 0 .. n \subseteq S
  BY <1>1, <1>2, <1>3, UpTo
<1>5. n \in S
  BY <1>3, <1>4
<1>6. N \in Sized(n)
  OBVIOUS
<1> QED
  BY <1>5, <1>6 DEF S

(* An increasing function of as many numbers runs through them all.         *)
LEMMA IncreasingIsOnto ==
  ASSUME NEW N \in SUBSET Nat, IsFiniteSet(N), NEW c \in Nat, c = Cardinality(N),
         NEW a \in [1 .. c -> N], \A i, j \in 1 .. c : i < j => a[i] < a[j]
  PROVE  \A x \in N : \E i \in 1 .. c : a[i] = x
<1>1. \A i, j \in 1 .. c : a[i] = a[j] => i = j
  <2> TAKE i, j \in 1 .. c
  <2>1. a[i] \in Nat /\ a[j] \in Nat
    OBVIOUS
  <2>2. i < j \/ i = j \/ j < i
    OBVIOUS
  <2> QED
    BY <2>1, <2>2
<1>2. a \in Injection(1 .. c, N)
  BY <1>1 DEF Injection, IsInjective
<1>3. Cardinality(1 .. c) = c
  BY FS_Interval
<1>4. a \in Surjection(1 .. c, N)
  BY <1>2, <1>3, FS_Injection
<1> QED
  BY <1>4 DEF Surjection

(* Ascending runs through all the numbers of a set.                         *)
LEMMA AscendingIs ==
  ASSUME NEW N \in SUBSET Nat, IsFiniteSet(N)
  PROVE  /\ Ascending(N) \in Seq(N) /\ Len(Ascending(N)) = Cardinality(N) /\ Cardinality(N) \in Nat
         /\ DOMAIN Ascending(N) = 1 .. Cardinality(N)
         /\ \A x \in N : \E i \in 1 .. Cardinality(N) : Ascending(N)[i] = x
<1>1. Cardinality(N) \in Nat
  BY FS_CardinalityType
<1>2. Increasing(N, Ascending(N))
  <2>1. PICK f : Increasing(N, f)
    BY AscendingExists
  <2> QED
    BY <2>1 DEF Increasing, Ascending
<1>3. /\ Ascending(N) \in [1 .. Cardinality(N) -> N]
      /\ \A i, j \in 1 .. Cardinality(N) : i < j => Ascending(N)[i] < Ascending(N)[j]
  BY <1>2 DEF Increasing
<1>4. \A x \in N : \E i \in 1 .. Cardinality(N) : Ascending(N)[i] = x
  BY <1>1, <1>3, IncreasingIsOnto
<1> QED
  BY <1>1, <1>3, <1>4

LEMMA AscendingOfNone ==
  Len(Ascending({})) = 0
  BY AscendingIs, FS_EmptySet

-----------------------------------------------------------------------------
(* Override sets are read as they were written                              *)

IsOverrides(o) ==
  /\ DOMAIN o \subseteq SettingKeys /\ o = [k \in DOMAIN o |-> o[k]]
  /\ \A k \in DOMAIN o : o[k] \in CfgValues

(* What has been read says what the set says, and mentions the settings D.  *)
AgreesWith(p, o, D) ==
  /\ D \subseteq Declared(p)
  /\ \A i \in DOMAIN p.settings : p.settings[i].key \in DOMAIN o /\ p.settings[i].value = o[p.settings[i].key]

LEMMA HeaderRead ==
  ASSUME NEW p \in Readings, NEW o, NEW D, AgreesWith(p, o, D), NEW s \in Sections, NEW i
  PROVE  /\ ParseLine(p, Section(s), i).section = s
         /\ AgreesWith(ParseLine(p, Section(s), i), o, D)
         /\ Section(s) \in CfgLines
<1> DEFINE q == ParseLine(p, Section(s), i)
<1>1. Section(s)[1] = "section" /\ Section(s)[2] = s
  BY DEF Section
<1>2. q = [p EXCEPT !.section = Section(s)[2], !.sections = @ \cup {Section(s)[2]}, !.default = 0]
  BY <1>1 DEF ParseLine, IsHeader
<1>3. q.section = s /\ q.settings = p.settings
  BY <1>1, <1>2 DEF Readings
<1>4. Section(s) \in CfgLines
  BY DEF Section, CfgLines
<1> HIDE DEF q
<1>5. AgreesWith(q, o, D)
  BY <1>3 DEF AgreesWith, Declared
<1> QED
  BY <1>3, <1>4, <1>5 DEF q

LEMMA BlankRead ==
  ASSUME NEW p, NEW i
  PROVE  ParseLine(p, Blank, i) = p /\ Blank \in CfgLines
<1>1. Blank[1] = "blank"
  BY DEF Blank
<1> QED
  BY <1>1 DEF ParseLine, IsHeader, Blank, CfgLines

(* A line that sets what the set says.                                      *)
Sets(l, o, s) == \E k \in Keys : <<s, k>> \in DOMAIN o /\ l = Entry(k, o[<<s, k>>])

LEMMA EntryRead ==
  ASSUME NEW p \in Readings, NEW o, IsOverrides(o), NEW D, AgreesWith(p, o, D), p.section \in Sections,
         NEW l, Sets(l, o, p.section), NEW i \in Nat
  PROVE  /\ ParseLine(p, l, i).section = p.section
         /\ AgreesWith(ParseLine(p, l, i), o, D \cup {<<p.section, l[2]>>})
         /\ l \in CfgLines
<1> DEFINE q == ParseLine(p, l, i)
           s == p.section
<1>1. PICK k \in Keys : <<s, k>> \in DOMAIN o /\ l = Entry(k, o[<<s, k>>])
  BY DEF Sets
<1>2. l[1] = "entry" /\ l[2] = k /\ l[3] = o[<<s, k>>]
  BY <1>1 DEF Entry
<1>3. s # 0
  BY ConfigsAssumption
<1> DEFINE r == [key |-> <<p.section, l[2]>>, value |-> l[3], default |-> p.default, line |-> i]
<1>4. q = [p EXCEPT !.settings = Append(@, r), !.default = 0]
  BY <1>2, <1>3 DEF ParseLine, IsHeader
<1>5. o[<<s, k>>] \in CfgValues
  BY <1>1 DEF IsOverrides
<1>6. l \in CfgLines
  BY <1>1, <1>5 DEF Entry, CfgLines
<1>7. q.section = s /\ q.settings = Append(p.settings, r)
  <2> HIDE DEF r
  <2> QED
    BY <1>4 DEF Readings
<1>8. p.settings \in Seq(SettingsRead)
  BY DEF Readings
<1>9. /\ DOMAIN q.settings = DOMAIN p.settings \cup {Len(p.settings) + 1}
      /\ Len(p.settings) + 1 \notin DOMAIN p.settings
      /\ q.settings[Len(p.settings) + 1] = r
      /\ \A j \in DOMAIN p.settings : q.settings[j] = p.settings[j]
  <2> HIDE DEF r
  <2>1. Append(p.settings, r) = [j \in 1 .. Len(p.settings) + 1 |-> IF j <= Len(p.settings) THEN p.settings[j] ELSE r]
    BY <1>8
  <2>2. DOMAIN p.settings = 1 .. Len(p.settings) /\ Len(p.settings) \in Nat
    BY <1>8
  <2> QED
    BY <1>7, <2>1, <2>2
<1>10. r.key = <<s, l[2]>> /\ r.key \in DOMAIN o /\ r.value = o[r.key]
  BY <1>1, <1>2
<1> HIDE DEF q, r
<1>11. AgreesWith(q, o, D \cup {<<s, l[2]>>})
  <2>1. ASSUME NEW d \in D \cup {<<s, l[2]>>} PROVE d \in Declared(q)
    <3>1. CASE d \in D
      <4>1. PICK j \in DOMAIN p.settings : d = p.settings[j].key
        BY <3>1 DEF AgreesWith, Declared
      <4>2. j \in DOMAIN q.settings /\ d = q.settings[j].key
        BY <1>9, <4>1
      <4> QED
        BY <4>2 DEF Declared
    <3>2. CASE d = <<s, l[2]>>
      <4>1. Len(p.settings) + 1 \in DOMAIN q.settings /\ d = q.settings[Len(p.settings) + 1].key
        BY <1>9, <1>10, <3>2
      <4> QED
        BY <4>1 DEF Declared
    <3> QED
      BY <3>1, <3>2
  <2>2. ASSUME NEW j \in DOMAIN q.settings
        PROVE  q.settings[j].key \in DOMAIN o /\ q.settings[j].value = o[q.settings[j].key]
    BY <1>9, <1>10 DEF AgreesWith
  <2> QED
    BY <2>1, <2>2 DEF AgreesWith
<1> QED
  BY <1>6, <1>7, <1>11 DEF q

LEMMA OneEntryMore ==
  ASSUME NEW t \in Texts, NEW o, IsOverrides(o), NEW s \in Sections, ParseConfigFile(t).section = s,
         NEW D, AgreesWith(ParseConfigFile(t), o, D), NEW l, Sets(l, o, s)
  PROVE  /\ Append(t, l) \in Texts /\ ParseConfigFile(Append(t, l)).section = s
         /\ AgreesWith(ParseConfigFile(Append(t, l)), o, D \cup {<<s, l[2]>>})
<1>1. ParseConfigFile(t) \in Readings /\ Len(t) + 1 \in Nat
  BY FileIsRead DEF Texts
<1>2. /\ ParseLine(ParseConfigFile(t), l, Len(t) + 1).section = s
      /\ AgreesWith(ParseLine(ParseConfigFile(t), l, Len(t) + 1), o, D \cup {<<s, l[2]>>})
      /\ l \in CfgLines
  BY <1>1, EntryRead
<1> QED
  BY <1>2, OneLineMore

LEMMA AsFunction ==
  ASSUME NEW u \in Seq(CfgLines)
  PROVE  u = [i \in 1 .. Len(u) |-> u[i]]
  OBVIOUS

LEMMA Joined ==
  ASSUME NEW s \in Texts, NEW t \in Texts
  PROVE  s \o t = [i \in 1 .. Len(s) + Len(t) |-> IF i <= Len(s) THEN s[i] ELSE t[i - Len(s)]]
<1>1. s \in Seq(CfgLines) /\ t \in Seq(CfgLines)
  BY DEF Texts
<1>2. /\ s \o t \in Seq(CfgLines) /\ Len(s \o t) = Len(s) + Len(t)
      /\ \A i \in 1 .. Len(s) + Len(t) : (s \o t)[i] = IF i <= Len(s) THEN s[i] ELSE t[i - Len(s)]
  BY <1>1, ConcatProperties
<1>3. s \o t = [i \in 1 .. Len(s \o t) |-> (s \o t)[i]]
  BY <1>2, AsFunction
<1> QED
  BY <1>2, <1>3

LEMMA EntriesRead ==
  ASSUME NEW h \in Texts, NEW o, IsOverrides(o), NEW D, AgreesWith(ParseConfigFile(h), o, D),
         NEW s \in Sections, ParseConfigFile(h).section = s,
         NEW e \in Texts,
         \A j \in 1 .. Len(e) : Sets(e[j], o, s),
         NEW E, E = D \cup {<<s, e[j][2]>> : j \in 1 .. Len(e)}
  PROVE  /\ h \o e \in Texts
         /\ AgreesWith(ParseConfigFile(h \o e), o, E)
<1> DEFINE n == Len(e)
           m == Len(h)
           T(j) == [i \in 1 .. m + j |-> IF i <= m THEN h[i] ELSE e[i - m]]
           Good(j) == /\ T(j) \in Texts /\ ParseConfigFile(T(j)).section = s
                      /\ AgreesWith(ParseConfigFile(T(j)), o, D \cup {<<s, e[i][2]>> : i \in 1 .. j})
           S == {j \in 0 .. n : Good(j)}
<1>1. m \in Nat /\ n \in Nat /\ h = [i \in 1 .. m |-> h[i]]
  BY AsFunction DEF Texts
<1>2. T(0) = h
  BY <1>1
<1>3. 0 \in S
  <2>1. D \cup {<<s, e[i][2]>> : i \in 1 .. 0} = D
    OBVIOUS
  <2> HIDE DEF T
  <2>2. Good(0)
    BY <1>2, <2>1
  <2> HIDE DEF Good
  <2> QED
    BY <2>2
<1>4. ASSUME NEW j \in 0 .. n, j < n, j \in S PROVE j + 1 \in S
  <2> DEFINE F == D \cup {<<s, e[i][2]>> : i \in 1 .. j}
             l == e[j + 1]
  <2>1. T(j) \in Texts /\ ParseConfigFile(T(j)).section = s /\ AgreesWith(ParseConfigFile(T(j)), o, F) /\ Sets(l, o, s)
    BY <1>4
  <2> HIDE DEF F, T
  <2>4. /\ Append(T(j), l) \in Texts /\ ParseConfigFile(Append(T(j), l)).section = s
        /\ AgreesWith(ParseConfigFile(Append(T(j), l)), o, F \cup {<<s, l[2]>>})
    <3> HIDE DEF l
    <3> QED
      BY <2>1, OneEntryMore
  <2>5. Append(T(j), l) = T(j + 1)
    <3>1. T(j) \in Texts /\ Len(T(j)) = m + j /\ \A i \in 1 .. m + j : T(j)[i] = IF i <= m THEN h[i] ELSE e[i - m]
      BY <1>1, <2>1 DEF T, Texts
    <3>2. Append(T(j), l) = [i \in 1 .. (m + j) + 1 |-> IF i <= m + j THEN T(j)[i] ELSE l]
      BY <3>1 DEF Texts
    <3>3. m + (j + 1) = (m + j) + 1
      BY <1>1
    <3>4. \A i \in 1 .. (m + j) + 1 : (IF i <= m + j THEN T(j)[i] ELSE l) = IF i <= m THEN h[i] ELSE e[i - m]
      <4> TAKE i \in 1 .. (m + j) + 1
      <4>1. CASE i <= m + j
        BY <1>1, <3>1, <4>1
      <4>2. CASE ~ (i <= m + j)
        <5>1. i - m = j + 1 /\ ~ (i <= m)
          BY <1>1, <4>2
        <5> QED
          BY <4>2, <5>1
      <4> QED
        BY <4>1, <4>2
    <3>5. T(j + 1) = [i \in 1 .. (m + j) + 1 |-> IF i <= m THEN h[i] ELSE e[i - m]]
      BY <3>3 DEF T
    <3> HIDE DEF l
    <3> QED
      BY <3>2, <3>4, <3>5
  <2>6. F \cup {<<s, l[2]>>} = D \cup {<<s, e[i][2]>> : i \in 1 .. j + 1}
    BY DEF F
  <2>7. Good(j + 1)
    <3> HIDE DEF l
    <3> QED
      BY <2>4, <2>5, <2>6
  <2> HIDE DEF Good
  <2> QED
    BY <1>4, <2>7
<1> HIDE DEF S
<1>5. 0 .. n \subseteq S
  <2> HIDE DEF n
  <2> QED
    BY <1>1, <1>3, <1>4, UpTo
<1>6. Good(n)
  <2>1. n \in S
    BY <1>1, <1>5
  <2> HIDE DEF Good
  <2> QED
    BY <2>1 DEF S
<1>7. h \o e = T(n)
  BY Joined
<1> HIDE DEF T
<1>8. E = D \cup {<<s, e[i][2]>> : i \in 1 .. n}
  OBVIOUS
<1> QED
  BY <1>6, <1>7, <1>8

(* The lines of one section, and all its settings.                          *)
EntriesFor(e, o, K, s) ==
  /\ e \in Texts
  /\ \A j \in 1 .. Len(e) : Sets(e[j], o, s) /\ <<s, e[j][2]>> \in K
  /\ \A k : <<s, k>> \in K => \E j \in 1 .. Len(e) : e[j][2] = k
LEMMA EntriesAre ==
  ASSUME NEW o, IsOverrides(o), NEW K \in SUBSET DOMAIN o, NEW s \in Sections
  PROVE  EntriesFor(Entries(o, K, s), o, K, s)
<1> DEFINE N == {k[2] : k \in {j \in K : j[1] = s}}
           names == NamesOf(K, s)
           e == Entries(o, K, s)
           n == Cardinality(N)
<1>1. N \in SUBSET Keys
  BY DEF IsOverrides, SettingKeys
<1>2. N \in SUBSET Nat /\ IsFiniteSet(N)
  BY <1>1, ConfigsAssumption, FS_Subset
<1>3. names = Ascending(N)
  BY DEF NamesOf
<1> HIDE DEF N
<1>4. /\ names \in Seq(N) /\ n \in Nat /\ DOMAIN names = 1 .. n
      /\ \A x \in N : \E i \in 1 .. n : names[i] = x
  BY <1>2, <1>3, AscendingIs
<1>5. e = [i \in 1 .. n |-> Entry(names[i], o[<<s, names[i]>>])]
  BY <1>4 DEF Entries
<1> HIDE DEF names, n, e
<1>6. ASSUME NEW i \in 1 .. n PROVE names[i] \in Keys /\ <<s, names[i]>> \in K
  <2>1. names[i] \in N
    BY <1>4
  <2>2. \A x \in N : <<s, x>> \in K
    BY DEF N, IsOverrides, SettingKeys
  <2> QED
    BY <1>1, <2>1, <2>2
<1>7. ASSUME NEW i \in 1 .. n PROVE e[i] \in CfgLines /\ Sets(e[i], o, s) /\ e[i][2] = names[i] /\ <<s, e[i][2]>> \in K
  <2>1. e[i] = Entry(names[i], o[<<s, names[i]>>])
    BY <1>5
  <2>2. o[<<s, names[i]>>] \in CfgValues /\ <<s, names[i]>> \in DOMAIN o
    BY <1>6 DEF IsOverrides
  <2> QED
    BY <1>6, <2>1, <2>2 DEF Sets, Entry, CfgLines
<1>8. e \in Texts /\ Len(e) = n
  <2>1. e \in [1 .. n -> CfgLines]
    BY <1>5, <1>7
  <2> QED
    BY <1>4, <2>1 DEF Texts
<1>9. ASSUME NEW k, <<s, k>> \in K PROVE \E j \in 1 .. n : e[j][2] = k
  <2>1. k \in N
    BY <1>9 DEF N
  <2> QED
    BY <1>4, <1>7, <2>1
<1>10. EntriesFor(e, o, K, s)
  BY <1>7, <1>8, <1>9 DEF EntriesFor
<1> QED
  BY <1>10 DEF e

LEMMA EncodedIsText ==
  ASSUME NEW t \in Texts, NEW o, IsOverrides(o), NEW s \in Sections
  PROVE  EncodeSection(t, o, s) \in Texts
<1>1. Entries(o, DOMAIN o, s) \in Texts
  <2>1. EntriesFor(Entries(o, DOMAIN o, s), o, DOMAIN o, s)
    BY EntriesAre
  <2> QED
    BY <2>1 DEF EntriesFor
<1>2. Section(s) \in CfgLines /\ Blank \in CfgLines
  BY DEF Section, Blank, CfgLines
<1> QED
  BY <1>1, <1>2 DEF EncodeSection, Texts

LEMMA SectionIsRead ==
  ASSUME NEW t \in Texts, NEW o, IsOverrides(o), NEW s \in Sections,
         NEW D, AgreesWith(ParseConfigFile(t), o, D)
  PROVE  /\ EncodeSection(t, o, s) \in Texts
         /\ AgreesWith(ParseConfigFile(EncodeSection(t, o, s)), o, D \cup {k \in DOMAIN o : k[1] = s})
<1> DEFINE t1 == IF t = <<>> THEN t ELSE Append(t, Blank)
           t2 == Append(t1, Section(s))
           e == Entries(o, DOMAIN o, s)
<1>1. t1 \in Texts /\ AgreesWith(ParseConfigFile(t1), o, D)
  <2>1. ParseConfigFile(Append(t, Blank)) = ParseConfigFile(t) /\ Append(t, Blank) \in Texts
    BY BlankRead, OneLineMore
  <2> QED
    BY <2>1
<1> HIDE DEF t1
<1>2. t2 \in Texts /\ ParseConfigFile(t2).section = s /\ AgreesWith(ParseConfigFile(t2), o, D)
  <2>1. ParseConfigFile(t1) \in Readings
    BY <1>1, FileIsRead
  <2>2. /\ ParseLine(ParseConfigFile(t1), Section(s), Len(t1) + 1).section = s
        /\ AgreesWith(ParseLine(ParseConfigFile(t1), Section(s), Len(t1) + 1), o, D)
        /\ Section(s) \in CfgLines
    BY <1>1, <2>1, HeaderRead
  <2> QED
    BY <1>1, <2>2, OneLineMore
<1> HIDE DEF t2
<1>3. /\ e \in Texts /\ \A j \in 1 .. Len(e) : Sets(e[j], o, s)
      /\ \A k : <<s, k>> \in DOMAIN o => \E j \in 1 .. Len(e) : e[j][2] = k
  <2>1. EntriesFor(e, o, DOMAIN o, s)
    BY EntriesAre
  <2> HIDE DEF e
  <2> QED
    BY <2>1 DEF EntriesFor
<1> HIDE DEF e
<1> DEFINE E == D \cup {<<s, e[j][2]>> : j \in 1 .. Len(e)}
<1>4. t2 \o e \in Texts /\ AgreesWith(ParseConfigFile(t2 \o e), o, E)
  <2>1. e \in Texts /\ \A j \in 1 .. Len(e) : Sets(e[j], o, s)
    BY <1>3
  <2>2. t2 \in Texts /\ ParseConfigFile(t2).section = s /\ AgreesWith(ParseConfigFile(t2), o, D)
    BY <1>2
  <2>3. E = D \cup {<<s, e[j][2]>> : j \in 1 .. Len(e)}
    OBVIOUS
  <2> HIDE DEF E
  <2> QED
    BY <2>1, <2>2, <2>3, EntriesRead
<1>5. {k \in DOMAIN o : k[1] = s} \subseteq E
  <2> SUFFICES ASSUME NEW k \in DOMAIN o, k[1] = s PROVE k \in {<<s, e[j][2]>> : j \in 1 .. Len(e)}
    OBVIOUS
  <2>1. k = <<s, k[2]>>
    BY DEF IsOverrides, SettingKeys
  <2>2. PICK j \in 1 .. Len(e) : e[j][2] = k[2]
    BY <1>3, <2>1
  <2>3. k = <<s, e[j][2]>>
    BY <2>1, <2>2
  <2> QED
    BY <2>3
<1>6. D \subseteq E
  OBVIOUS
<1> HIDE DEF E
<1>7. AgreesWith(ParseConfigFile(t2 \o e), o, D \cup {k \in DOMAIN o : k[1] = s})
  BY <1>4, <1>5, <1>6 DEF AgreesWith
<1>8. EncodeSection(t, o, s) = t2 \o e
  <2>1. t1 \o <<Section(s)>> = t2
    BY <1>1 DEF t2, Texts
  <2> QED
    BY <2>1 DEF EncodeSection, t1, e
<1> QED
  BY <1>4, <1>7, <1>8

(* The sections of a set in their order.                                    *)
LEMMA SectionsAre ==
  ASSUME NEW K \in SUBSET SettingKeys
  PROVE  /\ Len(SectionsOf(K)) \in Nat
         /\ \A i \in 1 .. Len(SectionsOf(K)) : SectionsOf(K)[i] \in Sections
         /\ \A k \in K : \E i \in 1 .. Len(SectionsOf(K)) : SectionsOf(K)[i] = k[1]
<1> DEFINE N == {k[1] : k \in K}
<1>1. N \in SUBSET Sections
  BY DEF SettingKeys
<1>2. N \in SUBSET Nat /\ IsFiniteSet(N)
  BY <1>1, ConfigsAssumption, FS_Subset
<1>3. \A k \in K : k[1] \in N
  OBVIOUS
<1>4. SectionsOf(K) = Ascending(N)
  BY DEF SectionsOf
<1> HIDE DEF N
<1>5. /\ Ascending(N) \in Seq(N) /\ Len(Ascending(N)) = Cardinality(N) /\ Cardinality(N) \in Nat
      /\ \A x \in N : \E i \in 1 .. Cardinality(N) : Ascending(N)[i] = x
  BY <1>2, AscendingIs
<1> QED
  BY <1>1, <1>3, <1>4, <1>5

LEMMA WritingIs ==
  ASSUME NEW o, IsOverrides(o)
  PROVE  LET n == Len(SectionsOf(DOMAIN o)) IN
         /\ n \in Nat
         /\ Writing(o)[0] = <<>>
         /\ \A i \in 1 .. n : /\ Writing(o)[i - 1] \in Texts
                              /\ Writing(o)[i] = EncodeSection(Writing(o)[i - 1], o, SectionsOf(DOMAIN o)[i])
<1> DEFINE order == SectionsOf(DOMAIN o)
           n == Len(order)
           step == [x \in (1 .. n) \X Texts |-> EncodeSection(x[2], o, order[x[1]])]
           Def(g) == g = [i \in 0 .. n |-> IF i = 0 THEN <<>> ELSE EncodeSection(g[i - 1], o, order[i])]
<1>1. n \in Nat /\ \A i \in 1 .. n : order[i] \in Sections
  BY SectionsAre DEF IsOverrides
<1>2. step \in [(1 .. n) \X Texts -> Texts]
  <2>1. ASSUME NEW x \in (1 .. n) \X Texts PROVE EncodeSection(x[2], o, order[x[1]]) \in Texts
    <3>1. x[2] \in Texts /\ order[x[1]] \in Sections
      BY <1>1
    <3> HIDE DEF order
    <3> QED
      BY <3>1, EncodedIsText
  <2> QED
    BY <2>1
<1> HIDE DEF n, order
<1>3. PICK g \in [0 .. n -> Texts] : g[0] = <<>> /\ \A i \in 1 .. n : g[i] = step[<<i, g[i - 1]>>]
  <2> HIDE DEF step, Def
  <2>1. Computes(n, Texts, <<>>, step)
    BY <1>1, <1>2, NothingParsed, Loops
  <2> QED
    BY <2>1 DEF Computes
<1>4. \A i \in 1 .. n : g[i] = EncodeSection(g[i - 1], o, order[i])
  <2> TAKE i \in 1 .. n
  <2>1. i - 1 \in 0 .. n
    BY <1>1
  <2>2. <<i, g[i - 1]>> \in (1 .. n) \X Texts
    BY <1>3, <2>1
  <2> QED
    BY <1>3, <2>2
<1>5. Def(g)
  BY <1>3, <1>4, <1>1
<1>6. Writing(o) = CHOOSE h : Def(h)
  BY DEF Writing, n, order
<1>7. Def(Writing(o))
  <2> HIDE DEF Def
  <2> QED
    BY <1>5, <1>6
<1>8. \A i \in 0 .. n : Writing(o)[i] = IF i = 0 THEN <<>> ELSE EncodeSection(Writing(o)[i - 1], o, order[i])
  BY <1>7
<1> DEFINE S == {i \in 0 .. n : Writing(o)[i] \in Texts}
<1>10. 0 \in S
  BY <1>8, <1>1, NothingParsed
<1>11. ASSUME NEW i \in 0 .. n, i < n, i \in S PROVE i + 1 \in S
  <2>1. i + 1 \in 1 .. n /\ (i + 1) - 1 = i
    BY <1>1, <1>11
  <2>2. Writing(o)[i + 1] = EncodeSection(Writing(o)[i], o, order[i + 1])
    BY <1>8, <2>1
  <2>3. EncodeSection(Writing(o)[i], o, order[i + 1]) \in Texts
    BY <1>1, <1>11, <2>1, EncodedIsText
  <2> QED
    BY <2>1, <2>2, <2>3
<1> HIDE DEF S
<1>12. 0 .. n \subseteq S
  BY <1>1, <1>10, <1>11, UpTo
<1>13. \A i \in 0 .. n : Writing(o)[i] \in Texts
  BY <1>12 DEF S
<1>14. \A i \in 1 .. n : Writing(o)[i - 1] \in Texts /\ Writing(o)[i] = EncodeSection(Writing(o)[i - 1], o, order[i])
  BY <1>1, <1>8, <1>13
<1> QED
  BY <1>1, <1>8, <1>14 DEF n, order

(* Indexed finds a setting that is declared.                                *)
LEMMA IndexedIs ==
  ASSUME NEW f \in Readings, NEW k \in Declared(f)
  PROVE  \E j \in DOMAIN f.settings : Indexed(f, k) = f.settings[j] /\ f.settings[j].key = k
<1> DEFINE I == {i \in 1 .. Len(f.settings) : f.settings[i].key = k}
<1>1. f.settings \in Seq(SettingsRead)
  BY DEF Readings
<1>2. DOMAIN f.settings = 1 .. Len(f.settings) /\ Len(f.settings) \in Nat
  BY <1>1
<1>3. I # {} /\ I \in SUBSET Nat /\ \A i \in I : i <= Len(f.settings)
  BY <1>2 DEF Declared
<1>4. Max(I) \in I
  BY <1>2, <1>3, MaxIsGreatest
<1>5. Indexed(f, k) = f.settings[Max(I)]
  BY <1>3 DEF Indexed, SelectLastInSeq
<1> QED
  BY <1>2, <1>4, <1>5

(* A set is read as it was written.                                         *)
LEMMA RoundTrip ==
  ASSUME NEW o, IsOverrides(o)
  PROVE  EncodeOverrides(o) \in Texts /\ ParseOverrideSet(EncodeOverrides(o)) = o
<1> DEFINE order == SectionsOf(DOMAIN o)
           n == Len(order)
           Upto(i) == {k \in DOMAIN o : \E j \in 1 .. i : order[j] = k[1]}
           Good(i) == Writing(o)[i] \in Texts /\ AgreesWith(ParseConfigFile(Writing(o)[i]), o, Upto(i))
           S == {i \in 0 .. n : Good(i)}
<1>1. /\ n \in Nat /\ \A i \in 1 .. n : order[i] \in Sections
      /\ \A k \in DOMAIN o : \E i \in 1 .. n : order[i] = k[1]
  BY SectionsAre DEF IsOverrides
<1>2. /\ Writing(o)[0] = <<>>
      /\ \A i \in 1 .. n : /\ Writing(o)[i - 1] \in Texts
                           /\ Writing(o)[i] = EncodeSection(Writing(o)[i - 1], o, order[i])
  BY WritingIs
<1> HIDE DEF n, order
<1>3. AgreesWith(ParseConfigFile(<<>>), o, {})
  BY NothingParsed DEF AgreesWith, NothingRead
<1>4. 0 \in S
  <2>1. Upto(0) = {}
    OBVIOUS
  <2>2. Good(0)
    <3> HIDE DEF Upto
    <3> QED
      BY <1>2, <1>3, <2>1, NothingParsed
  <2> HIDE DEF Good
  <2> QED
    BY <1>1, <2>2
<1>5. ASSUME NEW i \in 0 .. n, i < n, i \in S PROVE i + 1 \in S
  <2>1. i + 1 \in 1 .. n /\ (i + 1) - 1 = i
    BY <1>1, <1>5
  <2>2. Writing(o)[i + 1] = EncodeSection(Writing(o)[i], o, order[i + 1]) /\ order[i + 1] \in Sections
    BY <1>1, <1>2, <2>1
  <2>3. Writing(o)[i] \in Texts /\ AgreesWith(ParseConfigFile(Writing(o)[i]), o, Upto(i))
    BY <1>5
  <2>4. Upto(i + 1) = Upto(i) \cup {k \in DOMAIN o : k[1] = order[i + 1]}
    BY <1>5
  <2>5. Good(i + 1)
    <3> HIDE DEF Upto
    <3> QED
      BY <2>2, <2>3, <2>4, SectionIsRead
  <2> HIDE DEF Good
  <2> QED
    BY <2>1, <2>5
<1> HIDE DEF S
<1>6. 0 .. n \subseteq S
  BY <1>1, <1>4, <1>5, UpTo
<1>7. Good(n)
  <2>1. n \in S
    BY <1>1, <1>6
  <2> HIDE DEF Good
  <2> QED
    BY <2>1 DEF S
<1>8. Upto(n) = DOMAIN o
  BY <1>1
<1> HIDE DEF Upto
<1> DEFINE text == EncodeOverrides(o)
<1>9. text \in Texts /\ AgreesWith(ParseConfigFile(text), o, DOMAIN o)
  <2>1. CASE DOMAIN o = {}
    BY <1>3, <2>1, NothingParsed DEF EncodeOverrides
  <2>2. CASE DOMAIN o # {}
    <3>1. text = Append(Writing(o)[n], Blank)
      BY <2>2 DEF EncodeOverrides, n, order
    <3>2. Append(Writing(o)[n], Blank) \in Texts /\ ParseConfigFile(Append(Writing(o)[n], Blank)) = ParseConfigFile(Writing(o)[n])
      BY <1>7, BlankRead, OneLineMore
    <3> QED
      BY <1>7, <1>8, <3>1, <3>2
  <2> QED
    BY <2>1, <2>2
<1> HIDE DEF text
<1> DEFINE f == ParseConfigFile(text)
<1>10. f \in Readings
  BY <1>9, FileIsRead
<1>11. Declared(f) = DOMAIN o
  BY <1>9 DEF AgreesWith, Declared
<1>12. ASSUME NEW k \in DOMAIN o PROVE Indexed(f, k).value = o[k]
  <2>1. k \in Declared(f)
    BY <1>11
  <2> HIDE DEF f
  <2>2. \E j \in DOMAIN f.settings : Indexed(f, k) = f.settings[j] /\ f.settings[j].key = k
    BY <1>10, <2>1, IndexedIs
  <2> QED
    BY <1>9, <2>2 DEF AgreesWith, f
<1>13. ParseOverrideSet(text) = [k \in DOMAIN o |-> Indexed(f, k).value]
  BY <1>11 DEF ParseOverrideSet
<1>14. ParseOverrideSet(text) = o
  BY <1>12, <1>13 DEF IsOverrides
<1> QED
  BY <1>9, <1>14 DEF text

-----------------------------------------------------------------------------
(* Every line of a text stays one, whoever writes it                        *)

LEMMA LeastOf ==
  ASSUME NEW S \in SUBSET Nat, S # {}
  PROVE  Min(S) \in S
<1> DEFINE R == OpToRel(<, Nat)
<1>1. IsWellFoundedOn(R, Nat)
  BY NatLessThanWellFounded
<1>2. \A i, j \in Nat : i < j => <<i, j>> \in R
  BY DEF OpToRel
<1> HIDE DEF R
<1>3. PICK x \in S : \A y \in S : ~ (<<y, x>> \in R)
  BY <1>1, WFMin
<1>4. ASSUME NEW y \in S PROVE x =< y
  <2>1. x \in Nat /\ y \in Nat
    OBVIOUS
  <2>2. ~ (y < x)
    BY <1>2, <1>3, <2>1, Zenon
  <2> QED
    BY <2>1, <2>2
<1> QED
  BY <1>4 DEF Min

(* A line adds at most the setting it sets.                                 *)
Adds(f, q, l, i) ==
  \/ q.settings = f.settings
  \/ l[1] = "entry" /\ \E r : q.settings = Append(f.settings, r) /\ r.line = i /\ r.key = <<f.section, l[2]>>
LEMMA LineAdds ==
  ASSUME NEW f \in Readings, NEW l \in CfgLines, NEW i \in Nat
  PROVE  Adds(f, ParseLine(f, l, i), l, i)
<1> SUFFICES \/ ParseLine(f, l, i).settings = f.settings
             \/ /\ l[1] = "entry"
                /\ \E r : /\ ParseLine(f, l, i).settings = Append(f.settings, r)
                          /\ r.line = i /\ r.key = <<f.section, l[2]>>
  BY DEF Adds
<1>1. CASE l[1] = "blank"
  BY <1>1 DEF ParseLine, IsHeader
<1>2. CASE l[1] = "junk"
  <2>1. ParseLine(f, l, i) = [f EXCEPT !.default = 0, !.parsable = FALSE]
    BY <1>2 DEF ParseLine, IsHeader
  <2> QED
    BY <2>1 DEF Readings
<1>3. CASE l[1] = "comment"
  <2>1. ParseLine(f, l, i) = [f EXCEPT !.default = l[2]]
    BY <1>3 DEF ParseLine, IsHeader
  <2> QED
    BY <2>1 DEF Readings
<1>4. CASE IsHeader(l)
  <2>1. ParseLine(f, l, i) = [f EXCEPT !.section = l[2], !.sections = @ \cup {l[2]}, !.default = 0]
    BY <1>4 DEF ParseLine, IsHeader
  <2> QED
    BY <2>1 DEF Readings
<1>5. CASE l[1] = "entry"
  <2> DEFINE s == [key |-> <<f.section, l[2]>>, value |-> l[3], default |-> f.default, line |-> i]
  <2>1. CASE f.section # 0
    <3>1. ParseLine(f, l, i) = [f EXCEPT !.settings = Append(@, s), !.default = 0]
      BY <1>5, <2>1 DEF ParseLine, IsHeader
    <3>2. s.line = i /\ s.key = <<f.section, l[2]>>
      OBVIOUS
    <3> HIDE DEF s
    <3>3. ParseLine(f, l, i).settings = Append(f.settings, s)
      BY <3>1 DEF Readings
    <3> QED
      BY <1>5, <3>2, <3>3
  <2>2. CASE f.section = 0
    <3>1. ParseLine(f, l, i) = [f EXCEPT !.default = 0, !.parsable = FALSE]
      BY <1>5, <2>2 DEF ParseLine, IsHeader
    <3> QED
      BY <3>1 DEF Readings
  <2> QED
    BY <2>1, <2>2
<1>6. \/ l[1] = "blank" \/ l[1] = "junk" \/ l[1] = "comment" \/ IsHeader(l) \/ l[1] = "entry"
  <2>1. <<"blank">>[1] = "blank" /\ <<"junk">>[1] = "junk"
    OBVIOUS
  <2> QED
    BY <2>1, LineKinds
<1> QED
  BY <1>1, <1>2, <1>3, <1>4, <1>5, <1>6

(* The settings read are lines of the text.                                 *)
LEMMA SettingsAreLines ==
  ASSUME NEW t \in Texts
  PROVE  \A j \in DOMAIN ParseConfigFile(t).settings :
           LET s == ParseConfigFile(t).settings[j]
           IN s.line \in 1 .. Len(t) /\ t[s.line][1] = "entry" /\ t[s.line][2] = s.key[2]
<1> DEFINE OK(i, s) == s.line \in 1 .. i /\ t[s.line][1] = "entry" /\ t[s.line][2] = s.key[2]
           Good(i) == \A j \in DOMAIN Reading(t)[i].settings : OK(i, Reading(t)[i].settings[j])
           S == {i \in 0 .. Len(t) : Good(i)}
<1>1. Len(t) \in Nat /\ \A i \in 1 .. Len(t) : t[i] \in CfgLines
  BY DEF Texts
<1>2. 0 \in S
  <2>1. Reading(t)[0].settings = <<>>
    BY ReadingIs DEF NothingRead
  <2> QED
    BY <1>1, <2>1
<1>3. ASSUME NEW i \in 0 .. Len(t), i < Len(t), i \in S PROVE i + 1 \in S
  <2> DEFINE f == Reading(t)[i]
             q == Reading(t)[i + 1]
             l == t[i + 1]
  <2>1. i + 1 \in 1 .. Len(t) /\ (i + 1) - 1 = i /\ i + 1 \in Nat
    BY <1>1, <1>3
  <2>2. f \in Readings /\ q = ParseLine(f, l, i + 1) /\ l \in CfgLines
    BY <1>1, <2>1, ReadingIs
  <2>3. Good(i)
    BY <1>3
  <2> HIDE DEF f, q, l
  <2>4. f.settings \in Seq(SettingsRead)
    BY <2>2 DEF Readings
  <2>5. \/ q.settings = f.settings
        \/ l[1] = "entry" /\ \E r : q.settings = Append(f.settings, r) /\ r.line = i + 1 /\ r.key = <<f.section, l[2]>>
    <3>1. Adds(f, q, l, i + 1)
      BY <2>1, <2>2, LineAdds
    <3> QED
      BY <3>1 DEF Adds
  <2>6. ASSUME NEW j \in DOMAIN q.settings PROVE OK(i + 1, q.settings[j])
    <3>1. ASSUME j \in DOMAIN f.settings, q.settings[j] = f.settings[j] PROVE OK(i + 1, q.settings[j])
      BY <2>3, <3>1 DEF f
    <3>2. CASE q.settings = f.settings
      BY <2>6, <3>1, <3>2
    <3>3. CASE l[1] = "entry" /\ \E r : q.settings = Append(f.settings, r) /\ r.line = i + 1 /\ r.key = <<f.section, l[2]>>
      <4>1. PICK r : q.settings = Append(f.settings, r) /\ r.line = i + 1 /\ r.key = <<f.section, l[2]>>
        BY <3>3
      <4>2. q.settings = [k \in 1 .. Len(f.settings) + 1 |-> IF k <= Len(f.settings) THEN f.settings[k] ELSE r]
        BY <2>4, <4>1
      <4>3. DOMAIN f.settings = 1 .. Len(f.settings) /\ Len(f.settings) \in Nat
        BY <2>4
      <4>4. \/ j \in DOMAIN f.settings /\ q.settings[j] = f.settings[j]
            \/ q.settings[j] = r
        BY <2>6, <4>2, <4>3
      <4>5. OK(i + 1, r)
        BY <2>1, <3>3, <4>1 DEF l
      <4> QED
        BY <3>1, <4>4, <4>5
    <3> QED
      BY <2>5, <3>2, <3>3
  <2>7. Good(i + 1)
    BY <2>6 DEF q
  <2> HIDE DEF Good
  <2> QED
    BY <2>1, <2>7
<1> HIDE DEF S
<1>4. 0 .. Len(t) \subseteq S
  BY <1>1, <1>2, <1>3, UpTo
<1>5. Good(Len(t))
  <2>1. Len(t) \in S
    BY <1>1, <1>4
  <2> HIDE DEF Good
  <2> QED
    BY <2>1 DEF S
<1> QED
  BY <1>5 DEF ParseConfigFile

(* The first setting of a key, where there is one.                          *)
LEMMA LookupIs ==
  ASSUME NEW f \in Readings, NEW k \in Declared(f)
  PROVE  /\ Lookup(f, k) \in DOMAIN f.settings
         /\ f.settings[Lookup(f, k)].key = k
<1> DEFINE I == {i \in 1 .. Len(f.settings) : f.settings[i].key = k}
<1>1. f.settings \in Seq(SettingsRead)
  BY DEF Readings
<1>2. DOMAIN f.settings = 1 .. Len(f.settings) /\ Len(f.settings) \in Nat
  BY <1>1
<1>3. I # {} /\ I \in SUBSET Nat
  BY <1>2 DEF Declared
<1>4. Min(I) \in I
  BY <1>3, LeastOf
<1>5. Lookup(f, k) = Min(I)
  BY <1>3 DEF Lookup, SelectInSeq
<1> QED
  BY <1>2, <1>4, <1>5

LEMMA SettingIs ==
  ASSUME NEW f \in Readings, NEW i \in DOMAIN f.settings
  PROVE  /\ f.settings[i].key \in SettingKeys /\ f.settings[i].value \in CfgValues
         /\ f.settings[i].default \in CfgValues \cup {0} /\ i \in Nat
<1>1. f.settings \in Seq(SettingsRead)
  BY DEF Readings
<1>2. f.settings[i] \in SettingsRead /\ i \in Nat
  BY <1>1
<1> QED
  BY <1>2 DEF SettingsRead

LEMMA ParsedIsOverrides ==
  ASSUME NEW t \in Texts
  PROVE  IsOverrides(ParseOverrideSet(t))
<1> DEFINE f == ParseConfigFile(t)
           o == ParseOverrideSet(t)
<1>1. f \in Readings
  BY FileIsRead
<1>2. o = [k \in Declared(f) |-> Indexed(f, k).value]
  BY DEF ParseOverrideSet
<1> HIDE DEF f, o
<1>3. \A i \in DOMAIN f.settings : f.settings[i].key \in SettingKeys /\ f.settings[i].value \in CfgValues
  BY <1>1, SettingIs
<1>4. Declared(f) \subseteq SettingKeys
  BY <1>3 DEF Declared
<1>5. ASSUME NEW k \in Declared(f) PROVE Indexed(f, k).value \in CfgValues
  BY <1>1, <1>3, IndexedIs
<1> QED
  BY <1>2, <1>4, <1>5 DEF IsOverrides, o

-----------------------------------------------------------------------------
(* The texts of a merge                                                     *)

LEMMA GreatestExists ==
  ASSUME NEW S \in SUBSET Nat, NEW n \in Nat, S # {}, \A y \in S : y <= n
  PROVE  \E x \in S : \A y \in S : y <= x
  BY MaxIsGreatest

LEMMA LeastExists ==
  ASSUME NEW S \in SUBSET Nat, S # {}
  PROVE  \E x \in S : \A y \in S : x <= y
<1> DEFINE R == OpToRel(<, Nat)
<1>1. IsWellFoundedOn(R, Nat)
  BY NatLessThanWellFounded
<1>2. \A i, j \in Nat : i < j => <<i, j>> \in R
  BY DEF OpToRel
<1> HIDE DEF R
<1>3. PICK x \in S : \A y \in S : ~ (<<y, x>> \in R)
  BY <1>1, WFMin
<1>4. ASSUME NEW y \in S PROVE x =< y
  <2>1. x \in Nat /\ y \in Nat
    OBVIOUS
  <2>2. ~ (y < x)
    BY <1>2, <1>3, <2>1, Zenon
  <2> QED
    BY <2>1, <2>2
<1> QED
  BY <1>4

LEMMA SomeLines ==
  ASSUME NEW L, NEW t \in Seq(L), NEW m \in Nat, NEW n \in Nat, 1 <= m, n <= Len(t)
  PROVE  SubSeq(t, m, n) \in Seq(L)
  OBVIOUS

(* Where InsertIntoSection puts its lines: in section s, before its blank   *)
(* lines, if the section is found.                                          *)
InsertedAt(t, u, e, s, a) ==
  /\ a \in 1 .. Len(t) /\ u = SubSeq(t, 1, a) \o e \o SubSeq(t, a + 1, Len(t))
  /\ \E h \in 1 .. a : t[h] = Section(s) /\ \A j \in h + 1 .. a : ~ IsHeader(t[j])
  /\ \E b \in a + 1 .. Len(t) + 1 : (\A j \in a + 1 .. b - 1 : t[j] = Blank) /\ (b <= Len(t) => IsHeader(t[b]))
Inserted(t, u, e, s) ==
  IF \E i \in 1 .. Len(t) : t[i] = Section(s) THEN \E a : InsertedAt(t, u, e, s, a) ELSE u = t
LEMMA InsertIs ==
  ASSUME NEW L, NEW t \in Seq(L), NEW s, NEW e
  PROVE  Inserted(t, InsertIntoSection(t, s, e), e, s)
<1> DEFINE start == SelectInSeq(t, LAMBDA l : l = Section(s))
           rest  == {i \in start + 1 .. Len(t) : IsHeader(t[i])}
           next  == IF rest = {} THEN Len(t) + 1 ELSE CHOOSE i \in rest : \A j \in rest : i <= j
           body  == {i \in start .. next - 1 : i = start \/ ~IsBlank(t[i])}
           end   == CHOOSE i \in body : \A j \in body : j <= i
           I     == {i \in 1 .. Len(t) : t[i] = Section(s)}
           u     == InsertIntoSection(t, s, e)
<1>1. Len(t) \in Nat
  OBVIOUS
<1>2. start = IF I # {} THEN Min(I) ELSE 0
  BY DEF SelectInSeq
<1>3. CASE I = {}
  <2>1. start = 0
    BY <1>2, <1>3
  <2>2. u = t
    BY <2>1 DEF InsertIntoSection
  <2> QED
    BY <1>3, <2>2 DEF Inserted
<1>4. CASE I # {}
  <2>1. start \in 1 .. Len(t) /\ t[start] = Section(s) /\ start # 0
    <3>1. I # {} /\ I \in SUBSET Nat
      BY <1>4
    <3>2. Min(I) \in I
      BY <3>1, LeastOf
    <3> QED
      BY <1>2, <3>1, <3>2
  <2> HIDE DEF start
  <2>2. /\ next \in start + 1 .. Len(t) + 1 /\ (next <= Len(t) => IsHeader(t[next]))
        /\ \A j \in start + 1 .. next - 1 : ~ IsHeader(t[j])
    <3>1. CASE rest = {}
      BY <1>1, <2>1, <3>1
    <3>2. CASE rest # {}
      <4>1. rest \in SUBSET Nat
        BY <1>1, <2>1
      <4>2. \E i \in rest : \A j \in rest : i <= j
        BY <3>2, <4>1, LeastExists
      <4>3. next \in rest /\ \A j \in rest : next <= j
        BY <3>2, <4>2
      <4>4. \A i \in rest : i \in start + 1 .. Len(t) /\ IsHeader(t[i])
        OBVIOUS
      <4>5. next \in start + 1 .. Len(t) /\ IsHeader(t[next])
        <5> HIDE DEF rest, next
        <5> QED
          BY <4>3, <4>4
      <4>6. ASSUME NEW j \in start + 1 .. next - 1 PROVE ~ IsHeader(t[j])
        <5> HIDE DEF next
        <5>1. j \in start + 1 .. Len(t) /\ ~ (next <= j)
          BY <1>1, <2>1, <4>5
        <5>2. j \notin rest
          <6> HIDE DEF rest
          <6> QED
            BY <4>3, <5>1
        <5> QED
          BY <5>1, <5>2
      <4> HIDE DEF rest, next
      <4> QED
        BY <1>1, <2>1, <4>5, <4>6
    <3> QED
      BY <3>1, <3>2
  <2> HIDE DEF next
  <2>3. end \in start .. next - 1 /\ \A j \in end + 1 .. next - 1 : t[j] = Blank
    <3>1. start \in body /\ body \in SUBSET Nat /\ \A y \in body : y <= Len(t)
      BY <1>1, <2>1, <2>2
    <3>2. \E i \in body : \A j \in body : j <= i
      <4> HIDE DEF body
      <4> QED
        BY <1>1, <3>1, GreatestExists
    <3>3. end \in body /\ \A j \in body : j <= end
      <4> HIDE DEF body
      <4> QED
        BY <3>2
    <3>4. end \in start .. next - 1
      BY <3>3
    <3>5. ASSUME NEW j \in end + 1 .. next - 1 PROVE t[j] = Blank
      <4>1. j \in start .. next - 1 /\ j # start /\ ~ (j <= end)
        <5> HIDE DEF end
        <5> QED
          BY <1>1, <2>1, <2>2, <3>4
      <4>2. j \notin body
        <5> HIDE DEF body
        <5> QED
          BY <3>3, <4>1
      <4> QED
        BY <4>1, <4>2 DEF IsBlank
    <3> QED
      BY <3>4, <3>5
  <2>4. u = SubSeq(t, 1, end) \o e \o SubSeq(t, end + 1, Len(t))
    BY <2>1 DEF InsertIntoSection, start, next
  <2> HIDE DEF end, u
  <2>5. end \in 1 .. Len(t) /\ next \in end + 1 .. Len(t) + 1
    BY <1>1, <2>1, <2>2, <2>3
  <2>6. \A j \in start + 1 .. end : ~ IsHeader(t[j])
    BY <1>1, <2>1, <2>2, <2>3
  <2>7. start \in 1 .. end
    BY <2>1, <2>3, <2>5
  <2>8. InsertedAt(t, u, e, s, end)
    BY <2>1, <2>2, <2>3, <2>4, <2>5, <2>6, <2>7 DEF InsertedAt
  <2> QED
    BY <1>4, <2>8 DEF Inserted, u
<1> QED
  BY <1>3, <1>4

LEMMA InsertedIsText ==
  ASSUME NEW L, NEW t \in Seq(L), NEW s, NEW e \in Seq(L)
  PROVE  InsertIntoSection(t, s, e) \in Seq(L)
<1> DEFINE u == InsertIntoSection(t, s, e)
<1>1. Inserted(t, u, e, s)
  BY InsertIs
<1> HIDE DEF u
<1>2. ASSUME NEW a, InsertedAt(t, u, e, s, a) PROVE u \in Seq(L)
  <2>1. Len(t) \in Nat /\ a \in 1 .. Len(t) /\ u = SubSeq(t, 1, a) \o e \o SubSeq(t, a + 1, Len(t))
    BY <1>2 DEF InsertedAt
  <2>2. a \in Nat /\ a <= Len(t) /\ a + 1 \in Nat /\ 1 <= a + 1
    BY <2>1
  <2>3. SubSeq(t, 1, a) \in Seq(L) /\ SubSeq(t, a + 1, Len(t)) \in Seq(L)
    BY <2>1, <2>2, SomeLines
  <2>4. SubSeq(t, 1, a) \o e \in Seq(L)
    BY <2>3
  <2> QED
    BY <2>1, <2>3, <2>4
<1>3. u \in Seq(L)
  BY <1>1, <1>2 DEF Inserted
<1> QED
  BY <1>3 DEF u

LEMMA AddedIsText ==
  ASSUME NEW t \in Texts, NEW f, NEW s \in Sections, NEW e \in Texts
  PROVE  AddSection(t, f, s, e) \in Texts
<1>1. Blank \in CfgLines /\ Section(s) \in CfgLines
  BY DEF Blank, Section, CfgLines
<1>2. AppendSection(t, s, e) \in Texts
  BY <1>1 DEF AppendSection, Texts
<1>3. InsertIntoSection(t, s, e) \in Texts
  BY InsertedIsText DEF Texts
<1> QED
  BY <1>2, <1>3 DEF AddSection

(* The text with each section's settings.                                   *)
AddsUp(w, t, f, o, K) ==
  /\ w[0] = t /\ \A i \in 0 .. Len(SectionsOf(K)) : w[i] \in Texts
  /\ \A i \in 1 .. Len(SectionsOf(K)) :
       w[i] = AddSection(w[i - 1], f, SectionsOf(K)[i], Entries(o, K, SectionsOf(K)[i]))
LEMMA AddingIs ==
  ASSUME NEW t \in Texts, NEW f, NEW o, IsOverrides(o), NEW K \in SUBSET DOMAIN o
  PROVE  AddsUp(Adding(t, f, o, K), t, f, o, K)
<1> DEFINE order == SectionsOf(K)
           n == Len(order)
           add(u, i) == AddSection(u, f, order[i], Entries(o, K, order[i]))
           step == [x \in (1 .. n) \X Texts |-> add(x[2], x[1])]
           Def(g) == g = [i \in 0 .. n |-> IF i = 0 THEN t ELSE add(g[i - 1], i)]
<1>1. n \in Nat /\ \A i \in 1 .. n : order[i] \in Sections
  <2>1. K \in SUBSET SettingKeys
    BY DEF IsOverrides
  <2> QED
    BY <2>1, SectionsAre
<1>2. ASSUME NEW u \in Texts, NEW i \in 1 .. n PROVE add(u, i) \in Texts
  <2>1. order[i] \in Sections
    BY <1>1
  <2>2. Entries(o, K, order[i]) \in Texts
    <3> HIDE DEF order
    <3>1. EntriesFor(Entries(o, K, order[i]), o, K, order[i])
      BY <2>1, EntriesAre
    <3> QED
      BY <3>1 DEF EntriesFor
  <2> HIDE DEF order
  <2> QED
    BY <2>1, <2>2, AddedIsText
<1>3. step \in [(1 .. n) \X Texts -> Texts]
  <2> HIDE DEF add
  <2> QED
    BY <1>2
<1> HIDE DEF n, order, add
<1>4. PICK g \in [0 .. n -> Texts] : g[0] = t /\ \A i \in 1 .. n : g[i] = step[<<i, g[i - 1]>>]
  <2> HIDE DEF step, Def
  <2>1. Computes(n, Texts, t, step)
    BY <1>1, <1>3, Loops
  <2> QED
    BY <2>1 DEF Computes
<1>5. \A i \in 1 .. n : g[i] = add(g[i - 1], i)
  <2> TAKE i \in 1 .. n
  <2>1. i - 1 \in 0 .. n
    BY <1>1
  <2>2. <<i, g[i - 1]>> \in (1 .. n) \X Texts
    BY <1>4, <2>1
  <2> QED
    BY <1>4, <2>2
<1>6. Def(g)
  BY <1>4, <1>5, <1>1
<1>7. Adding(t, f, o, K) = CHOOSE h : Def(h)
  BY DEF Adding, n, order, add
<1>8. Def(Adding(t, f, o, K))
  <2> HIDE DEF Def
  <2> QED
    BY <1>6, <1>7
<1> DEFINE w == Adding(t, f, o, K)
<1>9. \A i \in 0 .. n : w[i] = IF i = 0 THEN t ELSE add(w[i - 1], i)
  BY <1>8
<1> HIDE DEF w
<1> DEFINE S == {i \in 0 .. n : w[i] \in Texts}
<1>10. 0 \in S
  BY <1>9, <1>1
<1>11. ASSUME NEW i \in 0 .. n, i < n, i \in S PROVE i + 1 \in S
  <2>1. i + 1 \in 1 .. n /\ (i + 1) - 1 = i
    BY <1>1, <1>11
  <2>2. w[i + 1] = add(w[i], i + 1)
    BY <1>9, <2>1
  <2>3. add(w[i], i + 1) \in Texts
    BY <1>2, <1>11, <2>1
  <2> QED
    BY <2>1, <2>2, <2>3
<1> HIDE DEF S
<1>12. 0 .. n \subseteq S
  BY <1>1, <1>10, <1>11, UpTo
<1>13. w[0] = t /\ \A i \in 0 .. n : w[i] \in Texts
  BY <1>1, <1>9, <1>12 DEF S
<1>14. \A i \in 1 .. n : w[i] = add(w[i - 1], i)
  BY <1>1, <1>9
<1> QED
  BY <1>13, <1>14 DEF AddsUp, w, n, order, add

LEMMA AppendedIsText ==
  ASSUME NEW t \in Texts, NEW f, NEW o, IsOverrides(o), NEW K \in SUBSET DOMAIN o
  PROVE  AppendOverrides(t, f, o, K) \in Texts
<1>1. AddsUp(Adding(t, f, o, K), t, f, o, K)
  BY AddingIs
<1>2. Len(SectionsOf(K)) \in 0 .. Len(SectionsOf(K))
  <2>1. Len(SectionsOf(K)) \in Nat
    BY SectionsAre DEF IsOverrides
  <2> QED
    BY <2>1
<1> QED
  BY <1>1, <1>2 DEF AddsUp, AppendOverrides

LEMMA ReplacedIsText ==
  ASSUME NEW t \in Texts, NEW o, IsOverrides(o)
  PROVE  ReplaceLines(t, ParseConfigFile(t), o) \in Texts
<1> DEFINE f == ParseConfigFile(t)
           hit(i) == {k \in DOMAIN o \cap Declared(f) : Indexed(f, k).line = i}
           new(i) == IF hit(i) = {} THEN t[i] ELSE Entry(t[i][2], o[CHOOSE k \in hit(i) : TRUE])
           u == ReplaceLines(t, f, o)
<1>1. f \in Readings
  BY FileIsRead
<1>2. Len(t) \in Nat /\ DOMAIN t = 1 .. Len(t) /\ \A i \in 1 .. Len(t) : t[i] \in CfgLines
  BY DEF Texts
<1>3. u = [i \in 1 .. Len(t) |-> new(i)]
  BY <1>2 DEF ReplaceLines
<1>4. ASSUME NEW i \in 1 .. Len(t) PROVE new(i) \in CfgLines
  <2>1. CASE hit(i) = {}
    BY <1>2, <2>1
  <2>2. CASE hit(i) # {}
    <3> DEFINE k == CHOOSE k \in hit(i) : TRUE
    <3>1. k \in hit(i)
      BY <2>2
    <3> HIDE DEF k
    <3>2. k \in DOMAIN o /\ k \in Declared(f) /\ Indexed(f, k).line = i
      BY <3>1
    <3> HIDE DEF f, hit
    <3>3. \E j \in DOMAIN f.settings : Indexed(f, k) = f.settings[j]
      BY <1>1, <3>2, IndexedIs
    <3>4. t[i][1] = "entry"
      BY <3>2, <3>3, SettingsAreLines DEF f
    <3>5. t[i][2] \in Keys
      <4>1. t[i] \in CfgLines
        BY <1>2
      <4>2. t[i] # <<"blank">> /\ t[i] # <<"junk">> /\ t[i][1] # "comment" /\ ~IsHeader(t[i])
        BY <3>4 DEF IsHeader
      <4> QED
        BY <4>1, <4>2, LineKinds
    <3>6. o[k] \in CfgValues
      BY <3>2 DEF IsOverrides
    <3>7. Entry(t[i][2], o[k]) \in CfgLines
      BY <3>5, <3>6 DEF Entry, CfgLines
    <3> QED
      BY <2>2, <3>7 DEF k
  <2> QED
    BY <2>1, <2>2
<1> HIDE DEF u, new
<1>5. u \in [1 .. Len(t) -> CfgLines]
  BY <1>3, <1>4
<1> QED
  BY <1>2, <1>5 DEF u, Texts

LEMMA MergedIsText ==
  ASSUME NEW t \in Texts, NEW o, IsOverrides(o)
  PROVE  MergeFile(t, o) \in Texts
<1> DEFINE f == ParseConfigFile(t)
           r == ReplaceLines(t, f, o)
<1>1. r \in Texts
  BY ReplacedIsText
<1>2. EncodeOverrides(o) \in Texts
  BY RoundTrip
<1> HIDE DEF r, f
<1>3. AppendOverrides(r, f, o, DOMAIN o \ Declared(f)) \in Texts
  BY <1>1, AppendedIsText
<1> QED
  BY <1>2, <1>3 DEF MergeFile, MergeText, f, r

LEMMA ValueRead ==
  ASSUME NEW t \in Texts, NEW k
  PROVE  ValueIn(t, k) \in CfgValues \cup {0}
<1> DEFINE at == {i \in DOMAIN t :
                    /\ t[i][1] = "entry" /\ t[i][2] = k[2]
                    /\ \E h \in 1 .. i : /\ IsHeader(t[h]) /\ t[h][2] = k[1]
                                         /\ \A j \in h + 1 .. i : ~IsHeader(t[j])}
<1>1. Len(t) \in Nat /\ DOMAIN t = 1 .. Len(t) /\ \A i \in 1 .. Len(t) : t[i] \in CfgLines
  BY DEF Texts
<1>2. ValueIn(t, k) = IF at = {} THEN 0 ELSE t[CHOOSE i \in at : \A j \in at : j <= i][3]
  BY DEF ValueIn
<1>3. \A i \in at : i \in 1 .. Len(t) /\ t[i][1] = "entry"
  BY <1>1
<1> HIDE DEF at
<1>4. CASE at # {}
  <2>1. \E i \in at : \A j \in at : j <= i
    <3>1. at \in SUBSET Nat /\ \A y \in at : y <= Len(t)
      BY <1>1, <1>3
    <3> QED
      BY <1>1, <1>4, <3>1, GreatestExists
  <2>2. PICK i \in at : ValueIn(t, k) = t[i][3]
    BY <1>2, <1>4, <2>1
  <2>3. t[i] \in CfgLines /\ t[i][1] = "entry"
    BY <1>1, <1>3
  <2>4. t[i] # <<"blank">> /\ t[i] # <<"junk">> /\ t[i][1] # "comment" /\ ~IsHeader(t[i])
    BY <2>3 DEF IsHeader
  <2>5. t[i][3] \in CfgValues
    BY <2>3, <2>4, LineKinds
  <2> QED
    BY <2>2, <2>5
<1> QED
  BY <1>2, <1>4

LEMMA RewrittenIsText ==
  ASSUME NEW g \in Texts, disk \in Texts
  PROVE  Rewritten(g) \in Texts
<1> DEFINE f == ParseConfigFile(g)
           mine(i) == {j \in DOMAIN f.settings : f.settings[j].line = i}
           was(i) == IF mine(i) = {} THEN 0 ELSE ValueIn(disk, f.settings[CHOOSE j \in mine(i) : TRUE].key)
           u == Rewritten(g)
<1>1. Len(g) \in Nat /\ DOMAIN g = 1 .. Len(g) /\ \A i \in 1 .. Len(g) : g[i] \in CfgLines
  BY DEF Texts
<1>2. u = [i \in 1 .. Len(g) |-> IF was(i) = 0 THEN g[i] ELSE Entry(g[i][2], was(i))]
  BY <1>1 DEF Rewritten
<1>3. ASSUME NEW i \in 1 .. Len(g), was(i) # 0 PROVE Entry(g[i][2], was(i)) \in CfgLines
  <2>1. mine(i) # {} /\ was(i) = ValueIn(disk, f.settings[CHOOSE j \in mine(i) : TRUE].key)
    BY <1>3
  <2>2. was(i) \in CfgValues
    BY <1>3, <2>1, ValueRead
  <2>3. g[i][1] = "entry"
    <3>1. PICK j \in DOMAIN f.settings : f.settings[j].line = i
      BY <2>1
    <3> QED
      BY <3>1, SettingsAreLines
  <2>4. g[i][2] \in Keys
    <3>1. g[i] \in CfgLines
      BY <1>1
    <3>2. g[i] # <<"blank">> /\ g[i] # <<"junk">> /\ g[i][1] # "comment" /\ ~IsHeader(g[i])
      BY <2>3 DEF IsHeader
    <3> QED
      BY <3>1, <3>2, LineKinds
  <2> HIDE DEF was
  <2> QED
    BY <2>2, <2>4 DEF Entry, CfgLines
<1> HIDE DEF u, was
<1>4. u \in [1 .. Len(g) -> CfgLines]
  BY <1>1, <1>2, <1>3
<1> QED
  BY <1>1, <1>4 DEF u, Texts

-----------------------------------------------------------------------------
(* The state: what its parts may hold                                       *)

CfgChanges == UNION {[K -> CfgValues \cup {0}] : K \in SUBSET SettingKeys}

CfgRequests ==
  [pc : {"idle", "posted", "apply", "write"}, at : Nat, value : CfgValues \cup {0}, sha : Texts,
   saw : SettingKeys \cup {<<>>}, key : SettingKeys \cup {<<>>},
   change : CfgChanges, body : Texts, typed : BOOLEAN, text : OverrideSets]

CfgTypes ==
  /\ disk \in Texts /\ copy \in Texts /\ digest \in Texts /\ kept \in Texts /\ configMap \in Texts
  /\ editor \in [Editors -> CfgRequests] /\ IsOverrides(managed)
  /\ edits \in 0 .. MaxEdits /\ merge.times \in 0 .. MaxStarts

LEMMA OverridesAre ==
  ASSUME NEW o
  PROVE  o \in OverrideSets <=> IsOverrides(o)
<1>1. ASSUME o \in OverrideSets PROVE IsOverrides(o)
  <2>1. PICK K \in SUBSET SettingKeys : o \in [K -> CfgValues]
    BY <1>1 DEF OverrideSets
  <2> QED
    BY <2>1 DEF IsOverrides
<1>2. ASSUME IsOverrides(o) PROVE o \in OverrideSets
  <2>1. DOMAIN o \in SUBSET SettingKeys /\ o \in [DOMAIN o -> CfgValues]
    BY <1>2 DEF IsOverrides
  <2> QED
    BY <2>1 DEF OverrideSets
<1> QED
  BY <1>1, <1>2

LEMMA ChangeIs ==
  ASSUME NEW c \in CfgChanges
  PROVE  DOMAIN c \subseteq SettingKeys /\ \A k \in DOMAIN c : c[k] \in CfgValues \cup {0}
<1>1. PICK K \in SUBSET SettingKeys : c \in [K -> CfgValues \cup {0}]
  BY DEF CfgChanges
<1> QED
  BY <1>1

LEMMA OverridesAreChanges ==
  ASSUME NEW o, IsOverrides(o)
  PROVE  o \in CfgChanges
<1>1. DOMAIN o \in SUBSET SettingKeys /\ o \in [DOMAIN o -> CfgValues \cup {0}]
  BY DEF IsOverrides
<1> QED
  BY <1>1 DEF CfgChanges

LEMMA NothingChosen == IsOverrides(NoOverrides) /\ NoOverrides \in CfgChanges /\ NoOverrides \in OverrideSets
<1>1. IsOverrides(NoOverrides)
  BY DEF IsOverrides, NoOverrides
<1> QED
  BY <1>1, OverridesAre, OverridesAreChanges

LEMMA NoEditTyped == NoEdit \in CfgRequests
  BY NothingChosen, NothingParsed DEF NoEdit, CfgRequests

LEMMA OneChange ==
  ASSUME NEW k \in SettingKeys, NEW v \in CfgValues \cup {0}
  PROVE  /\ [j \in {k} |-> v] \in CfgChanges
         /\ (CHOOSE j \in DOMAIN [j \in {k} |-> v] : TRUE) = k
         /\ [j \in {k} |-> v] # NoOverrides
<1>1. {k} \in SUBSET SettingKeys /\ [j \in {k} |-> v] \in [{k} -> CfgValues \cup {0}]
  OBVIOUS
<1>2. [j \in {k} |-> v] \in CfgChanges
  BY <1>1 DEF CfgChanges
<1>3. DOMAIN [j \in {k} |-> v] = {k} /\ DOMAIN NoOverrides = {}
  BY DEF NoOverrides
<1> QED
  BY <1>2, <1>3

(* What a position stands for.                                              *)
LEMMA ResolvedIs ==
  ASSUME NEW f \in Readings, NEW o, NEW at, NEW v \in CfgValues \cup {0}, Resolve(f, o, at, v) # NoOverrides
  PROVE  /\ at \in DOMAIN f.settings /\ f.settings[at].key \in SettingKeys
         /\ Resolve(f, o, at, v) \in CfgChanges
         /\ (CHOOSE k \in DOMAIN Resolve(f, o, at, v) : TRUE) = f.settings[at].key
<1> DEFINE s == f.settings[at]
<1>1. at \in DOMAIN f.settings /\ Resolve(f, o, at, v) = [k \in {s.key} |-> v]
  BY DEF Resolve
<1>2. s.key \in SettingKeys
  BY <1>1, SettingIs
<1> HIDE DEF s
<1> QED
  BY <1>1, <1>2, OneChange DEF s

LEMMA ViewIs ==
  ASSUME CfgTypes
  PROVE  FileView \in Readings /\ IsOverrides(StoredOverrides)
  BY FileIsRead, ParsedIsOverrides DEF CfgTypes, FileView, Snapshot, StoredOverrides

(* The change of an import.                                                 *)
LEMMA PlannedIs ==
  ASSUME NEW f, NEW in \in Readings
  PROVE  IsOverrides(PlanImport(f, in))
<1> DEFINE known(k) == f.settings[Lookup(f, k)]
           baseline(k) == IF known(k).default # 0 THEN known(k).default ELSE known(k).value
           differs(s) == s.key \notin Declared(f) \/ (s.value # baseline(s.key) /\ Valid(known(s.key), s.value))
           entries == {i \in DOMAIN in.settings : differs(in.settings[i])}
           of(k) == {i \in entries : in.settings[i].key = k}
<1>1. PlanImport(f, in) = [k \in {in.settings[i].key : i \in entries} |-> in.settings[Max(of(k))].value]
  BY DEF PlanImport
<1>2. \A i \in DOMAIN in.settings : in.settings[i].key \in SettingKeys /\ in.settings[i].value \in CfgValues
  BY SettingIs
<1>3. in.settings \in Seq(SettingsRead)
  BY DEF Readings
<1>4. DOMAIN in.settings = 1 .. Len(in.settings) /\ Len(in.settings) \in Nat
  BY <1>3
<1>5. entries \in SUBSET DOMAIN in.settings
  OBVIOUS
<1> HIDE DEF entries
<1>6. ASSUME NEW i \in entries PROVE in.settings[Max(of(in.settings[i].key))].value \in CfgValues
  <2> DEFINE K == of(in.settings[i].key)
  <2>1. K # {} /\ K \in SUBSET Nat /\ \A j \in K : j <= Len(in.settings)
    BY <1>4, <1>5
  <2>2. Max(K) \in K
    BY <1>4, <2>1, MaxIsGreatest
  <2> QED
    BY <1>2, <1>5, <2>2
<1>7. {in.settings[i].key : i \in entries} \in SUBSET SettingKeys
  BY <1>2, <1>5
<1> QED
  BY <1>1, <1>6, <1>7 DEF IsOverrides

LEMMA RestrictedIs ==
  ASSUME NEW o, IsOverrides(o), NEW K \in SUBSET DOMAIN o
  PROVE  [k \in K |-> o[k]] \in OverrideSets
<1>1. IsOverrides([k \in K |-> o[k]])
  BY DEF IsOverrides
<1> QED
  BY <1>1, OverridesAre

LEMMA ChangedIs ==
  ASSUME NEW o, IsOverrides(o), NEW c \in CfgChanges
  PROVE  IsOverrides(Changed(o, c))
<1> DEFINE K == (DOMAIN o \cup DOMAIN c) \ {k \in DOMAIN c : c[k] = 0}
<1>1. Changed(o, c) = [k \in K |-> IF k \in DOMAIN c THEN c[k] ELSE o[k]]
  BY DEF Changed
<1>2. DOMAIN c \subseteq SettingKeys /\ \A k \in DOMAIN c : c[k] \in CfgValues \cup {0}
  BY ChangeIs
<1>3. \A k \in K : k \in SettingKeys /\ (IF k \in DOMAIN c THEN c[k] ELSE o[k]) \in CfgValues
  BY <1>2 DEF IsOverrides
<1> HIDE DEF K
<1> QED
  BY <1>1, <1>3 DEF IsOverrides

(* What operators have made of the set once a change is stored.             *)
Made(c) ==
  [k \in {j \in SettingKeys : IF j \in DOMAIN c THEN c[j] # 0 ELSE j \in DOMAIN managed}
     |-> IF k \in DOMAIN c THEN c[k] ELSE managed[k]]

LEMMA MadeIsChanged ==
  ASSUME IsOverrides(managed), NEW c \in CfgChanges
  PROVE  Made(c) = Changed(managed, c) /\ IsOverrides(Made(c))
<1>1. DOMAIN c \subseteq SettingKeys /\ DOMAIN managed \subseteq SettingKeys
  BY ChangeIs DEF IsOverrides
<1>2. {j \in SettingKeys : IF j \in DOMAIN c THEN c[j] # 0 ELSE j \in DOMAIN managed}
      = (DOMAIN managed \cup DOMAIN c) \ {k \in DOMAIN c : c[k] = 0}
  BY <1>1
<1>3. Made(c) = Changed(managed, c)
  BY <1>2 DEF Made, Changed
<1> QED
  BY <1>3, ChangedIs

-----------------------------------------------------------------------------
(* What a step does to the request it belongs to                            *)

LEMMA OpenPanelMakes ==
  ASSUME CfgTypes, NEW e \in Editors, OpenPanel(e)
  PROVE  \E x \in CfgRequests :
           /\ editor' = [editor EXCEPT ![e] = x] /\ x.pc = "posted" /\ ~x.typed /\ Turn(e)
           /\ x.sha = digest /\ x.at \in DOMAIN FileView.settings /\ x.saw = FileView.settings[x.at].key
<1>1. PICK i \in DOMAIN FileView.settings, v \in CfgValues \cup {0} :
        /\ Turn(e)
        /\ editor' = [editor EXCEPT ![e] = [NoEdit EXCEPT !.pc = "posted", !.at = i, !.value = v,
                                              !.sha = digest, !.saw = FileView.settings[i].key]]
  BY DEF OpenPanel
<1> DEFINE x == [NoEdit EXCEPT !.pc = "posted", !.at = i, !.value = v, !.sha = digest, !.saw = FileView.settings[i].key]
<1>2. FileView.settings[i].key \in SettingKeys /\ i \in Nat
  BY ViewIs, SettingIs
<1>3. digest \in Texts
  BY DEF CfgTypes
<1>4. x \in CfgRequests
  BY <1>2, <1>3, NoEditTyped DEF CfgRequests
<1>5. x.pc = "posted" /\ ~x.typed /\ x.sha = digest /\ x.at = i /\ x.saw = FileView.settings[i].key
  BY DEF NoEdit
<1> HIDE DEF x
<1> QED
  BY <1>1, <1>4, <1>5 DEF x

LEMMA SaveFormMakes ==
  ASSUME CfgTypes, NEW e \in Editors, SaveForm(e)
  PROVE  \E x \in CfgRequests :
           /\ editor[e].pc = "posted" /\ Step(e, x)
           /\ x.pc \in {"idle", "apply"} /\ x.typed = (x.pc = "apply" /\ editor[e].typed)
           /\ x.pc = "apply" => /\ x.sha = editor[e].sha /\ x.saw = editor[e].saw
                                /\ editor[e].at \in DOMAIN FileView.settings
                                /\ x.key = FileView.settings[editor[e].at].key
<1> DEFINE y == editor[e]
           change == Resolve(FileView, StoredOverrides, y.at, y.value)
           z == [y EXCEPT !.pc = "apply", !.key = CHOOSE k \in DOMAIN change : TRUE, !.change = change]
<1>1. y \in CfgRequests /\ y.value \in CfgValues \cup {0} /\ y.typed \in BOOLEAN
  BY DEF CfgTypes, CfgRequests
<1>2. y.pc = "posted" /\ Step(e, IF change = NoOverrides THEN NoEdit ELSE z)
  BY DEF SaveForm
<1>3. CASE change = NoOverrides
  <2>1. NoEdit.pc = "idle" /\ NoEdit.typed = FALSE
    BY DEF NoEdit
  <2> QED
    BY <1>2, <1>3, <2>1, NoEditTyped
<1>4. CASE change # NoOverrides
  <2>1. /\ y.at \in DOMAIN FileView.settings /\ FileView.settings[y.at].key \in SettingKeys
        /\ change \in CfgChanges /\ (CHOOSE k \in DOMAIN change : TRUE) = FileView.settings[y.at].key
    BY <1>1, <1>4, ViewIs, ResolvedIs
  <2> DEFINE q == FileView.settings[y.at].key
  <2> HIDE DEF change, q, y
  <2>2. z = [y EXCEPT !.pc = "apply", !.key = q, !.change = change] /\ q \in SettingKeys
    BY <2>1 DEF q
  <2> HIDE DEF z
  <2>3. z \in CfgRequests /\ z.pc = "apply" /\ z.typed = y.typed /\ z.sha = y.sha /\ z.saw = y.saw /\ z.key = q
    BY <1>1, <2>1, <2>2 DEF CfgRequests
  <2>4. Step(e, z)
    BY <1>2, <1>4 DEF z, change, y
  <2>5. z.typed = (z.pc = "apply" /\ y.typed)
    BY <1>1, <2>3
  <2> QED
    BY <1>2, <2>1, <2>3, <2>4, <2>5 DEF q, y
<1> QED
  BY <1>3, <1>4

LEMMA ResetMakes ==
  ASSUME CfgTypes, NEW e \in Editors, ResetToDefault(e)
  PROVE  \E x \in CfgRequests :
           editor' = [editor EXCEPT ![e] = x] /\ x.pc = "apply" /\ ~x.typed /\ Turn(e) /\ x.key = x.saw
<1> DEFINE f == FileView
<1>1. PICK i \in DOMAIN f.settings :
        LET s == f.settings[Lookup(f, f.settings[i].key)] IN
        /\ Turn(e) /\ s.default # 0
        /\ editor' = [editor EXCEPT ![e] = [NoEdit EXCEPT !.pc = "apply", !.sha = digest, !.saw = s.key, !.key = s.key,
                                               !.change = [k \in {s.key} |-> s.default]]]
  BY DEF ResetToDefault
<1> DEFINE s == f.settings[Lookup(f, f.settings[i].key)]
           x == [NoEdit EXCEPT !.pc = "apply", !.sha = digest, !.saw = s.key, !.key = s.key, !.change = [k \in {s.key} |-> s.default]]
<1>2. f \in Readings
  BY ViewIs
<1>3. s.key \in SettingKeys /\ s.default \in CfgValues \cup {0}
  <2>1. f.settings[i].key \in Declared(f)
    BY DEF Declared
  <2> HIDE DEF f
  <2>2. Lookup(f, f.settings[i].key) \in DOMAIN f.settings
    BY <1>2, <2>1, LookupIs
  <2> QED
    BY <1>2, <2>2, SettingIs
<1>4. Turn(e) /\ editor' = [editor EXCEPT ![e] = x]
  BY <1>1
<1> HIDE DEF s
<1>5. [k \in {s.key} |-> s.default] \in CfgChanges
  BY <1>3, OneChange
<1>6. digest \in Texts
  BY DEF CfgTypes
<1>7. x \in CfgRequests /\ x.pc = "apply" /\ x.typed = FALSE /\ x.key = x.saw
  BY <1>3, <1>5, <1>6, NoEditTyped DEF CfgRequests, NoEdit
<1> HIDE DEF x
<1> QED
  BY <1>4, <1>7

LEMMA ImportMakes ==
  ASSUME CfgTypes, NEW e \in Editors, ApplyImport(e)
  PROVE  \E x \in CfgRequests :
           editor' = [editor EXCEPT ![e] = x] /\ x.pc \in {"idle", "apply"} /\ ~x.typed /\ Turn(e) /\ x.key = x.saw
<1>1. PICK text \in Pasted, picked \in BOOLEAN :
        LET f == FileView
            in == ParseOverrideSet(text)
            plan == PlanImport(f, ParseConfigFile(text))
            good == {k \in DOMAIN in : k \notin Declared(f) \/ Valid(f.settings[Lookup(f, k)], in[k])}
            said == [k \in DOMAIN in |-> IF k \in DOMAIN plan THEN plan[k] ELSE in[k]]
        IN /\ Turn(e)
           /\ editor' = [editor EXCEPT ![e] = IF DOMAIN plan = {} THEN NoEdit
                                              ELSE [NoEdit EXCEPT !.pc = "apply", !.sha = IF picked THEN digest ELSE <<>>,
                                                                  !.change = plan, !.text = [k \in good |-> said[k]]]]
  BY DEF ApplyImport
<1> DEFINE f == FileView
           in == ParseOverrideSet(text)
           plan == PlanImport(f, ParseConfigFile(text))
           good == {k \in DOMAIN in : k \notin Declared(f) \/ Valid(f.settings[Lookup(f, k)], in[k])}
           said == [k \in DOMAIN in |-> IF k \in DOMAIN plan THEN plan[k] ELSE in[k]]
           values == [k \in good |-> said[k]]
           sha == IF picked THEN digest ELSE <<>>
           x == [NoEdit EXCEPT !.pc = "apply", !.sha = sha, !.change = plan, !.text = values]
<1>2. IsOverrides(in)
  <2>1. text \in Texts
    BY ConfigsAssumption
  <2> QED
    BY <2>1, ParsedIsOverrides
<1>3. Turn(e) /\ editor' = [editor EXCEPT ![e] = IF DOMAIN plan = {} THEN NoEdit ELSE x]
  BY <1>1
<1> HIDE DEF in
<1>4. plan \in CfgChanges
  <2>1. text \in Texts
    BY ConfigsAssumption
  <2>2. IsOverrides(PlanImport(f, ParseConfigFile(text)))
    BY <2>1, FileIsRead, PlannedIs
  <2> QED
    BY <2>2, OverridesAreChanges
<1>5. values \in OverrideSets
  <2>1. text \in Texts
    BY ConfigsAssumption
  <2>2. IsOverrides(plan)
    BY <2>1, FileIsRead, PlannedIs
  <2> HIDE DEF plan
  <2>3. IsOverrides(said)
    BY <1>2, <2>2 DEF IsOverrides
  <2>4. good \in SUBSET DOMAIN said
    OBVIOUS
  <2> HIDE DEF said, good
  <2> QED
    BY <2>3, <2>4, RestrictedIs
<1>6. sha \in Texts
  BY NothingParsed DEF CfgTypes
<1> HIDE DEF plan, values, sha
<1>7. x \in CfgRequests /\ x.pc = "apply" /\ x.typed = FALSE /\ x.key = x.saw
  BY <1>4, <1>5, <1>6, NoEditTyped DEF CfgRequests, NoEdit
<1>8. NoEdit.pc = "idle" /\ NoEdit.typed = FALSE /\ NoEdit.key = NoEdit.saw
  BY DEF NoEdit
<1> HIDE DEF x
<1> QED
  BY <1>3, <1>7, <1>8, NoEditTyped

LEMMA TypedMakes ==
  ASSUME CfgTypes, NEW e \in Editors, TypeOverrides(e)
  PROVE  \E x \in CfgRequests :
           editor' = [editor EXCEPT ![e] = x] /\ x.pc = "write" /\ x.typed /\ Turn(e) /\ x.key = x.saw
<1>1. PICK text \in RawTexts \cup {<<>>} :
        Turn(e) /\ editor' = [editor EXCEPT ![e] = [NoEdit EXCEPT !.pc = "write", !.body = text, !.typed = TRUE]]
  BY DEF TypeOverrides
<1> DEFINE x == [NoEdit EXCEPT !.pc = "write", !.body = text, !.typed = TRUE]
<1>2. text \in Texts
  BY NothingParsed, ConfigsAssumption
<1>3. x \in CfgRequests /\ x.pc = "write" /\ x.typed = TRUE /\ x.key = x.saw
  BY <1>2, NoEditTyped DEF CfgRequests, NoEdit
<1> HIDE DEF x
<1> QED
  BY <1>1, <1>3 DEF x

LEMMA ApplyMakes ==
  ASSUME CfgTypes, NEW e \in Editors, ApplyChanges(e)
  PROVE  \E x \in CfgRequests :
           /\ editor[e].pc = "apply" /\ Step(e, x)
           /\ \/ x.pc = "idle" /\ x = NoEdit
              \/ /\ x.pc = "write" /\ x.typed = editor[e].typed /\ x.key = editor[e].key /\ x.saw = editor[e].saw
                 /\ Unstale(editor[e]) /\ x.change = editor[e].change
                 /\ x.body = EncodeOverrides(Changed(StoredOverrides, editor[e].change))
<1> DEFINE y == editor[e]
           new == Changed(StoredOverrides, y.change)
           z == [y EXCEPT !.pc = "write", !.body = EncodeOverrides(new)]
<1>1. y \in CfgRequests /\ y.change \in CfgChanges
  BY DEF CfgTypes, CfgRequests
<1>2. y.pc = "apply" /\ (Step(e, NoEdit) \/ (Unstale(y) /\ Step(e, z)))
  BY DEF ApplyChanges
<1>3. EncodeOverrides(new) \in Texts
  BY <1>1, ViewIs, ChangedIs, RoundTrip
<1> DEFINE b == EncodeOverrides(new)
<1> HIDE DEF b, y
<1>4. /\ [y EXCEPT !.pc = "write", !.body = b] \in CfgRequests
      /\ \A x : x = [y EXCEPT !.pc = "write", !.body = b] =>
           x.pc = "write" /\ x.body = b /\ x.typed = y.typed /\ x.key = y.key /\ x.saw = y.saw /\ x.change = y.change
  <2>1. b \in Texts
    BY <1>3 DEF b
  <2> QED
    BY <1>1, <2>1 DEF CfgRequests
<1>5. NoEdit.pc = "idle"
  BY DEF NoEdit
<1>6. CASE Step(e, NoEdit)
  BY <1>2, <1>5, <1>6, NoEditTyped DEF y
<1>7. CASE Unstale(y) /\ Step(e, z)
  <2>1. z \in CfgRequests /\ z.pc = "write" /\ z.body = b /\ z.typed = y.typed /\ z.key = y.key /\ z.saw = y.saw /\ z.change = y.change
    BY <1>4 DEF b
  <2> HIDE DEF z
  <2> QED
    BY <1>2, <1>7, <2>1 DEF b, y
<1> QED
  BY <1>2, <1>6, <1>7

(* An operator's request is at one of its calls, or one begins.             *)
CfgRequest(e) ==
  \/ OpenPanel(e) \/ SaveForm(e) \/ ResetToDefault(e) \/ ApplyImport(e)
  \/ TypeOverrides(e) \/ ApplyChanges(e) \/ WriteOverrides(e)

LEMMA CfgTypesNext ==
  ASSUME CfgTypes, [ConfigsNext]_cfgVars
  PROVE  CfgTypes'
<1>1. CASE ServerStartsMerged
  <2>1. disk' = MergeFile(disk, ParseOverrideSet(configMap)) /\ merge'.times = merge.times + 1 /\ merge.times < MaxStarts
    BY <1>1 DEF ServerStartsMerged
  <2>2. disk' \in Texts
    BY <2>1, ParsedIsOverrides, MergedIsText DEF CfgTypes
  <2>3. merge'.times \in 0 .. MaxStarts
    BY <2>1, ConfigsAssumption DEF CfgTypes
  <2> QED
    BY <1>1, <2>2, <2>3 DEF ServerStartsMerged, CfgTypes, IsOverrides
<1>2. CASE PublishFile \/ PublishIndex \/ SyncConfigMap
  BY <1>2 DEF PublishFile, PublishIndex, SyncConfigMap, CfgTypes, IsOverrides
<1>3. ASSUME NEW g \in Generated, ModWrites(g) PROVE CfgTypes'
  <2>1. disk' \in Texts
    BY <1>3, RewrittenIsText, ConfigsAssumption DEF ModWrites, CfgTypes
  <2> QED
    BY <1>3, <2>1 DEF ModWrites, CfgTypes, IsOverrides
<1>4. ASSUME NEW e \in Editors, CfgRequest(e) PROVE CfgTypes'
  <2>1. ASSUME NEW x \in CfgRequests, Turn(e), editor' = [editor EXCEPT ![e] = x] PROVE CfgTypes'
    <3>1. editor' \in [Editors -> CfgRequests]
      BY <2>1 DEF CfgTypes
    <3>2. edits' \in 0 .. MaxEdits
      BY <2>1, ConfigsAssumption DEF Turn, CfgTypes
    <3> QED
      BY <2>1, <3>1, <3>2 DEF Turn, CfgTypes, IsOverrides
  <2>2. ASSUME NEW x \in CfgRequests, Step(e, x) PROVE CfgTypes'
    <3>1. editor' \in [Editors -> CfgRequests]
      BY <2>2 DEF Step, CfgTypes
    <3> QED
      BY <2>2, <3>1 DEF Step, CfgTypes, IsOverrides
  <2>3. CASE WriteOverrides(e)
    <3> DEFINE x == editor[e]
    <3>1. x \in CfgRequests /\ x.change \in CfgChanges /\ x.body \in Texts
      BY DEF CfgTypes, CfgRequests
    <3>2. /\ kept' = x.body /\ editor' = [editor EXCEPT ![e] = NoEdit]
          /\ managed' = IF x.typed THEN ParseOverrideSet(x.body) ELSE Made(x.change)
          /\ UNCHANGED <<disk, copy, digest, configMap, merge, edits>>
      BY <2>3 DEF WriteOverrides, Made
    <3> HIDE DEF x
    <3>3. IsOverrides(managed)'
      <4>1. IsOverrides(ParseOverrideSet(x.body)) /\ IsOverrides(Made(x.change))
        BY <3>1, ParsedIsOverrides, MadeIsChanged DEF CfgTypes
      <4>2. \A o : IsOverrides(o) /\ managed' = o => IsOverrides(managed)'
        BY DEF IsOverrides
      <4> QED
        BY <3>2, <4>1, <4>2
    <3>4. editor' \in [Editors -> CfgRequests]
      BY <3>2, NoEditTyped DEF CfgTypes
    <3> QED
      BY <3>1, <3>2, <3>3, <3>4 DEF CfgTypes
  <2> QED
    BY <1>4, <2>1, <2>2, <2>3, OpenPanelMakes, SaveFormMakes, ResetMakes, ImportMakes, TypedMakes, ApplyMakes
       DEF CfgRequest
<1>5. CASE UNCHANGED cfgVars
  BY <1>5 DEF cfgVars, CfgTypes, IsOverrides
<1> QED
  BY <1>1, <1>2, <1>3, <1>4, <1>5 DEF ConfigsNext, CfgRequest

LEMMA CfgTypesInit ==
  ASSUME NEW files \in SUBSET Texts, NEW sets \in SUBSET OverrideSets, InitConfigs(files, sets)
  PROVE  CfgTypes /\ EditsAreStored
<1>1. IsOverrides(managed)
  BY OverridesAre DEF InitConfigs
<1>2. kept = EncodeOverrides(managed)
  BY DEF InitConfigs
<1>3. kept \in Texts /\ ParseOverrideSet(kept) = managed
  BY <1>1, <1>2, RoundTrip
<1>4. editor \in [Editors -> CfgRequests]
  BY NoEditTyped DEF InitConfigs
<1>5. edits = 0 /\ merge.times = 0
  BY DEF InitConfigs, NoMerge
<1> QED
  BY <1>1, <1>3, <1>4, <1>5, ConfigsAssumption DEF InitConfigs, CfgTypes, EditsAreStored

LEMMA CfgTypesImply == CfgTypes => ConfigsTypeOK
<1> SUFFICES ASSUME CfgTypes PROVE ConfigsTypeOK
  OBVIOUS
<1>1. \A o : IsOverrides(o) => DOMAIN o \subseteq SettingKeys /\ Range(o) \subseteq CfgValues
  BY DEF IsOverrides, Range
<1>2. IsOverrides(managed) /\ IsOverrides(ParseOverrideSet(kept))
  BY ParsedIsOverrides DEF CfgTypes
<1>3. \A e \in Editors : editor[e].pc \in {"idle", "posted", "apply", "write"}
  BY DEF CfgTypes, CfgRequests
<1> QED
  BY <1>1, <1>2, <1>3 DEF CfgTypes, ConfigsTypeOK

(* ConfigsTypeOK: whatever operators, mods and sidecars do, the Override    *)
(* set is one of settings with values that the lines of files can hold      *)
(* (SaveConfig, ParseOverrideSet).                                          *)
THEOREM ConfigsTypeCorrect ==
  ASSUME NEW CONSTANT files \in SUBSET Texts, NEW CONSTANT sets \in SUBSET OverrideSets
  PROVE  ConfigsSpec(files, sets) => []ConfigsTypeOK
<1>1. InitConfigs(files, sets) => CfgTypes
  BY CfgTypesInit
<1>2. CfgTypes /\ [ConfigsNext]_cfgVars => CfgTypes'
  BY CfgTypesNext
<1> QED
  BY <1>1, <1>2, CfgTypesImply, PTL DEF ConfigsSpec

-----------------------------------------------------------------------------
(* EditsAreStored                                                           *)

(* Operators edit one after the other, and what one has saved is what the   *)
(* next one's request reads.                                                *)
OneEditAtATime == ~EditsOverlap /\ ~OverridesLag

Busy(x) == x.pc # "idle"
MakesWhatItStores(x) ==
  /\ x.pc \in {"posted", "apply"} => ~x.typed
  /\ x.pc = "write" /\ ~x.typed => x.body = EncodeOverrides(Made(x.change))
StoredInv ==
  /\ CfgTypes /\ EditsAreStored
  /\ \A d, e \in Editors : Busy(editor[d]) /\ Busy(editor[e]) => d = e
  /\ \A e \in Editors : Busy(editor[e]) => configMap = kept
  /\ \A e \in Editors : MakesWhatItStores(editor[e])

LEMMA StoredNext ==
  ASSUME OneEditAtATime, StoredInv, [ConfigsNext]_cfgVars
  PROVE  StoredInv'
<1>1. CfgTypes'
  BY CfgTypesNext DEF StoredInv
<1>2. CASE UNCHANGED <<kept, editor, managed>> /\ (configMap' = configMap \/ configMap' = kept)
  BY <1>1, <1>2 DEF StoredInv, EditsAreStored, Busy, MakesWhatItStores, Made
<1>3. ASSUME NEW e \in Editors, CfgRequest(e) PROVE StoredInv'
  <2>0. editor \in [Editors -> CfgRequests]
    BY DEF StoredInv, CfgTypes
  <2>1. ASSUME NEW x \in CfgRequests, Turn(e), editor' = [editor EXCEPT ![e] = x],
               x.pc \in {"posted", "apply"} => ~x.typed, x.pc = "write" => x.typed
        PROVE  StoredInv'
    <3>1. /\ \A d \in Editors : ~Busy(editor[d])
          /\ configMap = kept /\ UNCHANGED <<kept, configMap, managed>>
      BY <2>1 DEF Turn, OneEditAtATime, Busy
    <3>2. editor'[e] = x /\ \A d \in Editors : d # e => editor'[d] = editor[d]
      BY <2>0, <2>1
    <3>3. MakesWhatItStores(x)'
      BY <2>1 DEF MakesWhatItStores
    <3>4. \A d \in Editors : MakesWhatItStores(editor[d])'
      BY <3>1, <3>2, <3>3 DEF StoredInv, MakesWhatItStores, Made
    <3> QED
      BY <1>1, <3>1, <3>2, <3>4 DEF StoredInv, EditsAreStored, Busy
  <2>2. ASSUME NEW x \in CfgRequests, Step(e, x), Busy(editor[e]), MakesWhatItStores(x) PROVE StoredInv'
    <3>1. UNCHANGED <<kept, configMap, managed>>
      BY <2>2 DEF Step
    <3>2. editor'[e] = x /\ \A d \in Editors : d # e => editor'[d] = editor[d]
      BY <2>0, <2>2 DEF Step
    <3>3. \A d \in Editors : Busy(editor'[d]) => Busy(editor[d])
      BY <2>2, <3>2
    <3>4. \A d \in Editors : MakesWhatItStores(editor[d])'
      BY <2>2, <3>1, <3>2 DEF StoredInv, MakesWhatItStores, Made
    <3> QED
      BY <1>1, <3>1, <3>3, <3>4 DEF StoredInv, EditsAreStored, Busy
  <2>3. CASE OpenPanel(e) \/ ResetToDefault(e) \/ ApplyImport(e) \/ TypeOverrides(e)
    BY <2>1, <2>3, OpenPanelMakes, ResetMakes, ImportMakes, TypedMakes DEF StoredInv
  <2>4. CASE SaveForm(e)
    <3>1. PICK x \in CfgRequests :
            editor[e].pc = "posted" /\ Step(e, x) /\ x.pc \in {"idle", "apply"} /\ x.typed = (x.pc = "apply" /\ editor[e].typed)
      BY <2>4, SaveFormMakes DEF StoredInv
    <3>2. ~editor[e].typed /\ Busy(editor[e])
      BY <3>1 DEF StoredInv, MakesWhatItStores, Busy
    <3>3. MakesWhatItStores(x)
      BY <3>1, <3>2 DEF MakesWhatItStores
    <3> QED
      BY <2>2, <3>1, <3>2, <3>3
  <2>5. CASE ApplyChanges(e)
    <3>1. PICK x \in CfgRequests :
            /\ editor[e].pc = "apply" /\ Step(e, x)
            /\ \/ x.pc = "idle"
               \/ /\ x.pc = "write" /\ x.change = editor[e].change
                  /\ x.body = EncodeOverrides(Changed(StoredOverrides, editor[e].change))
      BY <2>5, ApplyMakes DEF StoredInv
    <3>2. Busy(editor[e]) /\ configMap = kept /\ ParseOverrideSet(kept) = managed
      BY <3>1 DEF StoredInv, Busy, EditsAreStored
    <3>3. StoredOverrides = managed
      BY <3>2 DEF StoredOverrides
    <3>4. editor[e].change \in CfgChanges
      BY <2>0 DEF CfgRequests
    <3>5. Made(editor[e].change) = Changed(managed, editor[e].change)
      BY <3>4, MadeIsChanged DEF StoredInv, CfgTypes
    <3>6. MakesWhatItStores(x)
      BY <3>1, <3>3, <3>5 DEF MakesWhatItStores
    <3> QED
      BY <2>2, <3>1, <3>2, <3>6
  <2>6. CASE WriteOverrides(e)
    <3> DEFINE x == editor[e]
    <3>1. x.pc = "write" /\ x.change \in CfgChanges
      BY <2>0, <2>6 DEF WriteOverrides, CfgRequests
    <3>2. /\ kept' = x.body /\ editor' = [editor EXCEPT ![e] = NoEdit] /\ configMap' = configMap
          /\ managed' = IF x.typed THEN ParseOverrideSet(x.body) ELSE Made(x.change)
      BY <2>6 DEF WriteOverrides, Made
    <3>3. \A d \in Editors : ~Busy(editor'[d])
      <4>1. Busy(editor[e]) /\ NoEdit.pc = "idle"
        BY <3>1 DEF Busy, NoEdit
      <4>2. \A d \in Editors : d # e => ~Busy(editor[d])
        BY <4>1 DEF StoredInv
      <4>3. editor'[e] = NoEdit /\ \A d \in Editors : d # e => editor'[d] = editor[d]
        BY <2>0, <3>2
      <4> QED
        BY <4>1, <4>2, <4>3 DEF Busy
    <3>4. \A d \in Editors : MakesWhatItStores(editor[d])'
      BY <3>3 DEF MakesWhatItStores, Busy
    <3>5. ParseOverrideSet(kept') = managed'
      <4>1. CASE x.typed
        BY <3>2, <4>1
      <4>2. CASE ~x.typed
        <5>1. x.body = EncodeOverrides(Made(x.change))
          BY <3>1, <4>2 DEF StoredInv, MakesWhatItStores
        <5>2. IsOverrides(Made(x.change))
          BY <3>1, MadeIsChanged DEF StoredInv, CfgTypes
        <5>3. ParseOverrideSet(x.body) = Made(x.change)
          BY <5>1, <5>2, RoundTrip
        <5> QED
          BY <3>2, <4>2, <5>3
      <4> QED
        BY <4>1, <4>2
    <3>6. EditsAreStored'
      BY <3>5 DEF EditsAreStored
    <3> QED
      BY <1>1, <3>3, <3>4, <3>6 DEF StoredInv
  <2> QED
    BY <1>3, <2>3, <2>4, <2>5, <2>6 DEF CfgRequest
<1> QED
  BY <1>2, <1>3 DEF ConfigsNext, CfgRequest, cfgVars, ServerStartsMerged, PublishFile, PublishIndex, SyncConfigMap, ModWrites

LEMMA StoredInit ==
  ASSUME NEW files \in SUBSET Texts, NEW sets \in SUBSET OverrideSets, InitConfigs(files, sets)
  PROVE  StoredInv
<1>1. \A e \in Editors : editor[e] = NoEdit
  BY DEF InitConfigs
<1>2. NoEdit.pc = "idle"
  BY DEF NoEdit
<1> QED
  BY <1>1, <1>2, CfgTypesInit DEF StoredInv, Busy, MakesWhatItStores

-----------------------------------------------------------------------------
(* EditHitsItsSetting                                                       *)

(* A file that a server rewrites is never as it was before.                 *)
FileNeverReturns == [][disk' # disk => disk' \notin seen]_cfgVars

(* The digest of a request is that of the file that is published, or of one *)
(* that will not be published again.                                        *)
OldDigest(sha) == sha # <<>> /\ sha \in seen /\ sha # digest /\ sha \notin {copy, disk}
AimsRight(x) ==
  /\ x.pc = "posted" => /\ x.sha \in seen /\ x.sha # <<>>
                        /\ x.at \in DOMAIN ParseConfigFile(x.sha).settings
                        /\ x.saw = ParseConfigFile(x.sha).settings[x.at].key
                        /\ x.sha = digest \/ OldDigest(x.sha)
  /\ x.pc = "apply" => x.key = x.saw \/ OldDigest(x.sha)
  /\ x.pc = "write" => x.key = x.saw
HitsInv ==
  /\ CfgTypes
  /\ {disk, copy, digest} \subseteq seen
  /\ digest = disk => copy = disk
  /\ \A e \in Editors : AimsRight(editor[e])

LEMMA NothingHasSettings ==
  ASSUME NEW t, DOMAIN ParseConfigFile(t).settings # {}
  PROVE  t # <<>>
<1>1. DOMAIN NothingRead.settings = {}
  BY DEF NothingRead
<1> QED
  BY <1>1, NothingParsed

LEMMA HitsNext ==
  ASSUME HitsInv, [ConfigsNext]_cfgVars, [disk' # disk => disk' \notin seen]_cfgVars
  PROVE  HitsInv'
<1>1. CfgTypes'
  BY CfgTypesNext DEF HitsInv
<1>2. disk' # disk => disk' \notin seen
  BY DEF cfgVars
<1>3. ASSUME editor' = editor, {disk, copy, digest}' \subseteq seen', digest' = disk' => copy' = disk', seen \subseteq seen',
             \A s \in seen : s = digest \/ OldDigest(s) => s = digest' \/ OldDigest(s)',
             \A s : OldDigest(s) => OldDigest(s)'
      PROVE  HitsInv'
  <2>1. \A e \in Editors : AimsRight(editor[e])'
    BY <1>3 DEF HitsInv, AimsRight
  <2> QED
    BY <1>1, <1>3, <2>1 DEF HitsInv
<1>4. CASE UNCHANGED <<copy, digest, editor>> /\ seen' = seen \cup {disk'}
  BY <1>2, <1>3, <1>4 DEF HitsInv, OldDigest
<1>5. CASE PublishFile
  BY <1>3, <1>5 DEF PublishFile, HitsInv, OldDigest
<1>6. CASE PublishIndex
  <2>1. \A s : OldDigest(s) => OldDigest(s)'
    BY <1>6 DEF PublishIndex, OldDigest
  <2>2. \A s \in seen : s = digest /\ s # <<>> => OldDigest(s)'
    BY <1>6 DEF PublishIndex, HitsInv, OldDigest
  <2>3. \A e \in Editors : AimsRight(editor[e])'
    BY <1>6, <2>1, <2>2 DEF PublishIndex, HitsInv, AimsRight
  <2> QED
    BY <1>1, <1>6, <2>3 DEF PublishIndex, HitsInv
<1>7. ASSUME NEW e \in Editors, NEW x \in CfgRequests, editor' = [editor EXCEPT ![e] = x],
             UNCHANGED <<disk, copy, digest, seen>>, AimsRight(x)
      PROVE  HitsInv'
  <2>1. \A d \in Editors : editor'[d] = IF d = e THEN x ELSE editor[d]
    BY <1>7 DEF HitsInv, CfgTypes
  <2>2. \A d \in Editors : AimsRight(editor[d])'
    BY <1>7, <2>1 DEF HitsInv, AimsRight, OldDigest
  <2> QED
    BY <1>1, <1>7, <2>2 DEF HitsInv
<1>8. ASSUME NEW e \in Editors, CfgRequest(e) PROVE HitsInv'
  <2>0. editor[e] \in CfgRequests /\ AimsRight(editor[e]) /\ CfgTypes
    BY DEF HitsInv, CfgTypes
  <2>1. CASE OpenPanel(e)
    <3>1. PICK x \in CfgRequests :
           /\ editor' = [editor EXCEPT ![e] = x] /\ x.pc = "posted" /\ ~x.typed /\ Turn(e)
           /\ x.sha = digest /\ x.at \in DOMAIN FileView.settings /\ x.saw = FileView.settings[x.at].key
      BY <2>0, <2>1, OpenPanelMakes
    <3>2. AimsRight(x)
      BY <3>1, NothingHasSettings DEF AimsRight, HitsInv, FileView, Snapshot
    <3> QED
      BY <1>7, <3>1, <3>2 DEF Turn
  <2>2. CASE SaveForm(e)
    <3>1. PICK x \in CfgRequests :
           /\ editor[e].pc = "posted" /\ Step(e, x)
           /\ x.pc \in {"idle", "apply"}
           /\ x.pc = "apply" => /\ x.sha = editor[e].sha /\ x.saw = editor[e].saw
                                /\ x.key = FileView.settings[editor[e].at].key
      BY <2>0, <2>2, SaveFormMakes
    <3>2. AimsRight(x)
      BY <2>0, <3>1 DEF AimsRight, FileView, Snapshot
    <3> QED
      BY <1>7, <3>1, <3>2 DEF Step
  <2>3. CASE ResetToDefault(e) \/ ApplyImport(e) \/ TypeOverrides(e)
    <3>1. PICK x \in CfgRequests :
            editor' = [editor EXCEPT ![e] = x] /\ x.pc # "posted" /\ Turn(e) /\ x.key = x.saw
      BY <2>0, <2>3, ResetMakes, ImportMakes, TypedMakes
    <3>2. AimsRight(x)
      BY <3>1 DEF AimsRight
    <3> QED
      BY <1>7, <3>1, <3>2 DEF Turn
  <2>4. CASE ApplyChanges(e)
    <3>1. PICK x \in CfgRequests :
           /\ editor[e].pc = "apply" /\ Step(e, x)
           /\ \/ x.pc = "idle"
              \/ x.pc = "write" /\ x.key = editor[e].key /\ x.saw = editor[e].saw /\ Unstale(editor[e])
      BY <2>0, <2>4, ApplyMakes
    <3>2. AimsRight(x)
      BY <2>0, <3>1 DEF AimsRight, OldDigest, Unstale
    <3> QED
      BY <1>7, <3>1, <3>2 DEF Step
  <2>5. CASE WriteOverrides(e)
    <3>1. AimsRight(NoEdit)
      BY DEF AimsRight, NoEdit
    <3> QED
      BY <1>7, <2>5, <3>1, NoEditTyped DEF WriteOverrides
  <2> QED
    BY <1>8, <2>1, <2>2, <2>3, <2>4, <2>5 DEF CfgRequest
<1>9. CASE UNCHANGED cfgVars \/ SyncConfigMap
  BY <1>3, <1>9 DEF cfgVars, SyncConfigMap, HitsInv, OldDigest
<1>10. ASSUME NEW g \in Generated, ModWrites(g) PROVE HitsInv'
  BY <1>4, <1>10 DEF ModWrites
<1>11. CASE ServerStartsMerged
  BY <1>4, <1>11 DEF ServerStartsMerged
<1> QED
  BY <1>5, <1>6, <1>8, <1>9, <1>10, <1>11 DEF ConfigsNext, CfgRequest

LEMMA HitsInit ==
  ASSUME NEW files \in SUBSET Texts, NEW sets \in SUBSET OverrideSets, InitConfigs(files, sets)
  PROVE  HitsInv
<1>1. \A e \in Editors : editor[e] = NoEdit
  BY DEF InitConfigs
<1>2. NoEdit.pc = "idle"
  BY DEF NoEdit
<1> QED
  BY <1>1, <1>2, CfgTypesInit DEF HitsInv, AimsRight, InitConfigs

(* ConfigEditsLand: for any files, settings, operators and edits, if        *)
(* operators take turns and a file that was rewritten does not return, the  *)
(* stored set is what they made of it, and what is saved is saved for the   *)
(* setting that the operator saw (Apply, decodeChanges).                    *)
THEOREM EditsLand ==
  ASSUME NEW CONSTANT files \in SUBSET Texts, NEW CONSTANT sets \in SUBSET OverrideSets
  PROVE  OneEditAtATime => (ConfigsSpec(files, sets) /\ FileNeverReturns => []ConfigEditsLand)
<1> SUFFICES ASSUME OneEditAtATime PROVE ConfigsSpec(files, sets) /\ FileNeverReturns => []ConfigEditsLand
  OBVIOUS
<1>1. InitConfigs(files, sets) => StoredInv /\ HitsInv
  BY StoredInit, HitsInit
<1>2. StoredInv /\ [ConfigsNext]_cfgVars => StoredInv'
  BY StoredNext
<1>3. HitsInv /\ [ConfigsNext]_cfgVars /\ [disk' # disk => disk' \notin seen]_cfgVars => HitsInv'
  BY HitsNext
<1>4. StoredInv /\ HitsInv => ConfigEditsLand
  BY DEF StoredInv, HitsInv, AimsRight, ConfigEditsLand, EditHitsItsSetting
<1> QED
  BY <1>1, <1>2, <1>3, <1>4, PTL DEF ConfigsSpec, FileNeverReturns

-----------------------------------------------------------------------------
(* The order on Minecraft's versions                                        *)

LEMMA LeastIs ==
  ASSUME NEW S \in SUBSET Nat, S # {}
  PROVE  Min(S) \in S /\ \A y \in S : Min(S) <= y
<1>1. PICK x \in S : \A y \in S : x <= y
  BY LeastExists
<1> QED
  BY <1>1 DEF Min

(* Below the first difference two names agree.                              *)
Below(a, b) == \E m \in Nat \ {0} : Part(a, m) < Part(b, m) /\ \A j \in 1 .. m - 1 : Part(a, j) = Part(b, j)
Alike(a, b) == \A m \in Nat \ {0} : Part(a, m) = Part(b, m)

LEMMA PartsAreNumbers ==
  ASSUME NEW a \in Seq(Nat), NEW i
  PROVE  Part(a, i) \in Nat
  BY DEF Part

LEMMA ComparedIs ==
  ASSUME NEW v, NEW w, v.parts \in Seq(Nat), w.parts \in Seq(Nat)
  PROVE  \/ CompareMCVersions(v, w) = 0 /\ Alike(v.parts, w.parts)
         \/ CompareMCVersions(v, w) = -1 /\ Below(v.parts, w.parts)
         \/ CompareMCVersions(v, w) = 1 /\ Below(w.parts, v.parts)
<1> DEFINE a == v.parts
           b == w.parts
           D == {i \in DOMAIN a \cup DOMAIN b : Part(a, i) # Part(b, i)}
<1>1. D \in SUBSET (Nat \ {0})
  <2>1. DOMAIN a = 1 .. Len(a) /\ DOMAIN b = 1 .. Len(b) /\ Len(a) \in Nat /\ Len(b) \in Nat
    OBVIOUS
  <2> HIDE DEF a, b
  <2> QED
    BY <2>1
<1>2. \A i \in Nat \ {0} : i \notin D => Part(a, i) = Part(b, i)
  BY DEF Part
<1>3. CompareMCVersions(v, w) = IF D = {} THEN 0 ELSE IF Part(a, Min(D)) < Part(b, Min(D)) THEN -1 ELSE 1
  BY DEF CompareMCVersions
<1>4. CASE D = {}
  BY <1>2, <1>3, <1>4 DEF Alike
<1>5. CASE D # {}
  <2> DEFINE m == Min(D)
  <2>1. m \in D /\ \A y \in D : m <= y
    BY <1>1, <1>5, LeastIs
  <2>2. m \in Nat \ {0} /\ Part(a, m) # Part(b, m)
    BY <1>1, <2>1
  <2>3. Part(a, m) \in Nat /\ Part(b, m) \in Nat
    BY PartsAreNumbers
  <2>4. \A j \in 1 .. m - 1 : Part(a, j) = Part(b, j) /\ Part(b, j) = Part(a, j)
    <3> TAKE j \in 1 .. m - 1
    <3>1. j \in Nat \ {0} /\ ~ (m <= j)
      BY <2>2
    <3> QED
      BY <1>2, <2>1, <3>1
  <2> HIDE DEF m, D, a, b
  <2>5. CASE Part(a, m) < Part(b, m)
    <3>1. CompareMCVersions(v, w) = -1
      BY <1>3, <1>5, <2>5 DEF m
    <3>2. Below(a, b)
      BY <2>2, <2>4, <2>5 DEF Below
    <3> QED
      BY <3>1, <3>2 DEF a, b
  <2>6. CASE ~ (Part(a, m) < Part(b, m))
    <3>1. CompareMCVersions(v, w) = 1
      BY <1>3, <1>5, <2>6 DEF m
    <3>2. Part(b, m) < Part(a, m)
      BY <2>2, <2>3, <2>6
    <3>3. Below(b, a)
      BY <2>2, <2>4, <3>2 DEF Below
    <3> QED
      BY <3>1, <3>3 DEF a, b
  <2> QED
    BY <2>5, <2>6
<1> QED
  BY <1>4, <1>5

(* The order is total and transitive.                                       *)
LEMMA BelowIsStrict ==
  ASSUME NEW a \in Seq(Nat), NEW b \in Seq(Nat), Below(a, b)
  PROVE  ~ Below(b, a) /\ ~ Alike(a, b)
<1>1. PICK m \in Nat \ {0} : Part(a, m) < Part(b, m) /\ \A j \in 1 .. m - 1 : Part(a, j) = Part(b, j)
  BY DEF Below
<1>2. Part(a, m) \in Nat /\ Part(b, m) \in Nat
  BY PartsAreNumbers
<1>3. ASSUME Below(b, a) PROVE FALSE
  <2>1. PICK n \in Nat \ {0} : Part(b, n) < Part(a, n) /\ \A j \in 1 .. n - 1 : Part(b, j) = Part(a, j)
    BY <1>3 DEF Below
  <2>2. Part(a, n) \in Nat /\ Part(b, n) \in Nat
    BY PartsAreNumbers
  <2>3. m < n \/ n < m \/ m = n
    OBVIOUS
  <2>4. CASE m < n
    <3>1. m \in 1 .. n - 1
      BY <2>4
    <3> QED
      BY <1>1, <1>2, <2>1, <3>1
  <2>5. CASE n < m
    <3>1. n \in 1 .. m - 1
      BY <2>5
    <3> QED
      BY <1>1, <2>2, <2>1, <3>1
  <2> QED
    BY <1>1, <1>2, <2>1, <2>3, <2>4, <2>5
<1> QED
  BY <1>1, <1>2, <1>3 DEF Alike

LEMMA BelowIsTransitive ==
  ASSUME NEW a \in Seq(Nat), NEW b \in Seq(Nat), NEW c \in Seq(Nat),
         Below(a, b) \/ Alike(a, b), Below(b, c) \/ Alike(b, c)
  PROVE  Below(a, c) \/ Alike(a, c)
<1>1. \A i : Part(a, i) \in Nat /\ Part(b, i) \in Nat /\ Part(c, i) \in Nat
  BY PartsAreNumbers
<1>2. CASE Alike(a, b) /\ Alike(b, c)
  BY <1>2 DEF Alike
<1>3. CASE Alike(a, b) /\ Below(b, c)
  <2>1. PICK m \in Nat \ {0} : Part(b, m) < Part(c, m) /\ \A j \in 1 .. m - 1 : Part(b, j) = Part(c, j)
    BY <1>3 DEF Below
  <2>2. Part(a, m) < Part(c, m) /\ \A j \in 1 .. m - 1 : Part(a, j) = Part(c, j)
    BY <1>3, <2>1 DEF Alike
  <2> QED
    BY <2>2 DEF Below
<1>4. CASE Below(a, b) /\ Alike(b, c)
  <2>1. PICK m \in Nat \ {0} : Part(a, m) < Part(b, m) /\ \A j \in 1 .. m - 1 : Part(a, j) = Part(b, j)
    BY <1>4 DEF Below
  <2>2. Part(a, m) < Part(c, m) /\ \A j \in 1 .. m - 1 : Part(a, j) = Part(c, j)
    BY <1>4, <2>1 DEF Alike
  <2> QED
    BY <2>2 DEF Below
<1>5. CASE Below(a, b) /\ Below(b, c)
  <2>1. PICK m \in Nat \ {0} : Part(a, m) < Part(b, m) /\ \A j \in 1 .. m - 1 : Part(a, j) = Part(b, j)
    BY <1>5 DEF Below
  <2>2. PICK n \in Nat \ {0} : Part(b, n) < Part(c, n) /\ \A j \in 1 .. n - 1 : Part(b, j) = Part(c, j)
    BY <1>5 DEF Below
  <2> DEFINE k == IF m <= n THEN m ELSE n
  <2>3. k \in Nat \ {0} /\ k <= m /\ k <= n /\ 1 .. k - 1 \subseteq 1 .. m - 1 /\ 1 .. k - 1 \subseteq 1 .. n - 1
    OBVIOUS
  <2>4. \A j \in 1 .. k - 1 : Part(a, j) = Part(c, j)
    BY <2>1, <2>2, <2>3
  <2>5. Part(a, k) < Part(c, k)
    <3>1. CASE m < n
      <4>1. m \in 1 .. n - 1 /\ k = m
        BY <3>1
      <4> QED
        BY <2>1, <2>2, <4>1
    <3>2. CASE n < m
      <4>1. n \in 1 .. m - 1 /\ k = n
        BY <3>2
      <4> QED
        BY <2>1, <2>2, <4>1
    <3>3. CASE n = m
      <4>1. k = n
        BY <3>3
      <4> QED
        BY <1>1, <2>1, <2>2, <3>3, <4>1
    <3> QED
      BY <3>1, <3>2, <3>3
  <2> HIDE DEF k
  <2> QED
    BY <2>3, <2>4, <2>5 DEF Below
<1> QED
  BY <1>2, <1>3, <1>4, <1>5

LEMMA ComparedOrders ==
  ASSUME NEW u, NEW v, NEW w, u.parts \in Seq(Nat), v.parts \in Seq(Nat), w.parts \in Seq(Nat)
  PROVE  /\ CompareMCVersions(u, v) \in Int
         /\ CompareMCVersions(u, v) > 0 => CompareMCVersions(v, u) <= 0
         /\ CompareMCVersions(u, v) <= 0 /\ CompareMCVersions(v, w) <= 0 => CompareMCVersions(u, w) <= 0
         /\ CompareMCVersions(u, u) <= 0
<1>1. \A x \in {u, v, w}, y \in {u, v, w} :
        /\ CompareMCVersions(x, y) \in Int
        /\ CompareMCVersions(x, y) <= 0 <=> Below(x.parts, y.parts) \/ Alike(x.parts, y.parts)
        /\ CompareMCVersions(x, y) > 0 <=> Below(y.parts, x.parts)
  <2> TAKE x \in {u, v, w}, y \in {u, v, w}
  <2>1. x.parts \in Seq(Nat) /\ y.parts \in Seq(Nat)
    OBVIOUS
  <2>2. \/ CompareMCVersions(x, y) = 0 /\ Alike(x.parts, y.parts)
        \/ CompareMCVersions(x, y) = -1 /\ Below(x.parts, y.parts)
        \/ CompareMCVersions(x, y) = 1 /\ Below(y.parts, x.parts)
    BY <2>1, ComparedIs
  <2>3. /\ Below(x.parts, y.parts) => ~ Below(y.parts, x.parts) /\ ~ Alike(x.parts, y.parts)
        /\ Below(y.parts, x.parts) => ~ Below(x.parts, y.parts) /\ ~ Alike(y.parts, x.parts)
    BY <2>1, BelowIsStrict
  <2>4. Alike(x.parts, y.parts) <=> Alike(y.parts, x.parts)
    BY DEF Alike
  <2> QED
    BY <2>2, <2>3, <2>4
<1>2. Below(u.parts, v.parts) => ~ Below(v.parts, u.parts)
  BY BelowIsStrict
<1>3. (Below(u.parts, v.parts) \/ Alike(u.parts, v.parts)) /\ (Below(v.parts, w.parts) \/ Alike(v.parts, w.parts))
        => Below(u.parts, w.parts) \/ Alike(u.parts, w.parts)
  BY BelowIsTransitive
<1>4. Alike(u.parts, u.parts)
  BY DEF Alike
<1> QED
  BY <1>1, <1>2, <1>3, <1>4

-----------------------------------------------------------------------------
(* The highest version of a list                                            *)

LEMMA ChoosingIs ==
  ASSUME NEW names \in Seq(GameVersions)
  PROVE  /\ Choosing(names)[0] = Unpinned
         /\ \A i \in 1 .. Len(names) : Choosing(names)[i] = Higher(Choosing(names)[i - 1], names[i])
<1> DEFINE n == Len(names)
           A == GameVersions \cup {Unpinned}
           step == [x \in (1 .. n) \X A |-> Higher(x[2], names[x[1]])]
           Def(g) == g = [i \in 0 .. n |-> IF i = 0 THEN Unpinned ELSE Higher(g[i - 1], names[i])]
<1>1. n \in Nat /\ \A i \in 1 .. n : names[i] \in GameVersions
  OBVIOUS
<1> HIDE DEF n
<1>2. step \in [(1 .. n) \X A -> A]
  <2>1. ASSUME NEW x \in (1 .. n) \X A PROVE Higher(x[2], names[x[1]]) \in A
    BY <1>1 DEF Higher
  <2> QED
    BY <2>1
<1>3. PICK g \in [0 .. n -> A] : g[0] = Unpinned /\ \A i \in 1 .. n : g[i] = step[<<i, g[i - 1]>>]
  <2> HIDE DEF step, Def
  <2>1. Unpinned \in A
    OBVIOUS
  <2> HIDE DEF A
  <2>2. Computes(n, A, Unpinned, step)
    BY <1>1, <1>2, <2>1, Loops
  <2> QED
    BY <2>2 DEF Computes
<1>4. \A i \in 1 .. n : g[i] = Higher(g[i - 1], names[i])
  <2> TAKE i \in 1 .. n
  <2>1. i - 1 \in 0 .. n
    BY <1>1
  <2>2. <<i, g[i - 1]>> \in (1 .. n) \X A
    BY <1>3, <2>1
  <2> QED
    BY <1>3, <2>2
<1>5. Def(g)
  BY <1>3, <1>4, <1>1
<1>6. Choosing(names) = CHOOSE h : Def(h)
  BY DEF Choosing, n
<1>7. Def(Choosing(names))
  <2> HIDE DEF Def
  <2> QED
    BY <1>5, <1>6
<1> QED
  BY <1>1, <1>7 DEF n

(* HighestMCVersion, of a list of any length.                               *)
IsHighest(names, best) ==
  LET versions == {names[i] : i \in {j \in DOMAIN names : IsMCVersion(names[j])}}
  IN IF versions = {} THEN best = Unpinned
     ELSE best \in versions /\ \A v \in versions : CompareMCVersions(v, best) <= 0

LEMMA HighestIs ==
  ASSUME NEW names \in Seq(GameVersions)
  PROVE  IsHighest(names, HighestMCVersion(names))
<1> DEFINE n == Len(names)
           best == Choosing(names)
           V(i) == {j \in 1 .. i : IsMCVersion(names[j])}
           Good(i) == IF V(i) = {} THEN best[i] = Unpinned
                      ELSE /\ \E j \in V(i) : best[i] = names[j]
                           /\ \A j \in V(i) : CompareMCVersions(names[j], best[i]) <= 0
           S == {i \in 0 .. n : Good(i)}
<1>1. n \in Nat /\ \A i \in 1 .. n : names[i] \in GameVersions /\ names[i].parts \in Seq(Nat) /\ names[i] # Unpinned
  BY VersionsAssumption
<1>2. best[0] = Unpinned /\ \A i \in 1 .. n : best[i] = Higher(best[i - 1], names[i])
  BY ChoosingIs
<1> HIDE DEF n, best
<1>3. 0 \in S
  <2>1. V(0) = {}
    OBVIOUS
  <2> QED
    BY <1>1, <1>2, <2>1
<1>4. ASSUME NEW i \in 0 .. n, i < n, i \in S PROVE i + 1 \in S
  <2> DEFINE v == names[i + 1]
             b == best[i]
  <2>1. i + 1 \in 1 .. n /\ (i + 1) - 1 = i /\ i \in Nat
    BY <1>1, <1>4
  <2>2. v \in GameVersions /\ v.parts \in Seq(Nat) /\ best[i + 1] = Higher(b, v)
    BY <1>1, <1>2, <2>1
  <2>3. V(i + 1) = IF IsMCVersion(v) THEN V(i) \cup {i + 1} ELSE V(i)
    <3> HIDE DEF b
    <3>1. \A j \in 1 .. i + 1 : j \in 1 .. i \/ j = i + 1
      BY <2>1
    <3>2. 1 .. i \subseteq 1 .. i + 1 /\ i + 1 \in 1 .. i + 1 /\ i + 1 \notin 1 .. i
      BY <2>1
    <3> QED
      BY <3>1, <3>2
  <2>4. Good(i)
    BY <1>4
  <2>5. \A j \in V(i) : j \in 1 .. n
    BY <1>1, <1>4, <2>1
  <2> HIDE DEF v, b, V
  <2>6. CASE ~ IsMCVersion(v)
    <3>1. best[i + 1] = best[i] /\ V(i + 1) = V(i)
      BY <2>2, <2>3, <2>6 DEF Higher, b
    <3>2. Good(i + 1)
      BY <2>4, <3>1
    <3> HIDE DEF Good
    <3> QED
      BY <2>1, <3>2
  <2>7. CASE IsMCVersion(v) /\ V(i) = {}
    <3>1. b = Unpinned /\ V(i + 1) = {i + 1}
      BY <2>3, <2>4, <2>7 DEF b
    <3>2. best[i + 1] = v
      BY <2>2, <2>7, <3>1 DEF Higher, Exceeds
    <3>3. CompareMCVersions(v, v) <= 0
      BY <2>2, ComparedOrders
    <3>4. \A j \in V(i + 1) : names[j] = v
      BY <3>1 DEF v
    <3>5. Good(i + 1)
      BY <3>1, <3>2, <3>3, <3>4 DEF v
    <3> HIDE DEF Good
    <3> QED
      BY <2>1, <3>5
  <2>8. CASE IsMCVersion(v) /\ V(i) # {}
    <3>1. PICK k \in V(i) : b = names[k]
      BY <2>4, <2>8 DEF b
    <3>2. \A j \in V(i) : CompareMCVersions(names[j], b) <= 0
      BY <2>4, <2>8 DEF b
    <3>3. b \in GameVersions /\ b.parts \in Seq(Nat) /\ b # Unpinned
      BY <1>1, <2>5, <3>1
    <3>4. CompareMCVersions(v, b) \in Int /\ (CompareMCVersions(v, b) > 0 => CompareMCVersions(b, v) <= 0)
      BY <2>2, <3>3, ComparedOrders
    <3>5. V(i + 1) = V(i) \cup {i + 1}
      BY <2>3, <2>8
    <3>6. CASE CompareMCVersions(v, b) > 0
      <4>1. best[i + 1] = v
        BY <2>2, <2>8, <3>6 DEF Higher, Exceeds
      <4>2. \A j \in V(i) : CompareMCVersions(names[j], v) <= 0
        <5> TAKE j \in V(i)
        <5>1. names[j].parts \in Seq(Nat)
          BY <1>1, <2>5
        <5> QED
          BY <2>2, <3>2, <3>3, <3>4, <3>6, <5>1, ComparedOrders
      <4>3. CompareMCVersions(v, v) <= 0
        BY <2>2, ComparedOrders
      <4>4. \A j \in V(i + 1) : CompareMCVersions(names[j], v) <= 0
        BY <3>5, <4>2, <4>3 DEF v
      <4>5. i + 1 \in V(i + 1) /\ v = names[i + 1]
        BY <3>5 DEF v
      <4>6. Good(i + 1)
        BY <4>1, <4>4, <4>5
      <4> HIDE DEF Good
      <4> QED
        BY <2>1, <4>6
    <3>7. CASE ~ (CompareMCVersions(v, b) > 0)
      <4>1. best[i + 1] = b
        BY <2>2, <2>8, <3>3, <3>7 DEF Higher, Exceeds
      <4>2. CompareMCVersions(v, b) <= 0
        BY <3>4, <3>7
      <4>3. \A j \in V(i + 1) : CompareMCVersions(names[j], b) <= 0
        BY <3>2, <3>5, <4>2 DEF v
      <4>4. k \in V(i + 1)
        BY <3>5
      <4>5. Good(i + 1)
        BY <4>1, <4>3, <4>4, <3>1
      <4> HIDE DEF Good
      <4> QED
        BY <2>1, <4>5
    <3> QED
      BY <3>6, <3>7
  <2> QED
    BY <2>6, <2>7, <2>8
<1>5. n \in S
  <2> HIDE DEF S
  <2>1. 0 .. n \subseteq S
    BY <1>1, <1>3, <1>4, UpTo
  <2> QED
    BY <1>1, <2>1
<1>6. Good(n)
  BY <1>5
<1>7. HighestMCVersion(names) = best[n] /\ V(n) = {j \in DOMAIN names : IsMCVersion(names[j])}
  BY DEF HighestMCVersion, best, n
<1> HIDE DEF V
<1>8. {names[i] : i \in V(n)} = {} <=> V(n) = {}
  OBVIOUS
<1> QED
  BY <1>6, <1>7, <1>8 DEF IsHighest

-----------------------------------------------------------------------------
(* The order on the versions of mods                                        *)

\* The plain versions are those the reference can rank: three numbers, as
\* Thunderstore requires, each below Base.
ThreeNumbers ==
  \A v \in Published : Plain(v) =>
    /\ Len(v.core) <= 3 /\ \A i \in DOMAIN v.core : v.core[i][1] < Base
    /\ \A i \in DOMAIN v.pre : v.pre[i] < Base - 1

LEMMA Lexicographic ==
  ASSUME NEW x \in Nat, NEW y \in Nat, NEW B \in Nat, NEW a \in Nat, NEW b \in Nat, a < B, b < B
  PROVE  (x * B + a > y * B + b) <=> (x > y \/ (x = y /\ a > b))
<1>1. CASE x > y
  <2>1. x * B >= (y + 1) * B /\ (y + 1) * B = y * B + B /\ x * B \in Nat /\ y * B \in Nat
    <3>1. PICK d \in Nat : x = y + 1 + d
      <4>1. x - (y + 1) \in Nat /\ x = y + 1 + (x - (y + 1))
        BY <1>1
      <4> QED
        BY <4>1
    <3>2. x * B = (y + 1) * B + d * B /\ d * B \in Nat /\ (y + 1) * B \in Nat
      BY <3>1
    <3>3. (y + 1) * B = y * B + B /\ x * B \in Nat /\ y * B \in Nat
      OBVIOUS
    <3> QED
      BY <3>2, <3>3
  <2> QED
    BY <1>1, <2>1
<1>2. CASE y > x
  <2>1. y * B >= (x + 1) * B /\ (x + 1) * B = x * B + B /\ x * B \in Nat /\ y * B \in Nat
    <3>1. PICK d \in Nat : y = x + 1 + d
      <4>1. y - (x + 1) \in Nat /\ y = x + 1 + (y - (x + 1))
        BY <1>2
      <4> QED
        BY <4>1
    <3>2. y * B = (x + 1) * B + d * B /\ d * B \in Nat /\ (x + 1) * B \in Nat
      BY <3>1
    <3>3. (x + 1) * B = x * B + B /\ x * B \in Nat /\ y * B \in Nat
      OBVIOUS
    <3> QED
      BY <3>2, <3>3
  <2> QED
    BY <1>2, <2>1
<1>3. CASE x = y
  <2>1. x * B \in Nat /\ x * B = y * B
    BY <1>3
  <2> QED
    BY <1>3, <2>1
<1> QED
  BY <1>1, <1>2, <1>3

\* What comes after the numbers: a release after its pre-releases.
Stage(v) == IF v.pre = <<>> THEN Base - 1 ELSE v.pre[1]
\* The order of the reference.
Later(v, p) ==
  \/ Digit(v, 1) > Digit(p, 1)
  \/ Digit(v, 1) = Digit(p, 1) /\ Digit(v, 2) > Digit(p, 2)
  \/ Digit(v, 1) = Digit(p, 1) /\ Digit(v, 2) = Digit(p, 2) /\ Digit(v, 3) > Digit(p, 3)
  \/ Digit(v, 1) = Digit(p, 1) /\ Digit(v, 2) = Digit(p, 2) /\ Digit(v, 3) = Digit(p, 3) /\ Stage(v) > Stage(p)

LEMMA DigitsFit ==
  ASSUME ThreeNumbers, NEW v \in Published, Plain(v)
  PROVE  /\ \A i : Digit(v, i) \in Nat /\ Digit(v, i) < Base
         /\ Stage(v) \in Nat /\ Stage(v) < Base
<1>1. v.core \in Segments /\ v.pre \in Seq(Nat) /\ Base \in Nat \ {0}
  BY VersionsAssumption
<1>2. \A i \in DOMAIN v.core : v.core[i][1] \in Nat
  BY <1>1 DEF Segments
<1>3. v.pre # <<>> => 1 \in DOMAIN v.pre /\ v.pre[1] \in Nat
  BY <1>1
<1> QED
  BY <1>1, <1>2, <1>3 DEF ThreeNumbers, Digit, Stage

LEMMA RankIsLater ==
  ASSUME ThreeNumbers, NEW v \in Published, Plain(v), NEW p \in Published, Plain(p)
  PROVE  Rank(v) \in Nat /\ Rank(p) \in Nat /\ (Rank(v) > Rank(p) <=> Later(v, p))
<1> DEFINE a1 == Digit(v, 1) a2 == Digit(v, 2) a3 == Digit(v, 3) a4 == Stage(v)
           b1 == Digit(p, 1) b2 == Digit(p, 2) b3 == Digit(p, 3) b4 == Stage(p)
<1>1. /\ a1 \in Nat /\ a1 < Base /\ a2 \in Nat /\ a2 < Base /\ a3 \in Nat /\ a3 < Base /\ a4 \in Nat /\ a4 < Base
      /\ b1 \in Nat /\ b1 < Base /\ b2 \in Nat /\ b2 < Base /\ b3 \in Nat /\ b3 < Base /\ b4 \in Nat /\ b4 < Base
      /\ Base \in Nat
  BY DigitsFit, VersionsAssumption
<1>2. /\ Rank(v) = ((a1 * Base + a2) * Base + a3) * Base + a4
      /\ Rank(p) = ((b1 * Base + b2) * Base + b3) * Base + b4
  BY DEF Rank, Stage
<1>3. Later(v, p) <=> \/ a1 > b1 \/ (a1 = b1 /\ a2 > b2) \/ (a1 = b1 /\ a2 = b2 /\ a3 > b3)
                      \/ (a1 = b1 /\ a2 = b2 /\ a3 = b3 /\ a4 > b4)
  BY DEF Later
<1> DEFINE x1 == a1 * Base + a2  x2 == x1 * Base + a3  x3 == x2 * Base + a4
           y1 == b1 * Base + b2  y2 == y1 * Base + b3  y3 == y2 * Base + b4
<1> HIDE DEF a1, a2, a3, a4, b1, b2, b3, b4
<1>4. x1 \in Nat /\ y1 \in Nat /\ (x1 > y1 <=> (a1 > b1 \/ (a1 = b1 /\ a2 > b2)))
         /\ (y1 > x1 <=> (b1 > a1 \/ (b1 = a1 /\ b2 > a2)))
  <2>1. a1 * Base \in Nat /\ b1 * Base \in Nat
    BY <1>1
  <2> QED
    BY <1>1, <2>1, Lexicographic
<1>5. x1 = y1 <=> a1 = b1 /\ a2 = b2
  BY <1>1, <1>4
<1> HIDE DEF x1, y1
<1>6. x2 \in Nat /\ y2 \in Nat /\ (x2 > y2 <=> (x1 > y1 \/ (x1 = y1 /\ a3 > b3)))
         /\ (y2 > x2 <=> (y1 > x1 \/ (y1 = x1 /\ b3 > a3)))
  <2>1. x1 * Base \in Nat /\ y1 * Base \in Nat
    BY <1>1, <1>4
  <2> QED
    BY <1>1, <1>4, <2>1, Lexicographic
<1>7. x2 = y2 <=> x1 = y1 /\ a3 = b3
  BY <1>1, <1>4, <1>6
<1> HIDE DEF x2, y2
<1>8. x3 \in Nat /\ y3 \in Nat /\ (x3 > y3 <=> (x2 > y2 \/ (x2 = y2 /\ a4 > b4)))
  <2>1. x2 * Base \in Nat /\ y2 * Base \in Nat
    BY <1>1, <1>6
  <2> QED
    BY <1>1, <1>6, <2>1, Lexicographic
<1>9. Rank(v) = x3 /\ Rank(p) = y3
  BY <1>2 DEF x1, x2, y1, y2
<1> HIDE DEF x3, y3
<1> QED
  BY <1>3, <1>4, <1>5, <1>6, <1>7, <1>8, <1>9

LEMMA OneElement ==
  ASSUME NEW s \in Seq(Nat), Len(s) <= 1, s # <<>>
  PROVE  Len(s) = 1 /\ 1 \in DOMAIN s /\ s = <<s[1]>>
<1>1. Len(s) \in Nat /\ DOMAIN s = 1 .. Len(s) /\ s = [i \in 1 .. Len(s) |-> s[i]]
  OBVIOUS
<1>2. Len(s) # 0
  BY EmptySeq
<1>3. Len(s) = 1
  BY <1>1, <1>2
<1> QED
  BY <1>1, <1>3

\* VersionNewer, where the reference applies.
LEMMA NewerIsLater ==
  ASSUME ThreeNumbers, NEW v \in Published, Plain(v), NEW p \in Published, Plain(p)
  PROVE  VersionNewer(v, p) <=> Later(v, p)
<1> DEFINE D == Deciding(v.core, p.core)
<1>1. /\ v.core \in Segments /\ v.pre \in Seq(Nat) /\ p.core \in Segments /\ p.pre \in Seq(Nat)
      /\ v # Unpinned /\ p # Unpinned /\ v.build = <<>> /\ p.build = <<>> /\ Len(v.pre) <= 1 /\ Len(p.pre) <= 1
      /\ Len(v.core) <= 3 /\ Len(p.core) <= 3
  BY VersionsAssumption DEF Plain, ThreeNumbers
<1>2. \A i : /\ parseLeadingInt(v.core, i)[1] = Digit(v, i) /\ parseLeadingInt(v.core, i)[2] = 0
             /\ parseLeadingInt(p.core, i)[1] = Digit(p, i) /\ parseLeadingInt(p.core, i)[2] = 0
  BY DEF parseLeadingInt, Digit, Plain
<1>3. D = {i \in DOMAIN v.core \cup DOMAIN p.core : Digit(v, i) # Digit(p, i)}
  BY <1>2 DEF Deciding
<1>4. D \subseteq {1, 2, 3}
  <2>1. DOMAIN v.core = 1 .. Len(v.core) /\ DOMAIN p.core = 1 .. Len(p.core) /\ Len(v.core) \in Nat /\ Len(p.core) \in Nat
    BY <1>1 DEF Segments
  <2> QED
    BY <1>1, <1>3, <2>1
<1>5. \A i : Digit(v, i) # Digit(p, i) => i \in D
  BY <1>3 DEF Digit
<1>6. \A i : Digit(v, i) \in Nat /\ Digit(p, i) \in Nat
  BY DigitsFit
<1>7. Ahead(v.core, p.core) <=> Digit(v, Min(D)) > Digit(p, Min(D))
  <2>1. \A x, y \in Nat : x > y <=> x > y \/ (x = y /\ 0 > 0)
    OBVIOUS
  <2>2. Ahead(v.core, p.core) <=>
          \/ parseLeadingInt(v.core, Min(D))[1] > parseLeadingInt(p.core, Min(D))[1]
          \/ /\ parseLeadingInt(v.core, Min(D))[1] = parseLeadingInt(p.core, Min(D))[1]
             /\ parseLeadingInt(v.core, Min(D))[2] > parseLeadingInt(p.core, Min(D))[2]
    BY DEF Ahead
  <2> HIDE DEF D
  <2> QED
    BY <1>2, <1>6, <2>2
<1> HIDE DEF D
<1>8. CASE D # {}
  <2> DEFINE m == Min(D)
  <2>1. m \in D /\ \A y \in D : m <= y
    <3>1. D \in SUBSET Nat
      BY <1>4
    <3> QED
      BY <1>8, <3>1, LeastIs
  <2>2. v # p
    BY <1>3, <2>1
  <2>3. VersionNewer(v, p) <=> Ahead(v.core, p.core)
    BY <1>1, <1>8, <2>2 DEF VersionNewer, D
  <2>4. Digit(v, m) # Digit(p, m)
    BY <1>3, <2>1
  <2> HIDE DEF m
  <2>5. m = 1 \/ m = 2 \/ m = 3
    BY <1>4, <2>1
  <2>6. /\ m = 2 => Digit(v, 1) = Digit(p, 1)
        /\ m = 3 => Digit(v, 1) = Digit(p, 1) /\ Digit(v, 2) = Digit(p, 2)
    BY <1>5, <2>1
  <2>7. /\ Digit(v, 1) \in Nat /\ Digit(p, 1) \in Nat /\ Digit(v, 2) \in Nat /\ Digit(p, 2) \in Nat
        /\ Digit(v, 3) \in Nat /\ Digit(p, 3) \in Nat
    BY <1>6
  <2>8. VersionNewer(v, p) <=> Digit(v, m) > Digit(p, m)
    BY <1>7, <2>3 DEF m
  <2> QED
    BY <2>4, <2>5, <2>6, <2>7, <2>8 DEF Later
<1>9. CASE D = {}
  <2>1. Digit(v, 1) = Digit(p, 1) /\ Digit(v, 2) = Digit(p, 2) /\ Digit(v, 3) = Digit(p, 3)
    BY <1>5, <1>9
  <2>2. Digit(v, 1) \in Nat /\ Digit(v, 2) \in Nat /\ Digit(v, 3) \in Nat
    BY <1>6
  <2>3. Later(v, p) <=> Stage(v) > Stage(p)
    BY <2>1, <2>2 DEF Later
  <2>4. /\ v.pre = <<>> \/ (v.pre = <<v.pre[1]>> /\ v.pre[1] \in Nat /\ v.pre[1] < Base - 1)
        /\ p.pre = <<>> \/ (p.pre = <<p.pre[1]>> /\ p.pre[1] \in Nat /\ p.pre[1] < Base - 1)
    <3>1. ASSUME NEW x \in {v, p}, x.pre # <<>> PROVE x.pre = <<x.pre[1]>> /\ x.pre[1] \in Nat /\ x.pre[1] < Base - 1
      <4>1. x.pre \in Seq(Nat) /\ Len(x.pre) <= 1
        BY <1>1
      <4> DEFINE s == x.pre
      <4>2. s \in Seq(Nat) /\ Len(s) <= 1 /\ s # <<>>
        BY <3>1, <4>1
      <4> HIDE DEF s
      <4>3. Len(s) = 1 /\ 1 \in DOMAIN s /\ s = <<s[1]>>
        BY <4>2, OneElement
      <4> QED
        BY <4>2, <4>3 DEF ThreeNumbers, s
    <3> QED
      BY <3>1
  <2>5. Base \in Nat \ {0}
    BY VersionsAssumption
  <2>6. v = p => ~ (Stage(v) > Stage(p))
    BY <2>4, <2>5 DEF Stage
  <2>7. CASE v = p
    BY <2>3, <2>6, <2>7 DEF VersionNewer
  <2>8. CASE v # p
    <3>1. CASE v.pre = <<>> /\ p.pre = <<>>
      BY <1>1, <1>9, <2>3, <2>5, <2>8, <3>1 DEF VersionNewer, NewerBuild, Stage, D
    <3>2. CASE v.pre = <<>> /\ p.pre # <<>>
      BY <1>1, <1>9, <2>3, <2>4, <2>5, <2>8, <3>2 DEF VersionNewer, Stage, D
    <3>3. CASE v.pre # <<>> /\ p.pre = <<>>
      <4>1. ~ VersionNewer(v, p)
        BY <1>1, <1>9, <2>8, <3>3 DEF VersionNewer, D
      <4>2. ~ (Stage(v) > Stage(p))
        BY <2>4, <2>5, <3>3 DEF Stage
      <4> QED
        BY <2>3, <4>1, <4>2
    <3>4. CASE v.pre # <<>> /\ p.pre # <<>>
      <4> DEFINE x == v.pre[1]  y == p.pre[1]
                 a == Characters(v.pre)  b == Characters(p.pre)
      <4>1. x \in Nat /\ y \in Nat /\ v.pre = <<x>> /\ p.pre = <<y>> /\ Stage(v) = x /\ Stage(p) = y
        BY <2>4, <3>4 DEF Stage
      <4> HIDE DEF x, y
      <4>2. a = [i \in {1} |-> <<x, 0>>] /\ b = [i \in {1} |-> <<y, 0>>]
        BY <4>1 DEF Characters
      <4>3. CASE x = y
        <5>1. v.pre = p.pre
          BY <4>1, <4>3
        <5>2. ~ VersionNewer(v, p)
          BY <1>1, <1>9, <2>8, <3>4, <5>1 DEF VersionNewer, NewerBuild, D
        <5> QED
          BY <2>3, <4>1, <4>3, <5>2
      <4>4. CASE x # y
        <5>1. v.pre # p.pre
          BY <4>1, <4>4
        <5>2. VersionNewer(v, p) <=> TextAfter(a, b)
          BY <1>1, <1>9, <2>8, <3>4, <5>1 DEF VersionNewer, D
        <5> DEFINE E == {i \in DOMAIN a \cap DOMAIN b : a[i] # b[i]}
        <5>3. E = {1}
          BY <4>2, <4>4
        <5>4. Min(E) = 1
          BY <5>3 DEF Min
        <5>5. TextAfter(a, b) <=> a[1][1] > b[1][1] \/ (a[1][1] = b[1][1] /\ a[1][2] > b[1][2])
          <6> HIDE DEF a, b
          <6>1. TextAfter(a, b) <=> IF E = {} THEN Len(a) > Len(b)
                                    ELSE a[Min(E)][1] > b[Min(E)][1] \/ (a[Min(E)][1] = b[Min(E)][1] /\ a[Min(E)][2] > b[Min(E)][2])
            BY DEF TextAfter
          <6> QED
            BY <5>3, <5>4, <6>1
        <5>6. a[1][1] = x /\ b[1][1] = y
          BY <4>2
        <5> QED
          BY <2>3, <4>1, <4>4, <5>2, <5>5, <5>6
      <4> QED
        BY <4>3, <4>4
    <3> QED
      BY <3>1, <3>2, <3>3, <3>4
  <2> QED
    BY <2>7, <2>8
<1> QED
  BY <1>8, <1>9

\* No two versions are newer than each other, letters and metadata included.
LEMMA PairsOrdered ==
  ASSUME NEW x \in Nat \X Nat, NEW y \in Nat \X Nat
  PROVE  ~ ((x[1] > y[1] \/ (x[1] = y[1] /\ x[2] > y[2])) /\ (y[1] > x[1] \/ (y[1] = x[1] /\ y[2] > x[2])))
  OBVIOUS

LEMMA AheadIsStrict ==
  ASSUME NEW a \in Segments, NEW b \in Segments
  PROVE  /\ Deciding(a, b) = Deciding(b, a)
         /\ ~ (Ahead(a, b) /\ Ahead(b, a))
<1>1. \A i : parseLeadingInt(a, i) \in Nat \X Nat /\ parseLeadingInt(b, i) \in Nat \X Nat
  BY DEF parseLeadingInt, Segments
<1>2. Deciding(a, b) = Deciding(b, a)
  BY DEF Deciding
<1> DEFINE m == Min(Deciding(a, b))
           x == parseLeadingInt(a, m)
           y == parseLeadingInt(b, m)
<1>3. /\ Ahead(a, b) <=> x[1] > y[1] \/ (x[1] = y[1] /\ x[2] > y[2])
      /\ Ahead(b, a) <=> y[1] > x[1] \/ (y[1] = x[1] /\ y[2] > x[2])
  BY <1>2 DEF Ahead
<1>4. x \in Nat \X Nat /\ y \in Nat \X Nat
  BY <1>1
<1> HIDE DEF x, y, m
<1> QED
  BY <1>2, <1>3, <1>4, PairsOrdered

LEMMA TextIsStrict ==
  ASSUME NEW a \in Segments, NEW b \in Segments
  PROVE  ~ (TextAfter(a, b) /\ TextAfter(b, a))
<1> DEFINE D == {i \in DOMAIN a \cap DOMAIN b : a[i] # b[i]}
           E == {i \in DOMAIN b \cap DOMAIN a : b[i] # a[i]}
           m == Min(D)
           x == a[m]
           y == b[m]
<1>1. D = E
  OBVIOUS
<1>2. Len(a) \in Nat /\ Len(b) \in Nat
  BY DEF Segments
<1>3. /\ TextAfter(a, b) <=> IF D = {} THEN Len(a) > Len(b) ELSE x[1] > y[1] \/ (x[1] = y[1] /\ x[2] > y[2])
      /\ TextAfter(b, a) <=> IF D = {} THEN Len(b) > Len(a) ELSE y[1] > x[1] \/ (y[1] = x[1] /\ y[2] > x[2])
  <2>1. TextAfter(a, b) <=> IF D = {} THEN Len(a) > Len(b) ELSE x[1] > y[1] \/ (x[1] = y[1] /\ x[2] > y[2])
    BY DEF TextAfter
  <2>2. TextAfter(b, a) <=> IF E = {} THEN Len(b) > Len(a)
                            ELSE b[Min(E)][1] > a[Min(E)][1] \/ (b[Min(E)][1] = a[Min(E)][1] /\ b[Min(E)][2] > a[Min(E)][2])
    BY DEF TextAfter
  <2> HIDE DEF D, E
  <2> QED
    BY <1>1, <2>1, <2>2
<1>4. D # {} => x \in Nat \X Nat /\ y \in Nat \X Nat
  <2> SUFFICES ASSUME D # {} PROVE x \in Nat \X Nat /\ y \in Nat \X Nat
    OBVIOUS
  <2>1. D \in SUBSET Nat
    <3>1. DOMAIN a = 1 .. Len(a) /\ Len(a) \in Nat
      BY DEF Segments
    <3> QED
      BY <3>1
  <2>2. m \in D
    <3> HIDE DEF D
    <3> QED
      BY <2>1, LeastIs
  <2> HIDE DEF m
  <2> QED
    BY <2>2 DEF Segments
<1> HIDE DEF x, y, D
<1> QED
  BY <1>2, <1>3, <1>4, PairsOrdered

LEMMA NewerIsStrict ==
  ASSUME NEW a \in Published \cup {Unpinned}, NEW b \in Published \cup {Unpinned}
  PROVE  ~ (VersionNewer(a, b) /\ VersionNewer(b, a))
<1>1. CASE a = Unpinned \/ b = Unpinned
  BY <1>1 DEF VersionNewer
<1>2. CASE a # Unpinned /\ b # Unpinned
  <2>1. /\ a.core \in Segments /\ b.core \in Segments /\ a.build \in Segments /\ b.build \in Segments
        /\ a.pre \in Seq(Nat) /\ b.pre \in Seq(Nat)
    BY <1>2, VersionsAssumption
  <2>2. Characters(a.pre) \in Segments /\ Characters(b.pre) \in Segments
    <3>1. ASSUME NEW s \in Seq(Nat) PROVE Characters(s) \in Segments
      BY DEF Characters, Segments
    <3> QED
      BY <2>1, <3>1
  <2>3. ~ (NewerBuild(a.build, b.build) /\ NewerBuild(b.build, a.build))
    <3> DEFINE x == a.build  y == b.build
    <3>1. x \in Segments /\ y \in Segments
      BY <2>1
    <3> HIDE DEF x, y
    <3>2. ~ (NewerBuild(x, y) /\ NewerBuild(y, x))
      BY <3>1, AheadIsStrict, TextIsStrict DEF NewerBuild
    <3> QED
      BY <3>2 DEF x, y
  <2>4. /\ Deciding(a.core, b.core) = Deciding(b.core, a.core)
        /\ ~ (Ahead(a.core, b.core) /\ Ahead(b.core, a.core))
    BY <2>1, AheadIsStrict
  <2>5. ~ (TextAfter(Characters(a.pre), Characters(b.pre)) /\ TextAfter(Characters(b.pre), Characters(a.pre)))
    BY <2>2, TextIsStrict
  <2> QED
    BY <1>2, <2>3, <2>4, <2>5 DEF VersionNewer
<1> QED
  BY <1>1, <1>2

\* A batch of three plain pins.
LEMMA PinningIs ==
  ASSUME NEW a \in Published, NEW b \in Published, NEW c \in Published
  PROVE  NewestPin(<<a, b, c>>) = NewerPin(NewerPin(a, b), c)
<1> DEFINE pins == <<a, b, c>>
           Def(g) == g = [i \in 0 .. Len(pins) |-> IF i = 0 THEN Unpinned ELSE NewerPin(g[i - 1], pins[i])]
           g1 == NewerPin(Unpinned, a)
           g2 == NewerPin(g1, b)
           g3 == NewerPin(g2, c)
           g == [i \in 0 .. 3 |-> IF i = 0 THEN Unpinned ELSE IF i = 1 THEN g1 ELSE IF i = 2 THEN g2 ELSE g3]
<1>1. Len(pins) = 3 /\ pins[1] = a /\ pins[2] = b /\ pins[3] = c
  OBVIOUS
<1>2. g1 = a
  BY DEF NewerPin
<1> HIDE DEF pins
<1>3. Def(g)
  <2> HIDE DEF g1
  <2>1. g2 = NewerPin(g1, b) /\ g3 = NewerPin(g2, c)
    OBVIOUS
  <2> HIDE DEF g2, g3
  <2>2. \A i \in 0 .. 3 : g[i] = IF i = 0 THEN Unpinned ELSE NewerPin(g[i - 1], pins[i])
    <3>1. g[0] = Unpinned /\ g[1] = g1 /\ g[2] = g2 /\ g[3] = g3
      OBVIOUS
    <3> HIDE DEF g
    <3>2. g1 = NewerPin(g[0], pins[1])
      BY <1>1, <3>1 DEF g1
    <3>3. g2 = NewerPin(g[1], pins[2]) /\ g3 = NewerPin(g[2], pins[3])
      BY <1>1, <2>1, <3>1
    <3>4. 1 - 1 = 0 /\ 2 - 1 = 1 /\ 3 - 1 = 2 /\ \A i \in 0 .. 3 : i = 0 \/ i = 1 \/ i = 2 \/ i = 3
      OBVIOUS
    <3> QED
      BY <3>1, <3>2, <3>3, <3>4
  <2> QED
    BY <1>1, <2>2
<1>4. Pinning(pins) = CHOOSE h : Def(h)
  BY DEF Pinning
<1>5. Def(Pinning(pins))
  <2> HIDE DEF Def, g
  <2> QED
    BY <1>3, <1>4
<1> HIDE DEF g
<1> DEFINE h == Pinning(pins)
<1>6. h[0] = Unpinned /\ h[1] = NewerPin(h[0], a) /\ h[2] = NewerPin(h[1], b) /\ h[3] = NewerPin(h[2], c)
  BY <1>1, <1>5
<1>7. NewestPin(pins) = h[3]
  BY <1>1 DEF NewestPin
<1> HIDE DEF h
<1> QED
  BY <1>2, <1>6, <1>7 DEF pins

LEMMA NewestOfThree ==
  ASSUME ThreeNumbers, NEW a \in {x \in Published : Plain(x)}, NEW b \in {x \in Published : Plain(x)},
         NEW c \in {x \in Published : Plain(x)}
  PROVE  LET best == NewestPin(<<a, b, c>>) IN
         best \in {a, b, c} /\ Rank(a) <= Rank(best) /\ Rank(b) <= Rank(best) /\ Rank(c) <= Rank(best)
<1> DEFINE P == {x \in Published : Plain(x)}
<1>1. \A x, y \in P : Rank(x) \in Nat /\ NewerPin(x, y) \in {x, y}
                      /\ Rank(x) <= Rank(NewerPin(x, y)) /\ Rank(y) <= Rank(NewerPin(x, y))
  <2> TAKE x \in P, y \in P
  <2>1. x # Unpinned /\ Rank(x) \in Nat /\ Rank(y) \in Nat /\ (VersionNewer(y, x) <=> Rank(y) > Rank(x))
    BY NewerIsLater, RankIsLater, VersionsAssumption
  <2> QED
    BY <2>1 DEF NewerPin
<1> DEFINE d == NewerPin(a, b)  e == NewerPin(d, c)
<1>2. d \in P /\ d \in {a, b} /\ Rank(a) <= Rank(d) /\ Rank(b) <= Rank(d) /\ Rank(d) \in Nat
  BY <1>1
<1> HIDE DEF d
<1>3. e \in P /\ e \in {d, c} /\ Rank(d) <= Rank(e) /\ Rank(c) <= Rank(e) /\ Rank(e) \in Nat
  BY <1>1, <1>2
<1>4. Rank(a) \in Nat /\ Rank(b) \in Nat
  BY <1>1
<1>5. NewestPin(<<a, b, c>>) = e
  BY PinningIs DEF d
<1> HIDE DEF e
<1> QED
  BY <1>2, <1>3, <1>4, <1>5

-----------------------------------------------------------------------------
(* What the check offers and what a pack is made for.                       *)
VersionsInv ==
  /\ pinned \in Published \cup {Unpinned}
  /\ past \in Seq(Published \cup {Unpinned})
  /\ past # <<>> => VersionNewer(pinned, past[Len(past)])
  /\ listed \in Seq(GameVersions)

LEMMA VersionsStart ==
  ASSUME VersionsInit PROVE VersionsInv
  BY DEF VersionsInit, VersionsInv

LEMMA VersionsStep ==
  ASSUME VersionsInv, [VersionsNext]_versionVars PROVE VersionsInv'
<1>1. ASSUME NEW v \in Published, Offer(v) PROVE VersionsInv'
  <2>1. past' = Append(past, pinned) /\ pinned' = v /\ listed' = listed /\ VersionNewer(v, pinned)
    BY <1>1 DEF Offer
  <2>2. past' \in Seq(Published \cup {Unpinned}) /\ past'[Len(past')] = pinned
    BY <2>1 DEF VersionsInv
  <2> QED
    BY <2>1, <2>2 DEF VersionsInv
<1>2. ASSUME NEW a \in GameVersions, NEW b \in GameVersions, NEW c \in GameVersions, PackFacts(<<a, b, c>>)
      PROVE  VersionsInv'
  <2>1. listed' = <<a, b, c>> /\ past' = past /\ pinned' = pinned
    BY <1>2 DEF PackFacts
  <2>2. <<a, b, c>> \in Seq(GameVersions)
    OBVIOUS
  <2> QED
    BY <2>1, <2>2 DEF VersionsInv
<1>3. CASE UNCHANGED versionVars
  BY <1>3 DEF VersionsInv, versionVars
<1> QED
  BY <1>1, <1>2, <1>3 DEF VersionsNext

LEMMA VersionsHold ==
  ASSUME ThreeNumbers, VersionsInv PROVE VersionsAreOrdered
<1>1. NewerIsTheOrder
  <2> SUFFICES ASSUME past = <<>>, pinned # Unpinned, Plain(pinned), NEW v \in Published, Plain(v)
               PROVE  VersionNewer(v, pinned) <=> Rank(v) > Rank(pinned)
    BY DEF NewerIsTheOrder
  <2>1. pinned \in Published
    BY DEF VersionsInv
  <2> QED
    BY <2>1, NewerIsLater, RankIsLater
<1>2. NoWayStraightBack
  <2> SUFFICES ASSUME past # <<>> PROVE ~ VersionNewer(past[Len(past)], pinned)
    BY DEF NoWayStraightBack
  <2>1. past \in Seq(Published \cup {Unpinned}) /\ VersionNewer(pinned, past[Len(past)]) /\ pinned \in Published \cup {Unpinned}
    BY DEF VersionsInv
  <2>2. past[Len(past)] \in Published \cup {Unpinned}
    <3>1. Len(past) \in 1 .. Len(past)
      BY <2>1, EmptySeq
    <3> QED
      BY <2>1, <3>1
  <2> QED
    BY <2>1, <2>2, NewerIsStrict
<1>3. BatchOrderIsIrrelevant
  <2> DEFINE P == {x \in Published : Plain(x)}
  <2> SUFFICES ASSUME past = <<>>, pinned # Unpinned, Plain(pinned), NEW v \in P, NEW w \in P
               PROVE  Rank(NewestPin(<<v, pinned, w>>)) = Rank(NewestPin(<<w, v, pinned>>))
    BY DEF BatchOrderIsIrrelevant
  <2>1. pinned \in P
    BY DEF VersionsInv
  <2> DEFINE d == NewestPin(<<v, pinned, w>>)  e == NewestPin(<<w, v, pinned>>)
  <2>2. d \in {v, pinned, w} /\ Rank(v) <= Rank(d) /\ Rank(pinned) <= Rank(d) /\ Rank(w) <= Rank(d)
    BY <2>1, NewestOfThree
  <2>3. e \in {v, pinned, w} /\ Rank(v) <= Rank(e) /\ Rank(pinned) <= Rank(e) /\ Rank(w) <= Rank(e)
    BY <2>1, NewestOfThree
  <2>4. Rank(v) \in Nat /\ Rank(pinned) \in Nat /\ Rank(w) \in Nat
    BY <2>1, RankIsLater
  <2> HIDE DEF d, e
  <2>5. Rank(d) \in Nat /\ Rank(e) \in Nat /\ Rank(d) <= Rank(e) /\ Rank(e) <= Rank(d)
    BY <2>2, <2>3, <2>4
  <2>6. Rank(d) = Rank(e)
    BY <2>5
  <2> QED
    BY <2>6 DEF d, e
<1>4. HighestIsHighest
  <2>1. IsHighest(listed, HighestMCVersion(listed))
    BY HighestIs DEF VersionsInv
  <2> QED
    BY <2>1 DEF IsHighest, HighestIsHighest
<1> QED
  BY <1>1, <1>2, <1>3, <1>4 DEF VersionsAreOrdered

(* VersionsAreOrdered: for any versions a catalogue publishes, any lists of *)
(* game versions and any number of updates.  VersionNewer is the reference  *)
(* order where the reference applies (ThreeNumbers); no two versions are    *)
(* newer than each other; a batch ends at the newest of its plain pins; and *)
(* HighestMCVersion finds a version that no other exceeds.                  *)
THEOREM VersionsInOrder == ThreeNumbers => (VersionsSpec => []VersionsAreOrdered)
<1> SUFFICES ASSUME ThreeNumbers PROVE VersionsSpec => []VersionsAreOrdered
  OBVIOUS
<1>1. VersionsInit => VersionsInv
  BY VersionsStart
<1>2. VersionsInv /\ [VersionsNext]_versionVars => VersionsInv'
  BY VersionsStep
<1>3. VersionsInv => VersionsAreOrdered
  BY VersionsHold
<1> QED
  BY <1>1, <1>2, <1>3, PTL DEF VersionsSpec

-----------------------------------------------------------------------------
(* What a merge does to a file                                              *)

(* The value that a file's settings give to a key, 0 for none.              *)
ReadValue(p, k) == IF k \in Declared(p) THEN Indexed(p, k).value ELSE 0

LEMMA LastOfKey ==
  ASSUME NEW f \in Readings, NEW n \in DOMAIN f.settings, NEW k, f.settings[n].key = k,
         \A m \in DOMAIN f.settings : f.settings[m].key = k => m <= n
  PROVE  k \in Declared(f) /\ Indexed(f, k) = f.settings[n]
<1> DEFINE I == {i \in 1 .. Len(f.settings) : f.settings[i].key = k}
<1>1. DOMAIN f.settings = 1 .. Len(f.settings) /\ Len(f.settings) \in Nat
  BY DEF Readings
<1>2. n \in I /\ I # {} /\ I \in SUBSET Nat /\ \A i \in I : i <= n /\ i <= Len(f.settings)
  BY <1>1
<1>3. Indexed(f, k) = f.settings[Max(I)]
  BY <1>2 DEF Indexed, SelectLastInSeq
<1>4. Max(I) \in I /\ \A y \in I : y <= Max(I)
  <2> HIDE DEF I
  <2> QED
    BY <1>1, <1>2, MaxIsGreatest
<1> HIDE DEF I
<1>5. Max(I) <= n /\ n <= Max(I) /\ Max(I) \in Nat /\ n \in Nat
  BY <1>2, <1>4
<1>6. Max(I) = n
  BY <1>5
<1> QED
  BY <1>3, <1>6 DEF Declared

LEMMA IndexedIsLast ==
  ASSUME NEW f \in Readings, NEW k \in Declared(f)
  PROVE  \E n \in DOMAIN f.settings : /\ f.settings[n].key = k /\ Indexed(f, k) = f.settings[n]
                                      /\ \A m \in DOMAIN f.settings : f.settings[m].key = k => m <= n
<1> DEFINE I == {i \in 1 .. Len(f.settings) : f.settings[i].key = k}
<1>1. DOMAIN f.settings = 1 .. Len(f.settings) /\ Len(f.settings) \in Nat
  BY DEF Readings
<1>2. I # {} /\ I \in SUBSET Nat /\ \A i \in I : i <= Len(f.settings)
  BY <1>1 DEF Declared
<1>3. Indexed(f, k) = f.settings[Max(I)]
  BY <1>2 DEF Indexed, SelectLastInSeq
<1>4. Max(I) \in I /\ \A y \in I : y <= Max(I)
  <2> HIDE DEF I
  <2> QED
    BY <1>1, <1>2, MaxIsGreatest
<1> QED
  BY <1>1, <1>3, <1>4

(* One line.                                                                *)
IsSetting(p, l) == l[1] = "entry" /\ p.section # 0
SettingOf(p, l, i) == [key |-> <<p.section, l[2]>>, value |-> l[3], default |-> p.default, line |-> i]
Continues(q, p, l, i) ==
  /\ q.section = IF IsHeader(l) THEN l[2] ELSE p.section
  /\ q.settings = IF IsSetting(p, l) THEN Append(p.settings, SettingOf(p, l, i)) ELSE p.settings
  /\ IsBlank(l) => q = p
  /\ IsHeader(l) => q.default = 0
LEMMA LineMeans ==
  ASSUME NEW p \in Readings, NEW l \in CfgLines, NEW i \in Nat
  PROVE  Continues(ParseLine(p, l, i), p, l, i)
<1> USE DEF Continues
<1> DEFINE q == ParseLine(p, l, i)
<1>0. <<"blank">>[1] = "blank" /\ <<"junk">>[1] = "junk" /\ Blank = <<"blank">>
  BY DEF Blank
<1>1. CASE l = <<"blank">>
  <2>1. q = p
    BY <1>0, <1>1 DEF ParseLine, IsHeader
  <2> QED
    BY <1>0, <1>1, <2>1 DEF IsHeader, IsSetting
<1>2. CASE l[1] = "junk"
  <2>1. q = [p EXCEPT !.default = 0, !.parsable = FALSE]
    BY <1>2 DEF ParseLine, IsHeader
  <2>2. q.section = p.section /\ q.settings = p.settings
    BY <2>1 DEF Readings
  <2> QED
    BY <1>0, <1>2, <2>2 DEF IsHeader, IsSetting, IsBlank
<1>3. CASE l[1] = "comment"
  <2>1. q = [p EXCEPT !.default = l[2]]
    BY <1>3 DEF ParseLine, IsHeader
  <2>2. q.section = p.section /\ q.settings = p.settings
    BY <2>1 DEF Readings
  <2> QED
    BY <1>0, <1>3, <2>2 DEF IsHeader, IsSetting, IsBlank
<1>4. CASE IsHeader(l)
  <2>1. q = [p EXCEPT !.section = l[2], !.sections = @ \cup {l[2]}, !.default = 0]
    BY <1>4 DEF ParseLine, IsHeader
  <2>2. q.section = l[2] /\ q.settings = p.settings /\ q.default = 0
    BY <2>1 DEF Readings
  <2>3. ~ IsBlank(l) /\ l[1] # "entry"
    BY <1>0, <1>4 DEF IsHeader, IsBlank
  <2> QED
    BY <1>4, <2>2, <2>3 DEF IsSetting
<1>5. CASE l[1] = "entry"
  <2>0. ~ IsBlank(l) /\ ~ IsHeader(l)
    BY <1>0, <1>5 DEF IsHeader, IsBlank
  <2>1. CASE p.section # 0
    <3> DEFINE s == [key |-> <<p.section, l[2]>>, value |-> l[3], default |-> p.default, line |-> i]
    <3>1. q = [p EXCEPT !.settings = Append(@, s), !.default = 0]
      BY <1>5, <2>1 DEF ParseLine, IsHeader
    <3>2. s = SettingOf(p, l, i)
      BY DEF SettingOf
    <3> HIDE DEF s
    <3>3. q.settings = Append(p.settings, s) /\ q.section = p.section
      BY <3>1 DEF Readings
    <3> HIDE DEF q
    <3>4. Continues(q, p, l, i)
      BY <1>5, <2>0, <2>1, <3>2, <3>3 DEF IsSetting
    <3> QED
      BY <3>4 DEF q
  <2>2. CASE p.section = 0
    <3>1. q = [p EXCEPT !.default = 0, !.parsable = FALSE]
      BY <1>5, <2>2 DEF ParseLine, IsHeader
    <3>2. q.section = p.section /\ q.settings = p.settings
      BY <3>1 DEF Readings
    <3> HIDE DEF q
    <3>3. Continues(q, p, l, i)
      BY <1>5, <2>0, <2>2, <3>2 DEF IsSetting
    <3> QED
      BY <3>3 DEF q
  <2> QED
    BY <2>1, <2>2
<1>6. l = <<"blank">> \/ l[1] = "junk" \/ l[1] = "comment" \/ IsHeader(l) \/ l[1] = "entry"
  BY <1>0, LineKinds
<1> QED
  BY <1>1, <1>2, <1>3, <1>4, <1>5, <1>6

(* A line that is no comment forgets a description, or keeps it, whatever   *)
(* was read before.                                                         *)
LEMMA SameDefault ==
  ASSUME NEW p \in Readings, NEW q \in Readings, NEW l \in CfgLines, NEW i \in Nat, NEW j \in Nat,
         q.section = p.section, q.default = p.default
  PROVE  ParseLine(q, l, j).default = ParseLine(p, l, i).default
<1>0. <<"blank">>[1] = "blank" /\ <<"junk">>[1] = "junk"
  OBVIOUS
<1>1. CASE l[1] = "blank"
  <2>1. ParseLine(q, l, j) = q /\ ParseLine(p, l, i) = p
    BY <1>1 DEF ParseLine, IsHeader
  <2> QED
    BY <2>1
<1>2. CASE l[1] = "comment"
  <2>1. ParseLine(q, l, j) = [q EXCEPT !.default = l[2]] /\ ParseLine(p, l, i) = [p EXCEPT !.default = l[2]]
    BY <1>2 DEF ParseLine, IsHeader
  <2> QED
    BY <2>1 DEF Readings
<1>3. CASE IsHeader(l)
  <2>1. /\ ParseLine(q, l, j) = [q EXCEPT !.section = l[2], !.sections = @ \cup {l[2]}, !.default = 0]
        /\ ParseLine(p, l, i) = [p EXCEPT !.section = l[2], !.sections = @ \cup {l[2]}, !.default = 0]
    BY <1>3 DEF ParseLine, IsHeader
  <2> QED
    BY <2>1 DEF Readings
<1>4. CASE l[1] = "entry" /\ p.section # 0
  <2>1. /\ ParseLine(q, l, j) = [q EXCEPT !.settings = Append(@, [key |-> <<q.section, l[2]>>, value |-> l[3], default |-> q.default, line |-> j]),
                                          !.default = 0]
        /\ ParseLine(p, l, i) = [p EXCEPT !.settings = Append(@, [key |-> <<p.section, l[2]>>, value |-> l[3], default |-> p.default, line |-> i]),
                                          !.default = 0]
    BY <1>4 DEF ParseLine, IsHeader
  <2> QED
    BY <2>1 DEF Readings
<1>5. CASE l[1] = "junk" \/ (l[1] = "entry" /\ p.section = 0)
  <2>1. /\ ParseLine(q, l, j) = [q EXCEPT !.default = 0, !.parsable = FALSE]
        /\ ParseLine(p, l, i) = [p EXCEPT !.default = 0, !.parsable = FALSE]
    BY <1>5 DEF ParseLine, IsHeader
  <2> QED
    BY <2>1 DEF Readings
<1>6. l[1] = "blank" \/ l[1] = "junk" \/ l[1] = "comment" \/ IsHeader(l) \/ l[1] = "entry"
  BY <1>0, LineKinds
<1> QED
  BY <1>1, <1>2, <1>3, <1>4, <1>5, <1>6

(* A setting that was appended is the last of its key, and no other key's.  *)
LEMMA SettingAppended ==
  ASSUME NEW p \in Readings, NEW q \in Readings, NEW s \in SettingsRead, q.settings = Append(p.settings, s)
  PROVE  /\ Declared(q) = Declared(p) \cup {s.key}
         /\ Indexed(q, s.key) = s
         /\ \A k \in Declared(p) : k # s.key => Indexed(q, k) = Indexed(p, k)
         /\ \A k : ReadValue(q, k) = IF k = s.key THEN s.value ELSE ReadValue(p, k)
<1> DEFINE n == Len(p.settings)
<1>1. /\ p.settings \in Seq(SettingsRead) /\ n \in Nat /\ DOMAIN p.settings = 1 .. n
      /\ DOMAIN q.settings = 1 .. n + 1 /\ q.settings[n + 1] = s
      /\ \A i \in 1 .. n : q.settings[i] = p.settings[i]
  BY DEF Readings
<1> HIDE DEF n
<1>2. Declared(q) = Declared(p) \cup {s.key}
  <2>1. \A i \in 1 .. n + 1 : i \in 1 .. n \/ i = n + 1
    BY <1>1
  <2>2. 1 .. n \subseteq 1 .. n + 1 /\ n + 1 \in 1 .. n + 1
    BY <1>1
  <2> QED
    BY <1>1, <2>1, <2>2 DEF Declared
<1>3. Indexed(q, s.key) = s /\ s.key \in Declared(q)
  <2>1. n + 1 \in DOMAIN q.settings /\ \A m \in DOMAIN q.settings : m <= n + 1
    BY <1>1
  <2> QED
    BY <1>1, <2>1, LastOfKey
<1>4. ASSUME NEW k \in Declared(p), k # s.key PROVE Indexed(q, k) = Indexed(p, k)
  <2>1. PICK j \in DOMAIN p.settings : /\ p.settings[j].key = k /\ Indexed(p, k) = p.settings[j]
                                       /\ \A m \in DOMAIN p.settings : p.settings[m].key = k => m <= j
    BY IndexedIsLast
  <2>2. j \in DOMAIN q.settings /\ q.settings[j] = p.settings[j]
    BY <1>1
  <2>3. \A m \in DOMAIN q.settings : q.settings[m].key = k => m <= j
    <3> TAKE m \in DOMAIN q.settings
    <3>1. m \in 1 .. n \/ m = n + 1
      BY <1>1
    <3> QED
      BY <1>1, <1>4, <2>1, <3>1
  <2> QED
    BY <2>1, <2>2, <2>3, LastOfKey
<1>5. ASSUME NEW k PROVE ReadValue(q, k) = IF k = s.key THEN s.value ELSE ReadValue(p, k)
  BY <1>2, <1>3, <1>4 DEF ReadValue
<1> QED
  BY <1>2, <1>3, <1>4, <1>5

LEMMA SameSettings ==
  ASSUME NEW p, NEW q, q.settings = p.settings
  PROVE  Declared(q) = Declared(p) /\ \A k : Indexed(q, k) = Indexed(p, k) /\ ReadValue(q, k) = ReadValue(p, k)
  BY DEF Declared, Indexed, ReadValue

LEMMA SettingTyped ==
  ASSUME NEW p \in Readings, NEW l \in CfgLines, NEW i \in Nat, IsSetting(p, l)
  PROVE  SettingOf(p, l, i) \in SettingsRead /\ l[2] \in Keys /\ l[3] \in CfgValues /\ p.section \in Sections
<1>0. <<"blank">>[1] = "blank" /\ <<"junk">>[1] = "junk"
  OBVIOUS
<1>1. l[2] \in Keys /\ l[3] \in CfgValues
  BY <1>0, LineKinds DEF IsSetting, IsHeader
<1>2. p.section \in Sections /\ p.default \in CfgValues \cup {0}
  BY DEF IsSetting, Readings
<1> QED
  BY <1>1, <1>2 DEF SettingOf, SettingsRead, SettingKeys

(* The values a line leaves.                                                *)
LEMMA LineValues ==
  ASSUME NEW p \in Readings, NEW l \in CfgLines, NEW i \in Nat
  PROVE  \A k : ReadValue(ParseLine(p, l, i), k)
                  = IF IsSetting(p, l) /\ k = <<p.section, l[2]>> THEN l[3] ELSE ReadValue(p, k)
<1> DEFINE q == ParseLine(p, l, i)
<1>1. q \in Readings
  BY LineRead
<1>2. q.settings = IF IsSetting(p, l) THEN Append(p.settings, SettingOf(p, l, i)) ELSE p.settings
  BY LineMeans DEF Continues
<1> HIDE DEF q
<1>3. CASE IsSetting(p, l)
  <2> DEFINE s == SettingOf(p, l, i)
  <2>1. s \in SettingsRead /\ s.key = <<p.section, l[2]>> /\ s.value = l[3]
    BY <1>3, SettingTyped DEF SettingOf
  <2>2. q.settings = Append(p.settings, s)
    BY <1>2, <1>3
  <2> HIDE DEF s
  <2>3. \A k : ReadValue(q, k) = IF k = s.key THEN s.value ELSE ReadValue(p, k)
    BY <1>1, <2>1, <2>2, SettingAppended
  <2> QED
    BY <1>3, <2>1, <2>3 DEF q
<1>4. CASE ~ IsSetting(p, l)
  BY <1>2, <1>4, SameSettings DEF q
<1> QED
  BY <1>3, <1>4

(* The settings of p are among those of q, in their order and with their    *)
(* descriptions, and q has no others of the keys D.                         *)
Follows(at, p, q, D) ==
  /\ at \in [DOMAIN p.settings -> DOMAIN q.settings]
  /\ \A i, j \in DOMAIN p.settings : i < j => at[i] < at[j]
  /\ \A i \in DOMAIN p.settings : /\ q.settings[at[i]].key = p.settings[i].key
                                  /\ q.settings[at[i]].default = p.settings[i].default
  /\ \A j \in DOMAIN q.settings : q.settings[j].key \in D => \E i \in DOMAIN p.settings : at[i] = j
Carries(p, q, D) == \E at : Follows(at, p, q, D)

LEMMA CarriesSame ==
  ASSUME NEW p, NEW q, NEW D, DOMAIN q.settings = DOMAIN p.settings,
         \A i \in DOMAIN p.settings : /\ q.settings[i].key = p.settings[i].key
                                      /\ q.settings[i].default = p.settings[i].default
  PROVE  Carries(p, q, D)
<1> DEFINE at == [i \in DOMAIN p.settings |-> i]
<1>1. Follows(at, p, q, D)
  BY DEF Follows
<1> HIDE DEF at
<1> QED
  BY <1>1 DEF Carries

LEMMA CarriesTyped ==
  ASSUME NEW p \in Readings
  PROVE  /\ p.settings \in Seq(SettingsRead) /\ Len(p.settings) \in Nat /\ DOMAIN p.settings = 1 .. Len(p.settings)
         /\ \A i \in DOMAIN p.settings : p.settings[i].key \in SettingKeys
<1>1. p.settings \in Seq(SettingsRead)
  BY DEF Readings
<1>2. Len(p.settings) \in Nat /\ DOMAIN p.settings = 1 .. Len(p.settings)
  BY <1>1
<1>3. \A i \in DOMAIN p.settings : p.settings[i] \in SettingsRead
  BY <1>1
<1> QED
  BY <1>1, <1>2, <1>3 DEF SettingsRead

LEMMA CarriesNew ==
  ASSUME NEW p \in Readings, NEW q \in Readings, NEW D, Carries(p, q, D),
         NEW r, NEW s \in SettingsRead, r.settings = Append(q.settings, s), s.key \notin D
  PROVE  Carries(p, r, D)
<1> DEFINE n == Len(q.settings)
<1>1. /\ n \in Nat /\ DOMAIN q.settings = 1 .. n /\ DOMAIN r.settings = 1 .. n + 1 /\ r.settings[n + 1] = s
      /\ \A i \in 1 .. n : r.settings[i] = q.settings[i]
  BY CarriesTyped
<1>2. PICK at : Follows(at, p, q, D)
  BY DEF Carries
<1> HIDE DEF n
<1>3. 1 .. n \subseteq 1 .. n + 1 /\ \A j \in 1 .. n + 1 : j \in 1 .. n \/ j = n + 1
  BY <1>1
<1>4. \A i \in DOMAIN p.settings : at[i] \in 1 .. n
  BY <1>1, <1>2 DEF Follows
<1>5. at \in [DOMAIN p.settings -> DOMAIN r.settings]
  BY <1>1, <1>2, <1>3 DEF Follows
<1>6. \A i \in DOMAIN p.settings : /\ r.settings[at[i]].key = p.settings[i].key
                                   /\ r.settings[at[i]].default = p.settings[i].default
  BY <1>1, <1>2, <1>4 DEF Follows
<1>7. \A j \in DOMAIN r.settings : r.settings[j].key \in D => \E i \in DOMAIN p.settings : at[i] = j
  <2> TAKE j \in DOMAIN r.settings
  <2>1. CASE j = n + 1
    BY <1>1, <2>1
  <2>2. CASE j \in 1 .. n
    BY <1>1, <1>2, <2>2 DEF Follows
  <2> QED
    BY <1>1, <1>3, <2>1, <2>2
<1>8. Follows(at, p, r, D)
  BY <1>2, <1>5, <1>6, <1>7 DEF Follows
<1> QED
  BY <1>8 DEF Carries

LEMMA CarriesBoth ==
  ASSUME NEW p \in Readings, NEW q \in Readings, NEW D, Carries(p, q, D),
         NEW p1, NEW q1, NEW s \in SettingsRead, NEW r \in SettingsRead,
         p1.settings = Append(p.settings, s), q1.settings = Append(q.settings, r), r.key = s.key, r.default = s.default
  PROVE  Carries(p1, q1, D)
<1> DEFINE n == Len(q.settings)
           m == Len(p.settings)
<1>1. /\ n \in Nat /\ DOMAIN q.settings = 1 .. n /\ DOMAIN q1.settings = 1 .. n + 1 /\ q1.settings[n + 1] = r
      /\ \A i \in 1 .. n : q1.settings[i] = q.settings[i]
  BY CarriesTyped
<1>2. /\ m \in Nat /\ DOMAIN p.settings = 1 .. m /\ DOMAIN p1.settings = 1 .. m + 1 /\ p1.settings[m + 1] = s
      /\ \A i \in 1 .. m : p1.settings[i] = p.settings[i]
  BY CarriesTyped
<1>3. PICK at : Follows(at, p, q, D)
  BY DEF Carries
<1> HIDE DEF n, m
<1> DEFINE to == [i \in 1 .. m + 1 |-> IF i = m + 1 THEN n + 1 ELSE at[i]]
<1>4. /\ 1 .. m \subseteq 1 .. m + 1 /\ m + 1 \in 1 .. m + 1 /\ \A j \in 1 .. m + 1 : j \in 1 .. m \/ j = m + 1
      /\ m + 1 \notin 1 .. m
  BY <1>2
<1>5. 1 .. n \subseteq 1 .. n + 1 /\ n + 1 \in 1 .. n + 1 /\ \A j \in 1 .. n + 1 : j \in 1 .. n \/ j = n + 1
  BY <1>1
<1>6. \A i \in 1 .. m : at[i] \in 1 .. n
  BY <1>1, <1>2, <1>3 DEF Follows
<1>7. to[m + 1] = n + 1 /\ \A i \in 1 .. m : to[i] = at[i]
  BY <1>4
<1>8. to \in [DOMAIN p1.settings -> DOMAIN q1.settings]
  <2>1. \A i \in 1 .. m + 1 : to[i] \in 1 .. n + 1
    BY <1>4, <1>5, <1>6, <1>7
  <2>2. to = [i \in 1 .. m + 1 |-> to[i]]
    OBVIOUS
  <2> HIDE DEF to
  <2> QED
    BY <1>1, <1>2, <2>1, <2>2
<1> HIDE DEF to
<1>9. \A i, j \in DOMAIN p1.settings : i < j => to[i] < to[j]
  <2> SUFFICES ASSUME NEW i \in 1 .. m + 1, NEW j \in 1 .. m + 1, i < j PROVE to[i] < to[j]
    BY <1>2
  <2>1. i \in 1 .. m
    BY <1>2
  <2>2. CASE j \in 1 .. m
    BY <1>2, <1>3, <1>7, <2>1, <2>2 DEF Follows
  <2>3. CASE j = m + 1
    <3>1. to[j] = n + 1 /\ to[i] \in 1 .. n
      BY <1>6, <1>7, <2>1, <2>3
    <3> QED
      BY <1>1, <3>1
  <2> QED
    BY <1>4, <2>2, <2>3
<1>10. \A i \in DOMAIN p1.settings : /\ q1.settings[to[i]].key = p1.settings[i].key
                                     /\ q1.settings[to[i]].default = p1.settings[i].default
  <2> TAKE i \in DOMAIN p1.settings
  <2>1. CASE i = m + 1
    BY <1>1, <1>2, <1>7, <2>1
  <2>2. CASE i \in 1 .. m
    BY <1>1, <1>2, <1>3, <1>6, <1>7, <2>2 DEF Follows
  <2> QED
    BY <1>2, <1>4, <2>1, <2>2
<1>11. \A j \in DOMAIN q1.settings : q1.settings[j].key \in D => \E i \in DOMAIN p1.settings : to[i] = j
  <2> SUFFICES ASSUME NEW j \in DOMAIN q1.settings, q1.settings[j].key \in D PROVE \E i \in DOMAIN p1.settings : to[i] = j
    OBVIOUS
  <2>1. CASE j = n + 1
    BY <1>2, <1>4, <1>7, <2>1
  <2>2. CASE j \in 1 .. n
    <3>1. PICK i \in DOMAIN p.settings : at[i] = j
      BY <1>1, <1>3, <2>2 DEF Follows
    <3> QED
      BY <1>2, <1>4, <1>7, <3>1
  <2> QED
    BY <1>1, <1>5, <2>1, <2>2
<1>12. Follows(to, p1, q1, D)
  BY <1>8, <1>9, <1>10, <1>11 DEF Follows
<1> QED
  BY <1>12 DEF Carries

LEMMA CarriesOn ==
  ASSUME NEW p \in Readings, NEW q \in Readings, NEW r \in Readings, NEW D, Carries(p, q, D), Carries(q, r, D)
  PROVE  Carries(p, r, D)
<1>1. PICK at : Follows(at, p, q, D)
  BY DEF Carries
<1>2. PICK to : Follows(to, q, r, D)
  BY DEF Carries
<1> DEFINE by == [i \in DOMAIN p.settings |-> to[at[i]]]
<1>3. \A i \in DOMAIN p.settings : at[i] \in DOMAIN q.settings /\ to[at[i]] \in DOMAIN r.settings /\ by[i] = to[at[i]]
  BY <1>1, <1>2 DEF Follows
<1>4. by \in [DOMAIN p.settings -> DOMAIN r.settings]
  BY <1>3
<1> HIDE DEF by
<1>5. \A i, j \in DOMAIN p.settings : i < j => by[i] < by[j]
  BY <1>1, <1>2, <1>3 DEF Follows
<1>6. \A i \in DOMAIN p.settings : /\ r.settings[by[i]].key = p.settings[i].key
                                   /\ r.settings[by[i]].default = p.settings[i].default
  BY <1>1, <1>2, <1>3 DEF Follows
<1>7. \A j \in DOMAIN r.settings : r.settings[j].key \in D => \E i \in DOMAIN p.settings : by[i] = j
  <2> SUFFICES ASSUME NEW j \in DOMAIN r.settings, r.settings[j].key \in D PROVE \E i \in DOMAIN p.settings : by[i] = j
    OBVIOUS
  <2>1. PICK m \in DOMAIN q.settings : to[m] = j
    BY <1>2 DEF Follows
  <2>2. q.settings[m].key \in D
    BY <1>2, <2>1 DEF Follows
  <2>3. PICK i \in DOMAIN p.settings : at[i] = m
    BY <1>1, <2>2 DEF Follows
  <2> QED
    BY <1>3, <2>1, <2>3
<1>8. Follows(by, p, r, D)
  BY <1>4, <1>5, <1>6, <1>7 DEF Follows
<1> QED
  BY <1>8 DEF Carries

(* The settings of q are those of p, except that those of E have what the   *)
(* set o says.                                                              *)
Alters(p, q, o, E) == \A k : ReadValue(q, k) = IF k \in E THEN o[k] ELSE ReadValue(p, k)
Edits(p, q, o, E, D) == Alters(p, q, o, E) /\ Carries(p, q, D)

(* A line that sets one more.                                               *)
LEMMA EntryEdits ==
  ASSUME NEW p \in Readings, NEW q \in Readings, NEW o, IsOverrides(o), NEW E, NEW D, Edits(p, q, o, E, D),
         NEW s \in Sections, q.section = s, NEW l, Sets(l, o, s), <<s, l[2]>> \notin D, NEW i \in Nat
  PROVE  /\ ParseLine(q, l, i).section = s /\ l \in CfgLines
         /\ Edits(p, ParseLine(q, l, i), o, E \cup {<<s, l[2]>>}, D)
<1> DEFINE r == ParseLine(q, l, i)
<1>1. PICK k \in Keys : <<s, k>> \in DOMAIN o /\ l = Entry(k, o[<<s, k>>])
  BY DEF Sets
<1>2. l[1] = "entry" /\ l[2] = k /\ l[3] = o[<<s, k>>] /\ o[<<s, k>>] \in CfgValues
  BY <1>1 DEF Entry, IsOverrides
<1>3. l \in CfgLines /\ s # 0
  BY <1>1, <1>2, ConfigsAssumption DEF Entry, CfgLines
<1>4. Continues(r, q, l, i)
  BY <1>3, LineMeans
<1>5. IsSetting(q, l) /\ ~ IsHeader(l)
  BY <1>2, <1>3 DEF IsSetting, IsHeader
<1>6. \A j : ReadValue(r, j) = IF j = <<s, l[2]>> THEN l[3] ELSE ReadValue(q, j)
  BY <1>3, <1>5, LineValues
<1> HIDE DEF r
<1>7. r.section = s /\ r.settings = Append(q.settings, SettingOf(q, l, i))
  BY <1>4, <1>5 DEF Continues
<1>8. SettingOf(q, l, i) \in SettingsRead
  BY <1>3, <1>5, SettingTyped
<1>9. SettingOf(q, l, i).key = <<s, l[2]>>
  BY DEF SettingOf
<1>10. Carries(p, r, D)
  <2> DEFINE x == SettingOf(q, l, i)
  <2>1. x \in SettingsRead /\ r.settings = Append(q.settings, x) /\ x.key \notin D /\ Carries(p, q, D)
    BY <1>7, <1>8, <1>9 DEF Edits
  <2> HIDE DEF x
  <2> QED
    BY <2>1, CarriesNew
<1>11. Alters(p, r, o, E \cup {<<s, l[2]>>})
  BY <1>2, <1>6 DEF Edits, Alters
<1> QED
  BY <1>3, <1>7, <1>10, <1>11 DEF r, Edits

(* A line that both texts have.                                             *)
LEMMA SameLineEdits ==
  ASSUME NEW p \in Readings, NEW q \in Readings, NEW o, NEW E, NEW D, Edits(p, q, o, E, D),
         q.section = p.section, NEW l \in CfgLines, NEW i \in Nat, NEW j \in Nat,
         q.default = p.default \/ IsBlank(l) \/ IsHeader(l),
         IsSetting(p, l) => <<p.section, l[2]>> \notin E
  PROVE  /\ Edits(ParseLine(p, l, i), ParseLine(q, l, j), o, E, D)
         /\ ParseLine(q, l, j).section = ParseLine(p, l, i).section
         /\ q.default = p.default \/ IsHeader(l) => ParseLine(q, l, j).default = ParseLine(p, l, i).default
<1> DEFINE p1 == ParseLine(p, l, i)
           q1 == ParseLine(q, l, j)
<1>1. Continues(p1, p, l, i) /\ Continues(q1, q, l, j)
  BY LineMeans
<1>2. q.default = p.default => q1.default = p1.default
  BY SameDefault
<1>3. /\ \A k : ReadValue(p1, k) = IF IsSetting(p, l) /\ k = <<p.section, l[2]>> THEN l[3] ELSE ReadValue(p, k)
      /\ \A k : ReadValue(q1, k) = IF IsSetting(q, l) /\ k = <<q.section, l[2]>> THEN l[3] ELSE ReadValue(q, k)
  BY LineValues
<1> HIDE DEF p1, q1
<1>4. q1.section = p1.section
  BY <1>1 DEF Continues
<1>5. IsHeader(l) => q1.default = p1.default
  BY <1>1 DEF Continues
<1>6. IsSetting(q, l) <=> IsSetting(p, l)
  BY DEF IsSetting
<1>7. Alters(p1, q1, o, E)
  BY <1>3, <1>6 DEF Edits, Alters
<1>8. Carries(p1, q1, D)
  <2>1. CASE IsSetting(p, l)
    <3>1. q.default = p.default
      <4>1. ~ IsBlank(l) /\ ~ IsHeader(l)
        BY <2>1 DEF IsSetting, IsBlank, IsHeader, Blank
      <4> QED
        BY <4>1
    <3> DEFINE x == SettingOf(p, l, i)
               y == SettingOf(q, l, j)
    <3>2. x \in SettingsRead /\ y \in SettingsRead
      BY <1>6, <2>1, SettingTyped
    <3>3. y.key = x.key /\ y.default = x.default
      BY <3>1 DEF SettingOf
    <3>4. p1.settings = Append(p.settings, x) /\ q1.settings = Append(q.settings, y)
      BY <1>1, <1>6, <2>1 DEF Continues
    <3> HIDE DEF x, y
    <3>5. Carries(p, q, D)
      BY DEF Edits
    <3> QED
      BY <3>2, <3>3, <3>4, <3>5, CarriesBoth
  <2>2. CASE ~ IsSetting(p, l)
    <3>1. p1.settings = p.settings /\ q1.settings = q.settings
      BY <1>1, <1>6, <2>2 DEF Continues
    <3> QED
      BY <3>1 DEF Edits, Carries, Follows
  <2> QED
    BY <2>1, <2>2
<1> QED
  BY <1>2, <1>4, <1>5, <1>7, <1>8 DEF p1, q1, Edits

(* Lines that are added one by one.                                         *)
LEMMA OneMore ==
  ASSUME NEW w \in Texts, NEW l \in CfgLines
  PROVE  Append(w, l) = [i \in 1 .. Len(w) + 1 |-> IF i <= Len(w) THEN w[i] ELSE l]
<1>1. w \in Seq(CfgLines) /\ Len(w) \in Nat
  BY DEF Texts
<1>2. Append(w, l) \in Seq(CfgLines) /\ Len(Append(w, l)) = Len(w) + 1
      /\ (\A i \in 1 .. Len(w) : Append(w, l)[i] = w[i]) /\ Append(w, l)[Len(w) + 1] = l
  BY <1>1, AppendProperties
<1>3. Append(w, l) = [i \in 1 .. Len(w) + 1 |-> Append(w, l)[i]]
  BY <1>2, AsFunction
<1>4. \A i \in 1 .. Len(w) + 1 : Append(w, l)[i] = IF i <= Len(w) THEN w[i] ELSE l
  <2> TAKE i \in 1 .. Len(w) + 1
  <2>1. CASE i <= Len(w)
    BY <1>1, <1>2, <2>1
  <2>2. CASE ~ (i <= Len(w))
    <3>1. i = Len(w) + 1
      BY <1>1, <2>2
    <3> QED
      BY <1>2, <2>2, <3>1
  <2> QED
    BY <2>1, <2>2
<1> QED
  BY <1>3, <1>4

LEMMA LineByLine ==
  ASSUME NEW h \in Texts, NEW e \in Texts, NEW G, <<0, h>> \in G,
         \A j \in 0 .. Len(e) : \A w \in Texts : j < Len(e) /\ <<j, w>> \in G => <<j + 1, Append(w, e[j + 1])>> \in G
  PROVE  h \o e \in Texts /\ <<Len(e), h \o e>> \in G
<1> DEFINE n == Len(e)
           m == Len(h)
           T(j) == [i \in 1 .. m + j |-> IF i <= m THEN h[i] ELSE e[i - m]]
           S == {j \in 0 .. n : T(j) \in Texts /\ <<j, T(j)>> \in G}
<1>1. m \in Nat /\ n \in Nat /\ h = [i \in 1 .. m |-> h[i]] /\ \A i \in 1 .. n : e[i] \in CfgLines
  BY AsFunction DEF Texts
<1>2. T(0) = h
  BY <1>1
<1>3. 0 \in S
  <2> HIDE DEF T
  <2> QED
    BY <1>1, <1>2
<1>4. ASSUME NEW j \in 0 .. n, j < n, j \in S PROVE j + 1 \in S
  <2> DEFINE l == e[j + 1]
  <2>1. T(j) \in Texts /\ <<j, T(j)>> \in G
    BY <1>4
  <2>2. j + 1 \in 1 .. n /\ l \in CfgLines
    BY <1>1, <1>4
  <2>5. Append(T(j), l) = T(j + 1)
    <3>1. T(j) \in Texts /\ Len(T(j)) = m + j /\ \A i \in 1 .. m + j : T(j)[i] = IF i <= m THEN h[i] ELSE e[i - m]
      BY <1>1, <2>1 DEF T, Texts
    <3> HIDE DEF T
    <3>2. Append(T(j), l) = [i \in 1 .. (m + j) + 1 |-> IF i <= m + j THEN T(j)[i] ELSE l]
      <4> HIDE DEF l
      <4>1. Append(T(j), l) = [i \in 1 .. Len(T(j)) + 1 |-> IF i <= Len(T(j)) THEN T(j)[i] ELSE l]
        BY <2>2, <3>1, OneMore
      <4> QED
        BY <3>1, <4>1
    <3>3. m + (j + 1) = (m + j) + 1
      BY <1>1
    <3>4. \A i \in 1 .. (m + j) + 1 : (IF i <= m + j THEN T(j)[i] ELSE l) = IF i <= m THEN h[i] ELSE e[i - m]
      <4> TAKE i \in 1 .. (m + j) + 1
      <4>1. CASE i <= m + j
        BY <1>1, <3>1, <4>1
      <4>2. CASE ~ (i <= m + j)
        <5>1. i - m = j + 1 /\ ~ (i <= m)
          BY <1>1, <4>2
        <5> QED
          BY <4>2, <5>1
      <4> QED
        BY <4>1, <4>2
    <3>5. T(j + 1) = [i \in 1 .. (m + j) + 1 |-> IF i <= m THEN h[i] ELSE e[i - m]]
      BY <3>3 DEF T
    <3> HIDE DEF l
    <3> QED
      BY <3>2, <3>4, <3>5
  <2> HIDE DEF T
  <2>6. <<j + 1, Append(T(j), l)>> \in G
    BY <1>4, <2>1
  <2>7. Append(T(j), l) \in Texts
    BY <2>1, <2>2 DEF Texts
  <2> HIDE DEF l
  <2>8. T(j + 1) \in Texts /\ <<j + 1, T(j + 1)>> \in G
    BY <2>5, <2>6, <2>7
  <2> QED
    BY <2>2, <2>8
<1> HIDE DEF S
<1>5. 0 .. n \subseteq S
  <2> HIDE DEF n
  <2> QED
    BY <1>1, <1>3, <1>4, UpTo
<1>6. T(n) \in Texts /\ <<n, T(n)>> \in G
  <2>1. n \in S
    BY <1>1, <1>5
  <2> HIDE DEF T
  <2> QED
    BY <2>1 DEF S
<1>7. h \o e = T(n)
  BY Joined
<1> HIDE DEF T
<1> QED
  BY <1>6, <1>7

(* The lines of one section after its header.                               *)
EntriesEdit(p, u, o, K, s, D) ==
  u \in Texts /\ ParseConfigFile(u).section = s /\ Edits(p, ParseConfigFile(u), o, {k \in K : k[1] = s}, D)
LEMMA EntriesEdits ==
  ASSUME NEW h \in Texts, NEW p \in Readings, NEW o, IsOverrides(o), NEW D, Edits(p, ParseConfigFile(h), o, {}, D),
         NEW s \in Sections, ParseConfigFile(h).section = s,
         NEW K \in SUBSET DOMAIN o, K \cap D = {}, NEW e, EntriesFor(e, o, K, s)
  PROVE  EntriesEdit(p, h \o e, o, K, s, D)
<1> DEFINE Of(j) == {<<s, e[i][2]>> : i \in 1 .. j}
           Good(j, w) == ParseConfigFile(w).section = s /\ Edits(p, ParseConfigFile(w), o, Of(j), D)
           G == {x \in (0 .. Len(e)) \X Texts : Good(x[1], x[2])}
<1>1. /\ e \in Texts /\ Len(e) \in Nat
      /\ \A j \in 1 .. Len(e) : Sets(e[j], o, s) /\ <<s, e[j][2]>> \in K
      /\ \A k : <<s, k>> \in K => \E j \in 1 .. Len(e) : e[j][2] = k
  BY DEF EntriesFor, Texts
<1>2. <<0, h>> \in G
  <2>1. Of(0) = {}
    OBVIOUS
  <2> HIDE DEF Of
  <2>2. Good(0, h)
    BY <2>1
  <2> HIDE DEF Good
  <2> QED
    BY <1>1, <2>2
<1>3. ASSUME NEW j \in 0 .. Len(e), NEW w \in Texts, j < Len(e), <<j, w>> \in G
      PROVE  <<j + 1, Append(w, e[j + 1])>> \in G
  <2> DEFINE l == e[j + 1]
             q == ParseConfigFile(w)
  <2>1. Good(j, w)
    BY <1>3
  <2>2. j + 1 \in 1 .. Len(e)
    BY <1>1, <1>3
  <2>3. Sets(l, o, s) /\ <<s, l[2]>> \in K
    BY <1>1, <2>2
  <2>4. q \in Readings /\ Len(w) + 1 \in Nat
    BY FileIsRead DEF Texts
  <2>5. Of(j + 1) = Of(j) \cup {<<s, l[2]>>}
    <3>1. 1 .. j + 1 = (1 .. j) \cup {j + 1}
      BY <1>1, <2>2
    <3> QED
      BY <3>1
  <2>6. q.section = s /\ Edits(p, q, o, Of(j), D)
    BY <2>1
  <2> HIDE DEF l, q, Of
  <2>7. /\ ParseLine(q, l, Len(w) + 1).section = s /\ l \in CfgLines
        /\ Edits(p, ParseLine(q, l, Len(w) + 1), o, Of(j) \cup {<<s, l[2]>>}, D)
    BY <2>3, <2>4, <2>6, EntryEdits
  <2>8. Append(w, l) \in Texts /\ ParseConfigFile(Append(w, l)) = ParseLine(q, l, Len(w) + 1)
    BY <2>7, OneLineMore DEF q
  <2>9. Good(j + 1, Append(w, l))
    BY <2>5, <2>7, <2>8
  <2> HIDE DEF Good
  <2>10. <<j + 1, Append(w, l)>> \in G
    <3> DEFINE v == Append(w, l)
               i == j + 1
    <3>1. v \in Texts /\ Good(i, v)
      BY <2>8, <2>9
    <3>2. i \in 0 .. Len(e)
      BY <1>1, <2>2
    <3> HIDE DEF v, i
    <3>3. <<i, v>> \in G
      BY <3>1, <3>2
    <3> QED
      BY <3>3 DEF v, i
  <2> QED
    BY <2>10 DEF l
<1>4. {k \in K : k[1] = s} = Of(Len(e))
  <2>1. ASSUME NEW k \in K, k[1] = s PROVE k \in Of(Len(e))
    <3>1. k = <<s, k[2]>>
      BY <2>1 DEF IsOverrides, SettingKeys
    <3>2. PICK j \in 1 .. Len(e) : e[j][2] = k[2]
      BY <1>1, <3>1
    <3>3. k = <<s, e[j][2]>>
      BY <3>1, <3>2
    <3> QED
      BY <3>3
  <2>2. ASSUME NEW k \in Of(Len(e)) PROVE k \in K /\ k[1] = s
    BY <1>1
  <2> HIDE DEF Of
  <2> QED
    BY <2>1, <2>2
<1> HIDE DEF G
<1>5. h \o e \in Texts /\ <<Len(e), h \o e>> \in G
  BY <1>1, <1>2, <1>3, LineByLine
<1>6. Good(Len(e), h \o e)
  BY <1>5 DEF G
<1> HIDE DEF Of
<1> QED
  BY <1>4, <1>5, <1>6 DEF EntriesEdit

(* What is declared stays so.                                               *)
LEMMA DeclaredGrows ==
  ASSUME NEW t \in Texts, NEW i \in 0 .. Len(t)
  PROVE  Declared(Reading(t)[i]) \subseteq Declared(ParseConfigFile(t))
<1> DEFINE S == {m \in 0 .. Len(t) : i <= m => Declared(Reading(t)[i]) \subseteq Declared(Reading(t)[m])}
<1>1. Len(t) \in Nat /\ \A j \in 1 .. Len(t) : t[j] \in CfgLines
  BY DEF Texts
<1>2. 0 \in S
  <2>1. i <= 0 => i = 0
    BY <1>1
  <2> QED
    BY <1>1, <2>1
<1>3. ASSUME NEW m \in 0 .. Len(t), m < Len(t), m \in S PROVE m + 1 \in S
  <2> DEFINE p == Reading(t)[m]
             q == Reading(t)[m + 1]
             l == t[m + 1]
  <2>1. m + 1 \in 1 .. Len(t) /\ (m + 1) - 1 = m /\ m + 1 \in Nat
    BY <1>1, <1>3
  <2>2. p \in Readings /\ q \in Readings /\ q = ParseLine(p, l, m + 1) /\ l \in CfgLines
    BY <1>1, <2>1, ReadingIs
  <2> HIDE DEF p, q, l
  <2>3. Continues(q, p, l, m + 1)
    BY <2>1, <2>2, LineMeans
  <2>4. Declared(p) \subseteq Declared(q)
    <3>1. CASE IsSetting(p, l)
      <4> DEFINE x == SettingOf(p, l, m + 1)
      <4>1. x \in SettingsRead
        BY <2>1, <2>2, <3>1, SettingTyped
      <4>2. q.settings = Append(p.settings, x)
        BY <2>3, <3>1 DEF Continues
      <4> HIDE DEF x
      <4>3. Declared(q) = Declared(p) \cup {x.key}
        BY <2>2, <4>1, <4>2, SettingAppended
      <4> QED
        BY <4>3
    <3>2. CASE ~ IsSetting(p, l)
      <4>1. q.settings = p.settings
        BY <2>3, <3>2 DEF Continues
      <4> QED
        BY <4>1, SameSettings
    <3> QED
      BY <3>1, <3>2
  <2>5. CASE i <= m
    BY <1>3, <2>1, <2>4, <2>5 DEF p, q
  <2>6. CASE ~ (i <= m)
    <3>1. i <= m + 1 => i = m + 1
      BY <2>6, <1>1
    <3> QED
      BY <2>1, <3>1
  <2> QED
    BY <2>5, <2>6
<1> HIDE DEF S
<1>4. 0 .. Len(t) \subseteq S
  BY <1>1, <1>2, <1>3, UpTo
<1>5. Len(t) \in S /\ i <= Len(t)
  BY <1>1, <1>4
<1> QED
  BY <1>5 DEF S, ParseConfigFile

(* The section of a line is that of the last header.                        *)
Under(t, i, s) ==
  \E h \in 1 .. i : /\ IsHeader(t[h]) /\ t[h][2] = s
                    /\ \A j \in h + 1 .. i : ~ IsHeader(t[j])
LEMMA UnderIs ==
  ASSUME NEW t \in Texts, NEW s \in Sections
  PROVE  \A i \in 0 .. Len(t) : Reading(t)[i].section = s <=> Under(t, i, s)
<1> DEFINE S == {i \in 0 .. Len(t) : Reading(t)[i].section = s <=> Under(t, i, s)}
<1>1. Len(t) \in Nat /\ \A j \in 1 .. Len(t) : t[j] \in CfgLines
  BY DEF Texts
<1>2. 0 \in S
  <2>1. Reading(t)[0].section = 0
    BY ReadingIs DEF NothingRead
  <2>2. s # 0
    BY ConfigsAssumption
  <2>3. ~ Under(t, 0, s)
    BY DEF Under
  <2> QED
    BY <1>1, <2>1, <2>2, <2>3
<1>3. ASSUME NEW i \in 0 .. Len(t), i < Len(t), i \in S PROVE i + 1 \in S
  <2> DEFINE p == Reading(t)[i]
             q == Reading(t)[i + 1]
             l == t[i + 1]
  <2>1. i + 1 \in 1 .. Len(t) /\ (i + 1) - 1 = i /\ i + 1 \in Nat /\ i \in Nat
    BY <1>1, <1>3
  <2>2. p \in Readings /\ q = ParseLine(p, l, i + 1) /\ l \in CfgLines
    BY <1>1, <2>1, ReadingIs
  <2> HIDE DEF p, q
  <2>3. Continues(q, p, l, i + 1)
    BY <2>1, <2>2, LineMeans
  <2>4. CASE IsHeader(l)
    <3>1. q.section = l[2]
      BY <2>3, <2>4 DEF Continues
    <3>2. ASSUME l[2] = s PROVE Under(t, i + 1, s)
      <4>1. i + 1 \in 1 .. i + 1 /\ (i + 1) + 1 .. i + 1 = {}
        BY <2>1
      <4> QED
        BY <2>4, <3>2, <4>1 DEF Under
    <3>3. ASSUME Under(t, i + 1, s) PROVE l[2] = s
      <4>1. PICK h \in 1 .. i + 1 : t[h][2] = s /\ \A j \in h + 1 .. i + 1 : ~ IsHeader(t[j])
        BY <3>3 DEF Under
      <4>2. h = i + 1 \/ i + 1 \in h + 1 .. i + 1
        BY <2>1
      <4> QED
        BY <2>4, <4>1, <4>2
    <3> QED
      BY <2>1, <3>1, <3>2, <3>3 DEF q
  <2>5. CASE ~ IsHeader(l)
    <3>1. q.section = p.section
      BY <2>3, <2>5 DEF Continues
    <3>2. ASSUME Under(t, i, s) PROVE Under(t, i + 1, s)
      <4>1. PICK h \in 1 .. i : IsHeader(t[h]) /\ t[h][2] = s /\ \A j \in h + 1 .. i : ~ IsHeader(t[j])
        BY <3>2 DEF Under
      <4>2. h \in 1 .. i + 1 /\ \A j \in h + 1 .. i + 1 : j \in h + 1 .. i \/ j = i + 1
        BY <2>1
      <4> QED
        BY <2>5, <4>1, <4>2 DEF Under
    <3>3. ASSUME Under(t, i + 1, s) PROVE Under(t, i, s)
      <4>1. PICK h \in 1 .. i + 1 : IsHeader(t[h]) /\ t[h][2] = s /\ \A j \in h + 1 .. i + 1 : ~ IsHeader(t[j])
        BY <3>3 DEF Under
      <4>2. h # i + 1
        BY <2>5, <4>1
      <4>3. h \in 1 .. i /\ \A j \in h + 1 .. i : j \in h + 1 .. i + 1
        BY <2>1, <4>2
      <4> QED
        BY <4>1, <4>3 DEF Under
    <3> QED
      BY <1>3, <2>1, <3>1, <3>2, <3>3 DEF p, q
  <2> QED
    BY <2>4, <2>5
<1> HIDE DEF S
<1>4. 0 .. Len(t) \subseteq S
  BY <1>1, <1>2, <1>3, UpTo
<1> QED
  BY <1>4 DEF S

(* The rest of a text after lines were put in front of blank ones.          *)
LEMMA RestEdits ==
  ASSUME NEW t \in Texts, NEW u \in Texts, NEW n \in Nat, NEW a \in 0 .. Len(t), Len(u) = Len(t) + n,
         \A i \in a + 1 .. Len(t) : u[i + n] = t[i],
         NEW b \in a + 1 .. Len(t) + 1, \A j \in a + 1 .. b - 1 : t[j] = Blank, b <= Len(t) => IsHeader(t[b]),
         NEW o, NEW E, NEW D, Edits(Reading(t)[a], Reading(u)[a + n], o, E, D),
         Reading(u)[a + n].section = Reading(t)[a].section,
         E \cap Declared(ParseConfigFile(t)) = {}
  PROVE  Edits(ParseConfigFile(t), ParseConfigFile(u), o, E, D)
<1> DEFINE Good(m) == /\ Edits(Reading(t)[m], Reading(u)[m + n], o, E, D)
                      /\ Reading(u)[m + n].section = Reading(t)[m].section
                      /\ b <= m => Reading(u)[m + n].default = Reading(t)[m].default
           S == {i \in 0 .. Len(t) - a : Good(a + i)}
<1>1. /\ Len(t) \in Nat /\ a \in Nat /\ Len(t) - a \in Nat /\ \A j \in 1 .. Len(t) : t[j] \in CfgLines
      /\ Len(u) \in Nat /\ b \in Nat
  BY DEF Texts
<1>2. 0 \in S
  <2>1. a + 0 = a /\ ~ (b <= a)
    BY <1>1
  <2>2. Good(a)
    BY <2>1
  <2> HIDE DEF Good
  <2> QED
    BY <1>1, <2>1, <2>2
<1>3. ASSUME NEW i \in 0 .. Len(t) - a, i < Len(t) - a, i \in S PROVE i + 1 \in S
  <2> DEFINE m == a + i
             p == Reading(t)[m]
             q == Reading(u)[m + n]
             l == t[m + 1]
             p1 == Reading(t)[m + 1]
             q1 == Reading(u)[(m + 1) + n]
  <2>1. Good(m)
    BY <1>3
  <2>2. /\ m \in Nat /\ m + 1 \in a + 1 .. Len(t) /\ m + 1 \in 1 .. Len(t) /\ (m + 1) - 1 = m
        /\ (m + 1) + n \in 1 .. Len(u) /\ ((m + 1) + n) - 1 = m + n /\ m + n \in 0 .. Len(u) /\ m \in 0 .. Len(t)
        /\ m + 1 \in Nat /\ (m + 1) + n \in Nat /\ m + 1 \in 0 .. Len(t)
    BY <1>1, <1>3
  <2>3. a + (i + 1) = m + 1 /\ i + 1 \in 0 .. Len(t) - a
    BY <1>1, <1>3
  <2> HIDE DEF m
  <2>4. l \in CfgLines /\ u[(m + 1) + n] = l /\ p \in Readings /\ q \in Readings
    BY <1>1, <2>2, ReadingIs
  <2>5. p1 = ParseLine(p, l, m + 1) /\ q1 = ParseLine(q, l, (m + 1) + n)
    BY <2>2, <2>4, ReadingIs
  <2>6. Edits(p, q, o, E, D) /\ q.section = p.section /\ (b <= m => q.default = p.default)
    BY <2>1
  <2>7. IsSetting(p, l) => <<p.section, l[2]>> \notin E
    <3> SUFFICES ASSUME IsSetting(p, l) PROVE <<p.section, l[2]>> \notin E
      OBVIOUS
    <3> DEFINE x == SettingOf(p, l, m + 1)
    <3>1. x \in SettingsRead /\ x.key = <<p.section, l[2]>>
      BY <2>2, <2>4, SettingTyped DEF SettingOf
    <3>2. p1 \in Readings
      BY <2>2, ReadingIs
    <3>3. p1.settings = Append(p.settings, x)
      <4>1. Continues(ParseLine(p, l, m + 1), p, l, m + 1)
        BY <2>2, <2>4, LineMeans
      <4> QED
        BY <2>5, <4>1 DEF Continues
    <3> HIDE DEF x, p, p1, l
    <3>a. p \in Readings /\ x \in SettingsRead
      BY <2>4, <3>1
    <3>4. Declared(p1) = Declared(p) \cup {x.key}
      BY <3>2, <3>3, <3>a, SettingAppended
    <3>5. Declared(p1) \subseteq Declared(ParseConfigFile(t))
      BY <2>2, DeclaredGrows DEF p1
    <3> QED
      BY <3>1, <3>4, <3>5
  <2>8. q.default = p.default \/ IsBlank(l) \/ IsHeader(l)
    <3>1. b <= m \/ b = m + 1 \/ m + 1 \in a + 1 .. b - 1
      BY <1>1, <2>2
    <3>2. CASE m + 1 \in a + 1 .. b - 1
      BY <3>2 DEF IsBlank
    <3>3. CASE b = m + 1
      <4>1. b <= Len(t)
        BY <1>1, <2>2, <3>3
      <4> QED
        BY <3>3, <4>1
    <3> QED
      BY <2>6, <3>1, <3>2, <3>3
  <2>9. b <= m + 1 => q.default = p.default \/ IsHeader(l)
    <3>1. b <= m + 1 => b <= m \/ (b = m + 1 /\ b <= Len(t))
      BY <1>1, <2>2
    <3> QED
      BY <2>6, <3>1
  <2> HIDE DEF p, q, l, p1, q1
  <2>10. /\ Edits(ParseLine(p, l, m + 1), ParseLine(q, l, (m + 1) + n), o, E, D)
         /\ ParseLine(q, l, (m + 1) + n).section = ParseLine(p, l, m + 1).section
         /\ q.default = p.default \/ IsHeader(l) => ParseLine(q, l, (m + 1) + n).default = ParseLine(p, l, m + 1).default
    BY <2>2, <2>4, <2>6, <2>7, <2>8, SameLineEdits
  <2>11. Edits(p1, q1, o, E, D) /\ q1.section = p1.section /\ (b <= m + 1 => q1.default = p1.default)
    BY <2>5, <2>9, <2>10
  <2>12. Good(m + 1)
    BY <2>11 DEF p1, q1
  <2> HIDE DEF Good
  <2> QED
    BY <2>3, <2>12
<1> HIDE DEF S
<1>4. 0 .. Len(t) - a \subseteq S
  <2> DEFINE d == Len(t) - a
  <2>1. d \in Nat
    BY <1>1
  <2>2. \A i \in 0 .. d : i < d /\ i \in S => i + 1 \in S
    BY <1>3
  <2> HIDE DEF d
  <2>3. 0 .. d \subseteq S
    BY <1>2, <2>1, <2>2, UpTo
  <2> QED
    BY <2>3 DEF d
<1>5. Len(t) - a \in S /\ a + (Len(t) - a) = Len(t)
  BY <1>1, <1>4
<1>6. Good(Len(t))
  <2> HIDE DEF Good
  <2> QED
    BY <1>5 DEF S
<1> QED
  BY <1>6 DEF ParseConfigFile

LEMMA NothingEdited ==
  ASSUME NEW p, NEW q, q.settings = p.settings, NEW o, NEW D
  PROVE  Edits(p, q, o, {}, D)
<1>1. Carries(p, q, D)
  BY CarriesSame
<1>2. \A k : ReadValue(q, k) = ReadValue(p, k)
  BY SameSettings
<1>3. Alters(p, q, o, {})
  BY <1>2 DEF Alters
<1> QED
  BY <1>1, <1>3 DEF Edits

(* The lines of a text with more of them in between.                        *)
LinesOf(u, t, e, a) ==
  /\ Len(u) = Len(t) + Len(e)
  /\ \A i \in 1 .. a : u[i] = t[i]
  /\ \A i \in 1 .. Len(e) : u[a + i] = e[i]
  /\ \A i \in a + 1 .. Len(t) : u[i + Len(e)] = t[i]
PutIn(u, w, t, e, a) ==
  /\ u \in Texts /\ w \in Texts /\ Len(w) = a + Len(e) /\ LinesOf(u, t, e, a)
  /\ \A i \in 1 .. a + Len(e) : u[i] = w[i]
LEMMA InsertedLines ==
  ASSUME NEW t \in Texts, NEW e \in Texts, NEW a \in 0 .. Len(t), NEW u,
         u = SubSeq(t, 1, a) \o e \o SubSeq(t, a + 1, Len(t))
  PROVE  PutIn(u, SubSeq(t, 1, a) \o e, t, e, a)
<1> DEFINE h == SubSeq(t, 1, a)
           r == SubSeq(t, a + 1, Len(t))
           w == h \o e
           n == Len(e)
<1>1. Len(t) \in Nat /\ a \in Nat /\ a <= Len(t) /\ a + 1 \in Nat /\ 1 <= a + 1 /\ n \in Nat
  BY DEF Texts
<1>2. h \in Texts /\ r \in Texts
  BY <1>1, SomeLines DEF Texts
<1>3. Len(h) = a /\ \A i \in 1 .. a : h[i] = t[i]
  BY <1>1 DEF Texts
<1>4. Len(r) = Len(t) - a /\ \A i \in 1 .. Len(t) - a : r[i] = t[a + i]
  BY <1>1 DEF Texts
<1> HIDE DEF h, r
<1>5. w = [i \in 1 .. Len(h) + n |-> IF i <= Len(h) THEN h[i] ELSE e[i - Len(h)]] /\ w \in Texts
  BY <1>2, Joined DEF Texts
<1>6. Len(w) = a + n /\ \A i \in 1 .. a + n : w[i] = IF i <= a THEN h[i] ELSE e[i - a]
  <2>1. Len(w) = Len(h) + n
    BY <1>2, ConcatProperties DEF Texts
  <2> QED
    BY <1>3, <1>5, <2>1
<1> HIDE DEF w
<1>7. u = w \o r
  BY DEF w, h, r
<1>8. u = [i \in 1 .. Len(w) + Len(r) |-> IF i <= Len(w) THEN w[i] ELSE r[i - Len(w)]] /\ u \in Texts
  <2>1. w \in Texts /\ r \in Texts
    BY <1>2, <1>5
  <2>2. w \o r = [i \in 1 .. Len(w) + Len(r) |-> IF i <= Len(w) THEN w[i] ELSE r[i - Len(w)]]
    BY <2>1, Joined
  <2>3. w \o r \in Texts
    BY <2>1 DEF Texts
  <2> QED
    BY <1>7, <2>2, <2>3
<1>9. Len(u) = Len(w) + Len(r)
  BY <1>2, <1>5, <1>7, ConcatProperties DEF Texts
<1>10. Len(u) = Len(t) + n /\ \A i \in 1 .. Len(t) + n : u[i] = IF i <= a + n THEN w[i] ELSE r[i - (a + n)]
  <2>1. Len(w) + Len(r) = Len(t) + n
    BY <1>1, <1>4, <1>6
  <2> QED
    BY <1>6, <1>8, <1>9, <2>1
<1>11. \A i \in 1 .. a : u[i] = t[i]
  <2> TAKE i \in 1 .. a
  <2>1. i \in 1 .. Len(t) + n /\ i <= a + n /\ i \in 1 .. a + n /\ i <= a
    BY <1>1
  <2> QED
    BY <1>3, <1>6, <1>10, <2>1
<1>12. \A i \in 1 .. n : u[a + i] = e[i]
  <2> TAKE i \in 1 .. n
  <2>1. a + i \in 1 .. Len(t) + n /\ a + i <= a + n /\ a + i \in 1 .. a + n /\ ~ (a + i <= a) /\ (a + i) - a = i
    BY <1>1
  <2> QED
    BY <1>6, <1>10, <2>1
<1>13. \A i \in a + 1 .. Len(t) : u[i + n] = t[i]
  <2> TAKE i \in a + 1 .. Len(t)
  <2>1. /\ i + n \in 1 .. Len(t) + n /\ ~ (i + n <= a + n) /\ (i + n) - (a + n) = i - a
        /\ i - a \in 1 .. Len(t) - a /\ a + (i - a) = i
    BY <1>1
  <2> QED
    BY <1>4, <1>10, <2>1
<1>14. \A i \in 1 .. a + n : u[i] = w[i]
  <2> TAKE i \in 1 .. a + n
  <2>1. i \in 1 .. Len(t) + n /\ i <= a + n
    BY <1>1
  <2> QED
    BY <1>10, <2>1
<1>15. PutIn(u, w, t, e, a)
  BY <1>5, <1>6, <1>8, <1>10, <1>11, <1>12, <1>13, <1>14 DEF LinesOf, PutIn
<1> QED
  BY <1>15 DEF w, h

(* A section's settings, added to the section where it is found ...         *)
Has(t, s) == \E i \in 1 .. Len(t) : t[i] = Section(s)
LEMMA InsertEdits ==
  ASSUME NEW t \in Texts, NEW o, IsOverrides(o), NEW D, NEW s \in Sections,
         NEW K \in SUBSET DOMAIN o, K \cap D = {}, NEW e, EntriesFor(e, o, K, s),
         NEW E, E = {k \in K : k[1] = s}, E \cap Declared(ParseConfigFile(t)) = {},
         NEW u, NEW a, InsertedAt(t, u, e, s, a)
  PROVE  /\ u \in Texts /\ Edits(ParseConfigFile(t), ParseConfigFile(u), o, E, D)
         /\ \A r : Has(t, r) => Has(u, r)
<1> DEFINE h == SubSeq(t, 1, a)
           w == h \o e
           n == Len(e)
           p == ParseConfigFile(h)
<1>1. Len(t) \in Nat /\ e \in Texts /\ n \in Nat /\ a \in 1 .. Len(t) /\ a \in 0 .. Len(t)
  BY DEF Texts, EntriesFor, InsertedAt
<1>2. u = h \o e \o SubSeq(t, a + 1, Len(t))
  BY DEF InsertedAt
<1>3. /\ u \in Texts /\ w \in Texts /\ Len(w) = a + n /\ LinesOf(u, t, e, a)
      /\ \A i \in 1 .. a + n : u[i] = w[i]
  <2>1. PutIn(u, SubSeq(t, 1, a) \o e, t, e, a)
    BY <1>1, <1>2, InsertedLines
  <2> QED
    BY <2>1 DEF PutIn
<1>4. h \in Texts /\ Len(h) = a /\ \A i \in 1 .. a : t[i] = h[i]
  BY <1>1 DEF Texts
<1> HIDE DEF h, w
<1>5. Reading(t)[a] = p
  <2>1. \A i \in 0 .. Len(h) : Reading(t)[i] = Reading(h)[i]
    BY <1>1, <1>4, PrefixIsRead
  <2> QED
    BY <1>1, <1>4, <2>1 DEF ParseConfigFile
<1>6. p.section = s
  <2>1. Under(t, a, s)
    <3>1. PICK j \in 1 .. a : t[j] = Section(s) /\ \A i \in j + 1 .. a : ~ IsHeader(t[i])
      BY DEF InsertedAt
    <3>2. IsHeader(t[j]) /\ t[j][2] = s
      BY <3>1 DEF IsHeader, Section
    <3> QED
      BY <3>1, <3>2 DEF Under
  <2> QED
    BY <1>1, <1>5, <2>1, UnderIs
<1>7. EntriesEdit(p, w, o, K, s, D)
  <2>1. p \in Readings
    BY <1>4, FileIsRead
  <2>2. Edits(p, ParseConfigFile(h), o, {}, D)
    BY NothingEdited
  <2>3. ParseConfigFile(h).section = s
    BY <1>6
  <2> HIDE DEF p
  <2> QED
    BY <1>4, <2>1, <2>2, <2>3, EntriesEdits DEF w
<1>8. Reading(u)[a + n] = ParseConfigFile(w)
  <2>1. Len(u) = Len(t) + n
    BY <1>3 DEF LinesOf
  <2>2. Len(w) <= Len(u) /\ \A i \in 1 .. Len(w) : u[i] = w[i]
    BY <1>1, <1>3, <2>1
  <2>3. \A i \in 0 .. Len(w) : Reading(u)[i] = Reading(w)[i]
    BY <1>3, <2>2, PrefixIsRead
  <2>4. Len(w) \in 0 .. Len(w)
    BY <1>1, <1>3
  <2> QED
    BY <1>3, <2>3, <2>4 DEF ParseConfigFile
<1>9. PICK b \in a + 1 .. Len(t) + 1 : (\A j \in a + 1 .. b - 1 : t[j] = Blank) /\ (b <= Len(t) => IsHeader(t[b]))
  BY DEF InsertedAt
<1>10. Edits(ParseConfigFile(t), ParseConfigFile(u), o, E, D)
  <2>1. Edits(Reading(t)[a], Reading(u)[a + n], o, E, D) /\ Reading(u)[a + n].section = Reading(t)[a].section
    BY <1>5, <1>6, <1>7, <1>8 DEF EntriesEdit
  <2>2. Len(u) = Len(t) + n /\ \A i \in a + 1 .. Len(t) : u[i + n] = t[i]
    BY <1>3 DEF LinesOf
  <2> HIDE DEF n
  <2> QED
    BY <1>1, <1>3, <1>9, <2>1, <2>2, RestEdits
<1>11. ASSUME NEW r, Has(t, r) PROVE Has(u, r)
  <2>1. PICK i \in 1 .. Len(t) : t[i] = Section(r)
    BY <1>11 DEF Has
  <2>2. CASE i <= a
    <3>1. u[i] = t[i] /\ i \in 1 .. Len(u)
      BY <1>1, <1>3, <2>2 DEF LinesOf
    <3> QED
      BY <2>1, <3>1 DEF Has
  <2>3. CASE ~ (i <= a)
    <3>1. u[i + n] = t[i] /\ i + n \in 1 .. Len(u)
      BY <1>1, <1>3, <2>3 DEF LinesOf
    <3> QED
      BY <2>1, <3>1 DEF Has
  <2> QED
    BY <2>2, <2>3
<1> QED
  BY <1>3, <1>10, <1>11

(* ... or with the section, at the end.                                     *)
LEMMA AppendEdits ==
  ASSUME NEW t \in Texts, NEW o, IsOverrides(o), NEW D, NEW s \in Sections,
         NEW K \in SUBSET DOMAIN o, K \cap D = {}, NEW e, EntriesFor(e, o, K, s),
         NEW E, E = {k \in K : k[1] = s},
         NEW u, u = AppendSection(t, s, e)
  PROVE  /\ u \in Texts /\ Edits(ParseConfigFile(t), ParseConfigFile(u), o, E, D)
         /\ \A r : Has(t, r) => Has(u, r)
<1> DEFINE t1 == IF t # <<>> /\ ~IsBlank(t[Len(t)]) THEN Append(t, Blank) ELSE t
           t2 == Append(t1, Section(s))
           h == Append(t2, Blank)
           w == h \o e
           p == ParseConfigFile(t)
<1>1. e \in Texts /\ p \in Readings /\ Blank \in CfgLines /\ Section(s) \in CfgLines
  BY FileIsRead DEF EntriesFor, Blank, Section, CfgLines
<1>2. t1 \in Texts /\ ParseConfigFile(t1) = p
  <2>1. ParseConfigFile(Append(t, Blank)) = ParseConfigFile(t) /\ Append(t, Blank) \in Texts
    BY BlankRead, OneLineMore
  <2> QED
    BY <2>1
<1>a. Len(t) \in Nat /\ Len(t1) \in Nat /\ Len(t) <= Len(t1) /\ \A i \in 1 .. Len(t) : t1[i] = t[i]
  BY <1>1 DEF Texts
<1> HIDE DEF t1, p
<1>3. t2 \in Texts /\ ParseConfigFile(t2).section = s /\ ParseConfigFile(t2).settings = p.settings
  <2> DEFINE q == ParseLine(p, Section(s), Len(t1) + 1)
  <2>1. t2 \in Texts /\ ParseConfigFile(t2) = q
    BY <1>1, <1>2, OneLineMore
  <2>2. Continues(q, p, Section(s), Len(t1) + 1)
    BY <1>1, <1>a, LineMeans
  <2> HIDE DEF q
  <2>3. IsHeader(Section(s)) /\ Section(s)[2] = s /\ ~ IsSetting(p, Section(s))
    BY DEF IsHeader, IsSetting, Section
  <2> QED
    BY <2>1, <2>2, <2>3 DEF Continues
<1>b. Len(t2) = Len(t1) + 1 /\ t2[Len(t1) + 1] = Section(s) /\ \A i \in 1 .. Len(t1) : t2[i] = t1[i]
  BY <1>2 DEF Texts
<1> HIDE DEF t2
<1>4. h \in Texts /\ ParseConfigFile(h) = ParseConfigFile(t2)
  BY <1>3, BlankRead, OneLineMore
<1>c. Len(h) = Len(t2) + 1 /\ \A i \in 1 .. Len(t2) : h[i] = t2[i]
  BY <1>3 DEF Texts
<1> HIDE DEF h
<1>5. EntriesEdit(p, w, o, K, s, D)
  <2>1. Edits(p, ParseConfigFile(h), o, {}, D)
    BY <1>3, <1>4, NothingEdited
  <2>2. ParseConfigFile(h).section = s
    BY <1>3, <1>4
  <2> QED
    BY <1>1, <1>4, <2>1, <2>2, EntriesEdits
<1>6. w \in Texts /\ Edits(p, ParseConfigFile(w), o, E, D)
  BY <1>5 DEF EntriesEdit
<1>d. Len(w) = Len(h) + Len(e) /\ \A i \in 1 .. Len(h) : w[i] = h[i]
  <2>1. w = [i \in 1 .. Len(h) + Len(e) |-> IF i <= Len(h) THEN h[i] ELSE e[i - Len(h)]]
    BY <1>1, <1>4, Joined
  <2>2. Len(h) \in Nat /\ Len(e) \in Nat
    BY <1>1, <1>4 DEF Texts
  <2>3. Len(w) = Len(h) + Len(e)
    BY <1>1, <1>4, ConcatProperties DEF Texts
  <2> HIDE DEF w
  <2> QED
    BY <2>1, <2>2, <2>3
<1> HIDE DEF w
<1>7. Append(w, Blank) \in Texts /\ ParseConfigFile(Append(w, Blank)) = ParseConfigFile(w)
  BY <1>6, BlankRead, OneLineMore
<1>8. u = Append(w, Blank)
  <2>1. t \o (IF t # <<>> /\ ~IsBlank(t[Len(t)]) THEN <<Blank>> ELSE <<>>) = t1
    BY <1>1 DEF t1, Texts
  <2>2. t1 \o <<Section(s), Blank>> = h
    BY <1>1, <1>2 DEF t2, h, Texts
  <2>3. u = (t1 \o <<Section(s), Blank>>) \o e \o <<Blank>>
    BY <2>1 DEF AppendSection
  <2>4. u = w \o <<Blank>>
    BY <2>2, <2>3 DEF w
  <2> QED
    BY <1>1, <1>6, <2>4 DEF Texts
<1>9. ASSUME NEW r, Has(t, r) PROVE Has(u, r)
  <2>1. PICK i \in 1 .. Len(t) : t[i] = Section(r)
    BY <1>9 DEF Has
  <2>2. i \in 1 .. Len(t1) /\ i \in 1 .. Len(t2) /\ i \in 1 .. Len(h) /\ i \in 1 .. Len(w)
    <3>1. Len(e) \in Nat
      BY <1>1 DEF Texts
    <3> QED
      BY <1>a, <1>b, <1>c, <1>d, <3>1
  <2>3. w[i] = Section(r)
    BY <1>a, <1>b, <1>c, <1>d, <2>1, <2>2
  <2>4. u[i] = w[i] /\ i \in 1 .. Len(u)
    BY <1>1, <1>6, <1>8, <2>2 DEF Texts
  <2> QED
    BY <2>3, <2>4 DEF Has
<1> QED
  BY <1>6, <1>7, <1>8, <1>9 DEF p

(* Every section comes once.                                                *)
LEMMA SectionsOnce ==
  ASSUME NEW K \in SUBSET SettingKeys
  PROVE  \A i, j \in 1 .. Len(SectionsOf(K)) : i # j => SectionsOf(K)[i] # SectionsOf(K)[j]
<1> DEFINE N == {k[1] : k \in K}
           g == Ascending(N)
           n == Cardinality(N)
<1>1. N \in SUBSET Sections
  BY DEF SettingKeys
<1>2. N \in SUBSET Nat /\ IsFiniteSet(N)
  BY <1>1, ConfigsAssumption, FS_Subset
<1>3. SectionsOf(K) = g
  BY DEF SectionsOf
<1> HIDE DEF N
<1>4. Len(g) = n /\ n \in Nat
  BY <1>2, AscendingIs
<1>5. Increasing(N, g)
  <2>1. PICK h : Increasing(N, h)
    BY <1>2, AscendingExists
  <2> QED
    BY <2>1 DEF Increasing, Ascending
<1>6. g \in [1 .. n -> N] /\ \A i, j \in 1 .. n : i < j => g[i] < g[j]
  BY <1>5 DEF Increasing
<1> HIDE DEF g, n
<1>7. ASSUME NEW i \in 1 .. n, NEW j \in 1 .. n, i # j PROVE g[i] # g[j]
  <2>1. i < j \/ j < i
    BY <1>4, <1>7
  <2>2. g[i] < g[j] \/ g[j] < g[i]
    BY <1>6, <2>1
  <2>3. g[i] \in Nat /\ g[j] \in Nat
    BY <1>2, <1>6
  <2> QED
    BY <2>2, <2>3
<1> QED
  BY <1>3, <1>4, <1>7

LEMMA DeclaredIsRead ==
  ASSUME NEW p \in Readings, NEW k
  PROVE  k \in Declared(p) <=> ReadValue(p, k) # 0
<1>1. ASSUME k \in Declared(p) PROVE ReadValue(p, k) # 0
  <2>1. PICK j \in DOMAIN p.settings : Indexed(p, k) = p.settings[j]
    BY <1>1, IndexedIs
  <2>2. p.settings[j].value \in CfgValues
    BY SettingIs
  <2>3. 0 \notin CfgValues
    BY ConfigsAssumption
  <2> QED
    BY <1>1, <2>1, <2>2, <2>3 DEF ReadValue
<1> QED
  BY <1>1 DEF ReadValue

LEMMA EditsOn ==
  ASSUME NEW p \in Readings, NEW q \in Readings, NEW r \in Readings, NEW o, NEW D, NEW E, NEW F, NEW G, G = E \cup F,
         Edits(p, q, o, E, D), Edits(q, r, o, F, D)
  PROVE  Edits(p, r, o, G, D)
<1>1. Carries(p, r, D)
  BY CarriesOn DEF Edits
<1>2. Alters(p, r, o, G)
  BY DEF Edits, Alters
<1> QED
  BY <1>1, <1>2 DEF Edits

(* Texts whose headers are found where they are looked for.                 *)
PlainTexts == Seq({l \in CfgLines : l[1] # "padded"})

LEMMA PlainIsText == PlainTexts \subseteq Texts
<1> SUFFICES ASSUME NEW t \in PlainTexts PROVE t \in Texts
  OBVIOUS
<1>1. Len(t) \in Nat /\ t = [i \in 1 .. Len(t) |-> t[i]] /\ \A i \in 1 .. Len(t) : t[i] \in CfgLines
  BY DEF PlainTexts
<1>2. t \in [1 .. Len(t) -> CfgLines]
  BY <1>1
<1> QED
  BY <1>1, <1>2 DEF Texts

LEMMA PlainLines ==
  /\ Blank \in {l \in CfgLines : l[1] # "padded"}
  /\ \A s \in Sections : Section(s) \in {l \in CfgLines : l[1] # "padded"}
  BY DEF Blank, Section, CfgLines

LEMMA PlainEntries ==
  ASSUME NEW o, NEW K, NEW s, NEW e, EntriesFor(e, o, K, s)
  PROVE  e \in PlainTexts
<1>1. Len(e) \in Nat /\ e = [i \in 1 .. Len(e) |-> e[i]] /\ \A i \in 1 .. Len(e) : e[i] \in CfgLines
  BY AsFunction DEF EntriesFor, Texts
<1>2. \A i \in 1 .. Len(e) : e[i][1] # "padded"
  <2> TAKE i \in 1 .. Len(e)
  <2>1. PICK k \in Keys : e[i] = Entry(k, o[<<s, k>>])
    BY DEF EntriesFor, Sets
  <2> QED
    BY <2>1 DEF Entry
<1>3. e \in [1 .. Len(e) -> {l \in CfgLines : l[1] # "padded"}]
  BY <1>1, <1>2
<1> QED
  BY <1>1, <1>3 DEF PlainTexts

(* One section of a merge.                                                  *)
AddsOne(t, u, o, E, D) ==
  /\ u \in Texts /\ Edits(ParseConfigFile(t), ParseConfigFile(u), o, E, D)
  /\ \A r : Has(t, r) => Has(u, r)
  /\ t \in PlainTexts => u \in PlainTexts
LEMMA AddEdits ==
  ASSUME NEW t \in Texts, NEW o, IsOverrides(o), NEW D, NEW s \in Sections,
         NEW K \in SUBSET DOMAIN o, K \cap D = {}, NEW e, EntriesFor(e, o, K, s),
         NEW E, E = {k \in K : k[1] = s}, E \cap Declared(ParseConfigFile(t)) = {},
         NEW f, s \in f.sections => Has(t, s)
  PROVE  AddsOne(t, AddSection(t, f, s, e), o, E, D)
<1>0. e \in PlainTexts
  BY PlainEntries
<1>1. CASE s \in f.sections
  <2> DEFINE u == InsertIntoSection(t, s, e)
  <2>1. Inserted(t, u, e, s)
    BY InsertIs DEF Texts
  <2>2. t \in PlainTexts => u \in PlainTexts
    BY <1>0, InsertedIsText DEF PlainTexts
  <2>3. AddSection(t, f, s, e) = u
    BY <1>1 DEF AddSection
  <2> HIDE DEF u
  <2>4. PICK a : InsertedAt(t, u, e, s, a)
    BY <1>1, <2>1 DEF Inserted, Has
  <2>5. /\ u \in Texts /\ Edits(ParseConfigFile(t), ParseConfigFile(u), o, E, D)
        /\ \A r : Has(t, r) => Has(u, r)
    BY <2>4, InsertEdits
  <2> QED
    BY <2>2, <2>3, <2>5 DEF AddsOne
<1>2. CASE s \notin f.sections
  <2> DEFINE u == AppendSection(t, s, e)
  <2>1. /\ u \in Texts /\ Edits(ParseConfigFile(t), ParseConfigFile(u), o, E, D)
        /\ \A r : Has(t, r) => Has(u, r)
    BY AppendEdits
  <2>2. t \in PlainTexts => u \in PlainTexts
    <3> DEFINE L == {l \in CfgLines : l[1] # "padded"}
    <3>1. Blank \in L /\ Section(s) \in L /\ e \in Seq(L)
      BY <1>0, PlainLines DEF PlainTexts
    <3> HIDE DEF L
    <3>2. ASSUME t \in Seq(L) PROVE u \in Seq(L)
      BY <3>1, <3>2 DEF AppendSection
    <3> QED
      BY <3>2 DEF L, PlainTexts
  <2>3. AddSection(t, f, s, e) = u
    BY <1>2 DEF AddSection
  <2> HIDE DEF u
  <2> QED
    BY <2>1, <2>2, <2>3 DEF AddsOne
<1> QED
  BY <1>1, <1>2

(* All of them.                                                             *)
AddsAll(t, u, o, K, D) ==
  /\ u \in Texts /\ Edits(ParseConfigFile(t), ParseConfigFile(u), o, K, D)
  /\ t \in PlainTexts => u \in PlainTexts
LEMMA AppendingEdits ==
  ASSUME NEW t \in Texts, NEW o, IsOverrides(o), NEW D, NEW K \in SUBSET DOMAIN o, K \cap D = {},
         K \cap Declared(ParseConfigFile(t)) = {}, NEW f, \A s \in f.sections : Has(t, s)
  PROVE  AddsAll(t, AppendOverrides(t, f, o, K), o, K, D)
<1> DEFINE order == SectionsOf(K)
           n == Len(order)
           w == Adding(t, f, o, K)
           p == ParseConfigFile(t)
           Upto(i) == {k \in K : \E j \in 1 .. i : order[j] = k[1]}
           Good(i) == /\ Edits(p, ParseConfigFile(w[i]), o, Upto(i), D) /\ \A s \in f.sections : Has(w[i], s)
                      /\ t \in PlainTexts => w[i] \in PlainTexts
           S == {i \in 0 .. n : Good(i)}
<1>1. /\ n \in Nat /\ \A i \in 1 .. n : order[i] \in Sections
      /\ \A k \in K : \E i \in 1 .. n : order[i] = k[1]
      /\ \A i, j \in 1 .. n : i # j => order[i] # order[j]
  BY SectionsAre, SectionsOnce DEF IsOverrides
<1>2. AddsUp(w, t, f, o, K)
  BY AddingIs
<1> HIDE DEF w
<1>3. /\ w[0] = t /\ \A i \in 0 .. n : w[i] \in Texts
      /\ \A i \in 1 .. n : w[i] = AddSection(w[i - 1], f, order[i], Entries(o, K, order[i]))
  BY <1>2 DEF AddsUp
<1> HIDE DEF n, order
<1>4. 0 \in S
  <2>1. Upto(0) = {}
    OBVIOUS
  <2>2. Edits(p, p, o, {}, D)
    BY NothingEdited
  <2>3. Good(0)
    <3> HIDE DEF Upto
    <3> QED
      BY <1>3, <2>1, <2>2
  <2> HIDE DEF Good
  <2> QED
    BY <1>1, <2>3
<1>5. ASSUME NEW i \in 0 .. n, i < n, i \in S PROVE i + 1 \in S
  <2> DEFINE s == order[i + 1]
             e == Entries(o, K, s)
             E == {k \in K : k[1] = s}
             v == w[i]
             q == ParseConfigFile(v)
             u == w[i + 1]
             r == ParseConfigFile(u)
  <2>1. i + 1 \in 1 .. n /\ i + 1 \in 0 .. n /\ (i + 1) - 1 = i /\ i \in Nat
    BY <1>1, <1>5
  <2>2. Good(i)
    BY <1>5
  <2>3. v \in Texts /\ u \in Texts /\ s \in Sections /\ u = AddSection(v, f, s, e)
    BY <1>1, <1>3, <2>1
  <2>4. Upto(i + 1) = Upto(i) \cup E
    <3>1. 1 .. i + 1 = (1 .. i) \cup {i + 1}
      BY <2>1
    <3> QED
      BY <3>1
  <2>5. Upto(i) \cap E = {}
    <3>1. \A j \in 1 .. i : order[j] # s
      BY <1>1, <2>1
    <3> HIDE DEF s
    <3> QED
      BY <3>1
  <2>6. E \subseteq K
    OBVIOUS
  <2>7. p \in Readings /\ q \in Readings /\ r \in Readings
    BY <2>3, FileIsRead
  <2>8. Edits(p, q, o, Upto(i), D) /\ (\A x \in f.sections : Has(v, x)) /\ (t \in PlainTexts => v \in PlainTexts)
    BY <2>2
  <2>a. E = {k \in K : k[1] = s}
    OBVIOUS
  <2> HIDE DEF s, E, v, q, u, r, Upto, p
  <2>9. E \cap Declared(q) = {}
    <3> SUFFICES ASSUME NEW k \in E PROVE k \notin Declared(q)
      OBVIOUS
    <3>1. k \notin Declared(p) /\ k \notin Upto(i)
      BY <2>5, <2>6 DEF p
    <3>2. ReadValue(p, k) = 0
      BY <3>1 DEF ReadValue
    <3>3. ReadValue(q, k) = 0
      BY <2>8, <3>1, <3>2 DEF Edits, Alters
    <3> QED
      BY <2>7, <3>3, DeclaredIsRead
  <2>10. EntriesFor(e, o, K, s)
    BY <2>3, EntriesAre
  <2> HIDE DEF e
  <2>11. AddsOne(v, AddSection(v, f, s, e), o, E, D)
    <3>1. E \cap Declared(ParseConfigFile(v)) = {}
      BY <2>9 DEF q
    <3>2. s \in f.sections => Has(v, s)
      BY <2>8
    <3> QED
      BY <2>3, <2>10, <2>a, <3>1, <3>2, AddEdits
  <2>12. AddsOne(v, u, o, E, D)
    BY <2>3, <2>11
  <2>13. Edits(q, r, o, E, D)
    BY <2>12 DEF AddsOne, q, r
  <2>14. Edits(p, r, o, Upto(i + 1), D)
    BY <2>4, <2>7, <2>8, <2>13, EditsOn
  <2>15. (\A x \in f.sections : Has(u, x)) /\ (t \in PlainTexts => u \in PlainTexts)
    BY <2>8, <2>12 DEF AddsOne
  <2>16. Good(i + 1)
    BY <2>14, <2>15 DEF u, r
  <2> HIDE DEF Good
  <2> QED
    BY <2>1, <2>16
<1> HIDE DEF S
<1>6. 0 .. n \subseteq S
  BY <1>1, <1>4, <1>5, UpTo
<1>7. n \in S /\ n \in 0 .. n
  BY <1>1, <1>6
<1>8. Good(n)
  <2> HIDE DEF Good
  <2> QED
    BY <1>7 DEF S
<1>9. Upto(n) = K
  BY <1>1
<1>10. AppendOverrides(t, f, o, K) = w[n]
  BY DEF AppendOverrides, w, n, order
<1> HIDE DEF Upto
<1> QED
  BY <1>3, <1>7, <1>8, <1>9, <1>10 DEF AddsAll

-----------------------------------------------------------------------------
(* Settings and their lines                                                 *)

LEMMA EntryLine ==
  ASSUME NEW l \in CfgLines, l[1] = "entry"
  PROVE  l = Entry(l[2], l[3])
<1>1. l # <<"blank">> /\ l # <<"junk">>
  <2>1. <<"blank">>[1] = "blank" /\ <<"junk">>[1] = "junk"
    OBVIOUS
  <2> QED
    BY <2>1
<1>2. l \notin {"comment"} \X CfgValues /\ l \notin {"section", "padded"} \X Sections
  OBVIOUS
<1>3. l \in {"entry"} \X Keys \X CfgValues
  BY <1>1, <1>2 DEF CfgLines
<1> QED
  BY <1>3 DEF Entry

LineIs(t, s, i) ==
  s.line \in 1 .. i /\ t[s.line] = Entry(s.key[2], s.value) /\ s.key = <<Reading(t)[s.line].section, s.key[2]>>
FromLines(t, f, m) ==
  /\ \A j \in DOMAIN f.settings : LineIs(t, f.settings[j], m)
  /\ \A i, j \in DOMAIN f.settings : i < j => f.settings[i].line < f.settings[j].line
  /\ \A i \in 1 .. m : IsSetting(Reading(t)[i], t[i]) => \E j \in DOMAIN f.settings : f.settings[j].line = i

LEMMA LinesMakeSettings ==
  ASSUME NEW t \in Texts
  PROVE  FromLines(t, ParseConfigFile(t), Len(t))
<1> DEFINE Good(i) == FromLines(t, Reading(t)[i], i)
           S == {i \in 0 .. Len(t) : Good(i)}
<1>1. Len(t) \in Nat /\ \A j \in 1 .. Len(t) : t[j] \in CfgLines
  BY DEF Texts
<1>2. 0 \in S
  <2>1. Reading(t)[0].settings = <<>>
    BY ReadingIs DEF NothingRead
  <2>2. Good(0)
    BY <2>1 DEF FromLines
  <2> HIDE DEF Good
  <2> QED
    BY <1>1, <2>2
<1>3. ASSUME NEW i \in 0 .. Len(t), i < Len(t), i \in S PROVE i + 1 \in S
  <2> DEFINE p == Reading(t)[i]
             q == Reading(t)[i + 1]
             l == t[i + 1]
             n == Len(p.settings)
  <2>1. i + 1 \in 1 .. Len(t) /\ (i + 1) - 1 = i /\ i + 1 \in Nat /\ i \in Nat
    BY <1>1, <1>3
  <2>2. p \in Readings /\ q \in Readings /\ q = ParseLine(p, l, i + 1) /\ l \in CfgLines
    BY <1>1, <2>1, ReadingIs
  <2>3. FromLines(t, p, i)
    BY <1>3
  <2> HIDE DEF p
  <2>4. Continues(q, p, l, i + 1)
    <3> HIDE DEF q, l
    <3> QED
      BY <2>1, <2>2, LineMeans
  <2>5. n \in Nat /\ DOMAIN p.settings = 1 .. n /\ \A j \in 1 .. n : p.settings[j] \in SettingsRead
    <3>1. p.settings \in Seq(SettingsRead)
      BY <2>2, CarriesTyped
    <3> QED
      BY <3>1
  <2>6. \A j \in 1 .. n : LineIs(t, p.settings[j], i + 1) /\ p.settings[j].line \in 1 .. i
    BY <2>1, <2>3, <2>5 DEF FromLines, LineIs
  <2>7. \A j \in 1 .. i + 1 : j \in 1 .. i \/ j = i + 1
    BY <2>1
  <2>8. CASE IsSetting(p, l)
    <3> DEFINE x == SettingOf(p, l, i + 1)
    <3>1. ~ IsHeader(l) /\ l = Entry(l[2], l[3])
      BY <2>2, <2>8, EntryLine DEF IsSetting, IsHeader
    <3>2. q.section = p.section /\ q.settings = Append(p.settings, x)
      BY <2>4, <2>8, <3>1 DEF Continues
    <3>3. x.line = i + 1 /\ x.key = <<p.section, l[2]>> /\ x.value = l[3] /\ x.key[2] = l[2]
      BY DEF SettingOf
    <3>4. LineIs(t, x, i + 1)
      BY <2>1, <3>1, <3>2, <3>3 DEF LineIs
    <3> HIDE DEF x, q, l, n
    <3>5. /\ DOMAIN q.settings = 1 .. n + 1 /\ q.settings[n + 1] = x
          /\ \A j \in 1 .. n : q.settings[j] = p.settings[j]
      <4>1. p.settings \in Seq(SettingsRead)
        BY <2>2, CarriesTyped
      <4> QED
        BY <2>5, <3>2, <4>1 DEF n
    <3>6. \A j \in 1 .. n + 1 : j \in 1 .. n \/ j = n + 1
      BY <2>5
    <3>7. \A j \in DOMAIN q.settings : LineIs(t, q.settings[j], i + 1)
      BY <2>6, <3>4, <3>5, <3>6
    <3>8. \A j, k \in DOMAIN q.settings : j < k => q.settings[j].line < q.settings[k].line
      <4> SUFFICES ASSUME NEW j \in 1 .. n + 1, NEW k \in 1 .. n + 1, j < k PROVE q.settings[j].line < q.settings[k].line
        BY <3>5
      <4>1. j \in 1 .. n
        BY <2>5
      <4>2. CASE k \in 1 .. n
        BY <2>3, <2>5, <3>5, <4>1, <4>2 DEF FromLines
      <4>3. CASE k = n + 1
        <5>1. q.settings[k].line = i + 1 /\ q.settings[j].line \in 1 .. i
          BY <2>6, <3>3, <3>5, <4>1, <4>3
        <5> QED
          BY <2>1, <5>1
      <4> QED
        BY <3>6, <4>2, <4>3
    <3>9. \A j \in 1 .. i + 1 : IsSetting(Reading(t)[j], t[j]) => \E k \in DOMAIN q.settings : q.settings[k].line = j
      <4> SUFFICES ASSUME NEW j \in 1 .. i + 1, IsSetting(Reading(t)[j], t[j]) PROVE \E k \in DOMAIN q.settings : q.settings[k].line = j
        OBVIOUS
      <4>1. CASE j \in 1 .. i
        <5>1. PICK k \in 1 .. n : p.settings[k].line = j
          BY <2>3, <2>5, <4>1 DEF FromLines
        <5>2. k \in 1 .. n + 1
          BY <2>5
        <5> QED
          BY <3>5, <5>1, <5>2
      <4>2. CASE j = i + 1
        <5>1. n + 1 \in 1 .. n + 1
          BY <2>5
        <5> QED
          BY <3>3, <3>5, <4>2, <5>1
      <4> QED
        BY <2>7, <4>1, <4>2
    <3>10. FromLines(t, q, i + 1)
      BY <3>7, <3>8, <3>9 DEF FromLines
    <3> QED
      BY <2>1, <3>10 DEF q
  <2>9. CASE ~ IsSetting(p, l)
    <3>1. q.settings = p.settings
      BY <2>4, <2>9 DEF Continues
    <3>2. ~ IsSetting(q, l)
      <4>1. IsHeader(l) => l[1] # "entry"
        BY DEF IsHeader
      <4>2. ~ IsHeader(l) => q.section = p.section
        BY <2>4 DEF Continues
      <4> QED
        BY <2>9, <4>1, <4>2 DEF IsSetting
    <3>3. \A j \in 1 .. i + 1 : IsSetting(Reading(t)[j], t[j]) => j \in 1 .. i
      BY <2>7, <3>2
    <3> HIDE DEF q
    <3>4. FromLines(t, q, i + 1)
      BY <2>3, <2>5, <2>6, <3>1, <3>3 DEF FromLines
    <3> QED
      BY <2>1, <3>4 DEF q
  <2> QED
    BY <2>8, <2>9
<1> HIDE DEF S
<1>4. 0 .. Len(t) \subseteq S
  BY <1>1, <1>2, <1>3, UpTo
<1>5. Good(Len(t))
  <2>1. Len(t) \in S
    BY <1>1, <1>4
  <2> HIDE DEF Good
  <2> QED
    BY <2>1 DEF S
<1> QED
  BY <1>5 DEF ParseConfigFile

(* What the mod reads of a file is what agrelha reads of it.                *)
LEMMA ValueIs ==
  ASSUME NEW t \in Texts, NEW k \in SettingKeys
  PROVE  ValueIn(t, k) = ReadValue(ParseConfigFile(t), k)
<1> DEFINE f == ParseConfigFile(t)
           at == {i \in DOMAIN t :
                    /\ t[i][1] = "entry" /\ t[i][2] = k[2]
                    /\ \E h \in 1 .. i : /\ IsHeader(t[h]) /\ t[h][2] = k[1]
                                         /\ \A j \in h + 1 .. i : ~IsHeader(t[j])}
<1>0. k = <<k[1], k[2]>> /\ k[1] \in Sections /\ k[1] # 0
  BY ConfigsAssumption DEF SettingKeys
<1>1. Len(t) \in Nat /\ DOMAIN t = 1 .. Len(t) /\ \A i \in 1 .. Len(t) : t[i] \in CfgLines
  BY DEF Texts
<1>2. ValueIn(t, k) = IF at = {} THEN 0 ELSE t[CHOOSE i \in at : \A j \in at : j <= i][3]
  BY DEF ValueIn
<1>3. \A i \in 1 .. Len(t) : i \in at <=> t[i][1] = "entry" /\ t[i][2] = k[2] /\ Reading(t)[i].section = k[1]
  <2> TAKE i \in 1 .. Len(t)
  <2>1. i \in at <=> t[i][1] = "entry" /\ t[i][2] = k[2] /\ Under(t, i, k[1])
    BY <1>1 DEF Under
  <2>2. Under(t, i, k[1]) <=> Reading(t)[i].section = k[1]
    BY <1>0, <1>1, UnderIs
  <2> QED
    BY <2>1, <2>2
<1>4. \A i \in at : i \in 1 .. Len(t)
  BY <1>1
<1> HIDE DEF at, f
<1>5. f \in Readings /\ FromLines(t, f, Len(t))
  BY FileIsRead, LinesMakeSettings DEF f
<1>6. ASSUME NEW j \in DOMAIN f.settings, f.settings[j].key = k PROVE f.settings[j].line \in at
  <2> DEFINE i == f.settings[j].line
  <2>1. i \in 1 .. Len(t) /\ t[i] = Entry(k[2], f.settings[j].value) /\ k = <<Reading(t)[i].section, k[2]>>
    BY <1>5, <1>6 DEF FromLines, LineIs
  <2> HIDE DEF i
  <2>2. t[i][1] = "entry" /\ t[i][2] = k[2] /\ Reading(t)[i].section = k[1]
    BY <1>0, <2>1 DEF Entry
  <2> QED
    BY <1>3, <2>1, <2>2 DEF i
<1>7. ASSUME NEW i \in at PROVE \E j \in DOMAIN f.settings : f.settings[j].line = i /\ f.settings[j].key = k
  <2>1. i \in 1 .. Len(t) /\ t[i][1] = "entry" /\ t[i][2] = k[2] /\ Reading(t)[i].section = k[1]
    BY <1>3, <1>4
  <2>2. PICK j \in DOMAIN f.settings : f.settings[j].line = i
    BY <1>0, <1>5, <2>1 DEF FromLines, IsSetting
  <2> DEFINE s == f.settings[j]
  <2>3. t[i] = Entry(s.key[2], s.value) /\ s.key = <<Reading(t)[i].section, s.key[2]>>
    BY <1>5, <2>2 DEF FromLines, LineIs
  <2>4. s.key[2] = k[2]
    BY <2>1, <2>3 DEF Entry
  <2>5. s.key = k
    BY <1>0, <2>1, <2>3, <2>4
  <2> QED
    BY <2>2, <2>5
<1>8. CASE k \in Declared(f)
  <2>1. PICK n \in DOMAIN f.settings : /\ f.settings[n].key = k /\ Indexed(f, k) = f.settings[n]
                                       /\ \A m \in DOMAIN f.settings : f.settings[m].key = k => m <= n
    BY <1>5, <1>8, IndexedIsLast
  <2> DEFINE x == f.settings[n].line
  <2>2. x \in at
    BY <1>6, <2>1
  <2>3. ASSUME NEW i \in at PROVE i <= x
    <3>1. PICK j \in DOMAIN f.settings : f.settings[j].line = i /\ f.settings[j].key = k
      BY <1>7
    <3>2. j <= n /\ j \in Nat /\ n \in Nat
      BY <1>5, <2>1, <3>1, SettingIs
    <3>3. j < n \/ j = n
      BY <3>2
    <3>4. i \in Nat /\ x \in Nat
      BY <1>4, <2>2
    <3>5. i < x \/ i = x
      BY <1>5, <3>1, <3>3 DEF FromLines
    <3> QED
      BY <3>4, <3>5
  <2> HIDE DEF x
  <2>4. (CHOOSE i \in at : \A j \in at : j <= i) = x
    <3>1. \A i \in at : (\A j \in at : j <= i) => i = x
      <4> SUFFICES ASSUME NEW i \in at, \A j \in at : j <= i PROVE i = x
        OBVIOUS
      <4>1. x <= i /\ i <= x /\ i \in Nat /\ x \in Nat
        BY <1>4, <2>2, <2>3
      <4> QED
        BY <4>1
    <3> QED
      BY <2>2, <2>3, <3>1
  <2>5. ValueIn(t, k) = t[x][3]
    BY <1>2, <2>2, <2>4
  <2>6. t[x] = Entry(k[2], f.settings[n].value)
    BY <1>5, <2>1 DEF FromLines, LineIs, x
  <2>7. t[x][3] = f.settings[n].value
    BY <2>6 DEF Entry
  <2> QED
    BY <1>8, <2>1, <2>5, <2>7 DEF ReadValue, f
<1>9. CASE k \notin Declared(f)
  <2>1. at = {}
    BY <1>7, <1>9 DEF Declared
  <2> QED
    BY <1>2, <1>9, <2>1 DEF ReadValue, f
<1> QED
  BY <1>8, <1>9

(* Headers are lines.                                                       *)
LEMMA LineSections ==
  ASSUME NEW p \in Readings, NEW l \in CfgLines, NEW i \in Nat
  PROVE  ParseLine(p, l, i).sections = IF IsHeader(l) THEN p.sections \cup {l[2]} ELSE p.sections
<1>0. <<"blank">>[1] = "blank" /\ <<"junk">>[1] = "junk"
  OBVIOUS
<1>1. CASE l[1] = "blank"
  BY <1>1 DEF ParseLine, IsHeader
<1>2. CASE l[1] = "comment"
  <2>1. ParseLine(p, l, i) = [p EXCEPT !.default = l[2]]
    BY <1>2 DEF ParseLine, IsHeader
  <2> QED
    BY <1>2, <2>1 DEF Readings, IsHeader
<1>3. CASE IsHeader(l)
  <2>1. ParseLine(p, l, i) = [p EXCEPT !.section = l[2], !.sections = @ \cup {l[2]}, !.default = 0]
    BY <1>3 DEF ParseLine, IsHeader
  <2> QED
    BY <1>3, <2>1 DEF Readings
<1>4. CASE l[1] = "entry" /\ p.section # 0
  <2> DEFINE x == [key |-> <<p.section, l[2]>>, value |-> l[3], default |-> p.default, line |-> i]
  <2>1. ParseLine(p, l, i) = [p EXCEPT !.settings = Append(@, x), !.default = 0]
    BY <1>4 DEF ParseLine, IsHeader
  <2> HIDE DEF x
  <2> QED
    BY <1>4, <2>1 DEF Readings, IsHeader
<1>5. CASE l[1] = "junk" \/ (l[1] = "entry" /\ p.section = 0)
  <2>1. ParseLine(p, l, i) = [p EXCEPT !.default = 0, !.parsable = FALSE]
    BY <1>5 DEF ParseLine, IsHeader
  <2> QED
    BY <1>5, <2>1 DEF Readings, IsHeader
<1>6. l[1] = "blank" \/ l[1] = "junk" \/ l[1] = "comment" \/ IsHeader(l) \/ l[1] = "entry"
  BY <1>0, LineKinds
<1> QED
  BY <1>1, <1>2, <1>3, <1>4, <1>5, <1>6

LEMMA HeadersAreFound ==
  ASSUME NEW t \in PlainTexts
  PROVE  \A s \in ParseConfigFile(t).sections : Has(t, s)
<1> DEFINE S == {i \in 0 .. Len(t) : \A s \in Reading(t)[i].sections : Has(t, s)}
<1>0. t \in Texts
  BY PlainIsText
<1>1. Len(t) \in Nat /\ \A j \in 1 .. Len(t) : t[j] \in CfgLines /\ t[j][1] # "padded"
  BY DEF PlainTexts
<1>2. 0 \in S
  BY <1>0, <1>1, ReadingIs DEF NothingRead
<1>3. ASSUME NEW i \in 0 .. Len(t), i < Len(t), i \in S PROVE i + 1 \in S
  <2> DEFINE p == Reading(t)[i]
             q == Reading(t)[i + 1]
             l == t[i + 1]
  <2>1. i + 1 \in 1 .. Len(t) /\ (i + 1) - 1 = i /\ i + 1 \in Nat
    BY <1>1, <1>3
  <2>2. p \in Readings /\ q = ParseLine(p, l, i + 1) /\ l \in CfgLines /\ l[1] # "padded"
    BY <1>0, <1>1, <2>1, ReadingIs
  <2>3. IsHeader(l) => l = Section(l[2])
    <3> SUFFICES ASSUME IsHeader(l) PROVE l = Section(l[2])
      OBVIOUS
    <3>1. l[1] = "section"
      BY <2>2 DEF IsHeader
    <3> HIDE DEF l
    <3>2. l # <<"blank">> /\ l # <<"junk">>
      <4>1. <<"blank">>[1] = "blank" /\ <<"junk">>[1] = "junk"
        OBVIOUS
      <4> QED
        BY <3>1, <4>1
    <3>3. l \notin {"comment"} \X CfgValues /\ l \notin {"entry"} \X Keys \X CfgValues
      BY <3>1
    <3>4. l \in {"section", "padded"} \X Sections
      BY <2>2, <3>2, <3>3 DEF CfgLines
    <3> QED
      BY <3>1, <3>4 DEF Section
  <2>4. IsHeader(l) => Has(t, l[2])
    BY <2>1, <2>3 DEF Has
  <2> HIDE DEF p, q, l
  <2>5. q.sections = IF IsHeader(l) THEN p.sections \cup {l[2]} ELSE p.sections
    BY <2>1, <2>2, LineSections
  <2>6. \A s \in p.sections : Has(t, s)
    BY <1>3 DEF p
  <2>7. \A s \in q.sections : Has(t, s)
    BY <2>4, <2>5, <2>6
  <2> QED
    BY <2>1, <2>7 DEF q
<1> HIDE DEF S
<1>4. 0 .. Len(t) \subseteq S
  BY <1>1, <1>2, <1>3, UpTo
<1>5. Len(t) \in S
  BY <1>1, <1>4
<1> QED
  BY <1>5 DEF S, ParseConfigFile

(* A text with other values is read the same otherwise.                     *)
SameNames(p, q) ==
  /\ q.section = p.section /\ q.default = p.default /\ DOMAIN q.settings = DOMAIN p.settings
  /\ \A j \in DOMAIN p.settings : /\ q.settings[j].key = p.settings[j].key /\ q.settings[j].default = p.settings[j].default
                                  /\ q.settings[j].line = p.settings[j].line
SameLine(l, m) == m = l \/ (l[1] = "entry" /\ m[1] = "entry" /\ m[2] = l[2])

LEMMA LineNames ==
  ASSUME NEW p \in Readings, NEW q \in Readings, SameNames(p, q), NEW l \in CfgLines, NEW m \in CfgLines, SameLine(l, m),
         NEW i \in Nat
  PROVE  SameNames(ParseLine(p, l, i), ParseLine(q, m, i))
<1> DEFINE p1 == ParseLine(p, l, i)
           q1 == ParseLine(q, m, i)
<1>1. Continues(p1, p, l, i) /\ Continues(q1, q, m, i) /\ p1 \in Readings /\ q1 \in Readings
  BY LineMeans, LineRead
<1>2. q1.default = p1.default
  <2>1. q.section = p.section /\ q.default = p.default
    BY DEF SameNames
  <2>2. CASE m = l
    BY <2>1, <2>2, SameDefault
  <2>3. CASE l[1] = "entry" /\ m[1] = "entry" /\ m[2] = l[2]
    <3>1. CASE p.section # 0
      <4>1. /\ p1 = [p EXCEPT !.settings = Append(@, [key |-> <<p.section, l[2]>>, value |-> l[3], default |-> p.default, line |-> i]),
                              !.default = 0]
            /\ q1 = [q EXCEPT !.settings = Append(@, [key |-> <<q.section, m[2]>>, value |-> m[3], default |-> q.default, line |-> i]),
                              !.default = 0]
        BY <2>1, <2>3, <3>1 DEF ParseLine, IsHeader
      <4> QED
        BY <4>1 DEF Readings
    <3>2. CASE p.section = 0
      <4>1. /\ p1 = [p EXCEPT !.default = 0, !.parsable = FALSE]
            /\ q1 = [q EXCEPT !.default = 0, !.parsable = FALSE]
        BY <2>1, <2>3, <3>2 DEF ParseLine, IsHeader
      <4> QED
        BY <4>1 DEF Readings
    <3> QED
      BY <3>1, <3>2
  <2> QED
    BY <2>2, <2>3 DEF SameLine
<1> HIDE DEF p1, q1
<1>3. IsHeader(m) = IsHeader(l) /\ (IsHeader(l) => m = l) /\ (m[1] = "entry" <=> l[1] = "entry") /\ (l[1] = "entry" => m[2] = l[2])
  BY DEF SameLine, IsHeader
<1>4. q1.section = p1.section
  BY <1>1, <1>3 DEF Continues, SameNames
<1>5. IsSetting(q, m) <=> IsSetting(p, l)
  BY <1>3 DEF IsSetting, SameNames
<1>6. CASE IsSetting(p, l)
  <2> DEFINE x == SettingOf(p, l, i)
             y == SettingOf(q, m, i)
             n == Len(p.settings)
  <2>1. p1.settings = Append(p.settings, x) /\ q1.settings = Append(q.settings, y)
    BY <1>1, <1>5, <1>6 DEF Continues
  <2>2. y.key = x.key /\ y.default = x.default /\ y.line = x.line
    BY <1>3, <1>6 DEF SettingOf, SameNames, IsSetting
  <2>a. x \in SettingsRead /\ y \in SettingsRead
    BY <1>5, <1>6, SettingTyped
  <2> HIDE DEF x, y, n
  <2>3. n \in Nat /\ p.settings \in Seq(SettingsRead) /\ q.settings \in Seq(SettingsRead) /\ DOMAIN p.settings = 1 .. n
    BY CarriesTyped DEF n
  <2>4. DOMAIN q.settings = 1 .. n /\ Len(q.settings) = n
    <3>1. DOMAIN q.settings = 1 .. n
      BY <2>3 DEF SameNames
    <3> QED
      BY <2>3, <3>1
  <2>5. /\ DOMAIN p1.settings = 1 .. n + 1 /\ p1.settings[n + 1] = x
        /\ \A j \in 1 .. n : p1.settings[j] = p.settings[j]
    BY <2>1, <2>3, <2>a DEF n
  <2>6. /\ DOMAIN q1.settings = 1 .. n + 1 /\ q1.settings[n + 1] = y
        /\ \A j \in 1 .. n : q1.settings[j] = q.settings[j]
    BY <2>1, <2>3, <2>4, <2>a
  <2>7. \A j \in 1 .. n + 1 : j \in 1 .. n \/ j = n + 1
    BY <2>3
  <2>8. \A j \in 1 .. n + 1 : /\ q1.settings[j].key = p1.settings[j].key /\ q1.settings[j].default = p1.settings[j].default
                              /\ q1.settings[j].line = p1.settings[j].line
    <3> TAKE j \in 1 .. n + 1
    <3>1. CASE j \in 1 .. n
      BY <2>3, <2>5, <2>6, <3>1 DEF SameNames
    <3>2. CASE j = n + 1
      BY <2>2, <2>5, <2>6, <3>2
    <3> QED
      BY <2>7, <3>1, <3>2
  <2>9. SameNames(p1, q1)
    BY <1>2, <1>4, <2>5, <2>6, <2>8 DEF SameNames
  <2> QED
    BY <2>9 DEF p1, q1
<1>7. CASE ~ IsSetting(p, l)
  <2>1. p1.settings = p.settings /\ q1.settings = q.settings
    BY <1>1, <1>5, <1>7 DEF Continues
  <2>2. SameNames(p1, q1)
    BY <1>2, <1>4, <2>1 DEF SameNames
  <2> QED
    BY <2>2 DEF p1, q1
<1> QED
  BY <1>6, <1>7

LEMMA TextNames ==
  ASSUME NEW t \in Texts, NEW u \in Texts, Len(u) = Len(t), \A i \in 1 .. Len(t) : SameLine(t[i], u[i])
  PROVE  SameNames(ParseConfigFile(t), ParseConfigFile(u))
<1> DEFINE S == {i \in 0 .. Len(t) : SameNames(Reading(t)[i], Reading(u)[i])}
<1>1. Len(t) \in Nat /\ \A j \in 1 .. Len(t) : t[j] \in CfgLines /\ u[j] \in CfgLines
  BY DEF Texts
<1>2. 0 \in S
  BY <1>1, ReadingIs DEF SameNames
<1>3. ASSUME NEW i \in 0 .. Len(t), i < Len(t), i \in S PROVE i + 1 \in S
  <2> DEFINE p == Reading(t)[i]
             q == Reading(u)[i]
             l == t[i + 1]
             m == u[i + 1]
  <2>1. i + 1 \in 1 .. Len(t) /\ (i + 1) - 1 = i /\ i + 1 \in Nat
    BY <1>1, <1>3
  <2>2. p \in Readings /\ q \in Readings /\ Reading(t)[i + 1] = ParseLine(p, l, i + 1) /\ Reading(u)[i + 1] = ParseLine(q, m, i + 1)
    BY <1>1, <2>1, ReadingIs
  <2>3. l \in CfgLines /\ m \in CfgLines /\ SameLine(l, m)
    BY <1>1, <2>1
  <2>4. SameNames(p, q)
    BY <1>3
  <2> HIDE DEF p, q, l, m
  <2>5. SameNames(ParseLine(p, l, i + 1), ParseLine(q, m, i + 1))
    BY <2>1, <2>2, <2>3, <2>4, LineNames
  <2> QED
    BY <2>1, <2>2, <2>5
<1> HIDE DEF S
<1>4. 0 .. Len(t) \subseteq S
  BY <1>1, <1>2, <1>3, UpTo
<1>5. Len(t) \in S
  BY <1>1, <1>4
<1> QED
  BY <1>5 DEF S, ParseConfigFile

-----------------------------------------------------------------------------
(* The lines of settings that are chosen                                    *)

(* The line that counts for a key.                                          *)
CountsFor(t, f, k, i, v) ==
  /\ i \in 1 .. Len(t) /\ t[i] = Entry(k[2], v) /\ Indexed(f, k).line = i /\ Indexed(f, k).value = v
  /\ k = <<Reading(t)[i].section, k[2]>>
LEMMA LastLine ==
  ASSUME NEW t \in Texts, NEW f, f = ParseConfigFile(t), NEW k \in Declared(f)
  PROVE  \E i : CountsFor(t, f, k, i, ReadValue(f, k))
<1>1. f \in Readings /\ FromLines(t, f, Len(t))
  BY FileIsRead, LinesMakeSettings
<1>2. PICK n \in DOMAIN f.settings : f.settings[n].key = k /\ Indexed(f, k) = f.settings[n]
  BY <1>1, IndexedIs
<1>3. LineIs(t, f.settings[n], Len(t))
  BY <1>1 DEF FromLines
<1>4. ReadValue(f, k) = f.settings[n].value
  BY <1>2 DEF ReadValue
<1>5. CountsFor(t, f, k, f.settings[n].line, ReadValue(f, k))
  BY <1>2, <1>3, <1>4 DEF CountsFor, LineIs
<1> QED
  BY <1>5

LEMMA OneKeyOfALine ==
  ASSUME NEW t, NEW f, NEW k, NEW j, NEW i, NEW v, NEW w, CountsFor(t, f, k, i, v), CountsFor(t, f, j, i, w)
  PROVE  k = j
<1>1. Entry(k[2], v)[2] = k[2] /\ Entry(j[2], w)[2] = j[2]
  BY DEF Entry
<1>2. k[2] = j[2]
  BY <1>1 DEF CountsFor
<1> QED
  BY <1>2 DEF CountsFor

(* The lines of ReplaceLines.                                               *)
Replaced(t, u, f, o) ==
  /\ u \in Texts /\ Len(u) = Len(t) /\ \A i \in 1 .. Len(t) : SameLine(t[i], u[i])
  /\ \A k \in DOMAIN o \cap Declared(f) : u[Indexed(f, k).line] = Entry(k[2], o[k])
  /\ \A i \in 1 .. Len(t) : (\A k \in DOMAIN o \cap Declared(f) : Indexed(f, k).line # i) => u[i] = t[i]
LEMMA ReplaceIs ==
  ASSUME NEW t \in Texts, NEW o, IsOverrides(o), NEW f, f = ParseConfigFile(t)
  PROVE  Replaced(t, ReplaceLines(t, f, o), f, o)
<1> DEFINE u == ReplaceLines(t, f, o)
           H == DOMAIN o \cap Declared(f)
           hit(i) == {k \in H : Indexed(f, k).line = i}
<1>1. Len(t) \in Nat /\ DOMAIN t = 1 .. Len(t)
  BY DEF Texts
<1>2. u = [i \in 1 .. Len(t) |-> IF hit(i) = {} THEN t[i] ELSE Entry(t[i][2], o[CHOOSE k \in hit(i) : TRUE])]
  BY <1>1 DEF ReplaceLines
<1>3. u \in Texts
  BY ReplacedIsText
<1> HIDE DEF u
<1>4. Len(u) = Len(t)
  BY <1>1, <1>2, <1>3 DEF Texts
<1>5. ASSUME NEW i \in 1 .. Len(t), hit(i) = {} PROVE u[i] = t[i]
  BY <1>2, <1>5
<1>6. ASSUME NEW k \in H PROVE u[Indexed(f, k).line] = Entry(k[2], o[k]) /\ SameLine(t[Indexed(f, k).line], u[Indexed(f, k).line])
  <2>1. PICK i : CountsFor(t, f, k, i, ReadValue(f, k))
    BY LastLine
  <2>2. i \in 1 .. Len(t) /\ Indexed(f, k).line = i /\ t[i] = Entry(k[2], ReadValue(f, k))
    BY <2>1 DEF CountsFor
  <2> DEFINE j == CHOOSE j \in hit(i) : TRUE
  <2>3. k \in hit(i)
    BY <2>2
  <2>4. j \in H /\ Indexed(f, j).line = i
    BY <2>3
  <2> HIDE DEF j
  <2>5. PICK m : CountsFor(t, f, j, m, ReadValue(f, j))
    BY <2>4, LastLine
  <2>6. m = i
    BY <2>4, <2>5 DEF CountsFor
  <2>7. j = k
    BY <2>1, <2>5, <2>6, OneKeyOfALine
  <2>8. u[i] = Entry(t[i][2], o[k])
    BY <1>2, <2>2, <2>3, <2>7 DEF j
  <2>9. t[i][2] = k[2] /\ t[i][1] = "entry"
    BY <2>2 DEF Entry
  <2>10. u[i] = Entry(k[2], o[k])
    BY <2>8, <2>9
  <2>11. SameLine(t[i], u[i])
    BY <2>9, <2>10 DEF SameLine, Entry
  <2> QED
    BY <2>2, <2>10, <2>11
<1>7. \A i \in 1 .. Len(t) : SameLine(t[i], u[i])
  <2> TAKE i \in 1 .. Len(t)
  <2>1. CASE hit(i) = {}
    BY <1>5, <2>1 DEF SameLine
  <2>2. CASE hit(i) # {}
    <3>1. PICK k \in H : Indexed(f, k).line = i
      BY <2>2
    <3> QED
      BY <1>6, <3>1
  <2> QED
    BY <2>1, <2>2
<1>8. \A i \in 1 .. Len(t) : (\A k \in H : Indexed(f, k).line # i) => u[i] = t[i]
  BY <1>5
<1>9. Replaced(t, u, f, o)
  BY <1>3, <1>4, <1>6, <1>7, <1>8 DEF Replaced
<1> QED
  BY <1>9 DEF u

ReplacesAll(t, u, o, H, D) ==
  /\ u \in Texts /\ Edits(ParseConfigFile(t), ParseConfigFile(u), o, H, D)
  /\ Declared(ParseConfigFile(u)) = Declared(ParseConfigFile(t))
  /\ \A s : Has(t, s) => Has(u, s)
  /\ t \in PlainTexts => u \in PlainTexts
LEMMA ReplacingEdits ==
  ASSUME NEW t \in Texts, NEW o, IsOverrides(o), NEW f, f = ParseConfigFile(t), NEW D, NEW H, H = DOMAIN o \cap Declared(f)
  PROVE  ReplacesAll(t, ReplaceLines(t, f, o), o, H, D)
<1> DEFINE u == ReplaceLines(t, f, o)
           g == ParseConfigFile(u)
<1>1. Replaced(t, u, f, o)
  BY ReplaceIs
<1> HIDE DEF u
<1>2. u \in Texts /\ Len(u) = Len(t) /\ Len(t) \in Nat /\ \A i \in 1 .. Len(t) : SameLine(t[i], u[i])
  BY <1>1 DEF Replaced, Texts
<1>3. SameNames(f, g)
  BY <1>2, TextNames
<1>4. f \in Readings /\ g \in Readings
  BY <1>2, FileIsRead
<1> HIDE DEF g
<1>5. Declared(g) = Declared(f)
  BY <1>3 DEF Declared, SameNames
<1>6. Carries(f, g, D)
  BY <1>3, CarriesSame DEF SameNames
<1>7. ASSUME NEW k PROVE ReadValue(g, k) = IF k \in H THEN o[k] ELSE ReadValue(f, k)
  <2>1. CASE k \notin Declared(f)
    BY <1>5, <2>1 DEF ReadValue
  <2>2. CASE k \in Declared(f)
    <3>1. PICK n \in DOMAIN f.settings : /\ f.settings[n].key = k /\ Indexed(f, k) = f.settings[n]
                                         /\ \A m \in DOMAIN f.settings : f.settings[m].key = k => m <= n
      BY <1>4, <2>2, IndexedIsLast
    <3>2. n \in DOMAIN g.settings /\ g.settings[n].key = k /\ \A m \in DOMAIN g.settings : g.settings[m].key = k => m <= n
      BY <1>3, <3>1 DEF SameNames
    <3>3. Indexed(g, k) = g.settings[n]
      BY <1>4, <3>2, LastOfKey
    <3>4. Indexed(g, k).line = Indexed(f, k).line
      BY <1>3, <3>1, <3>3 DEF SameNames
    <3>5. PICK i : CountsFor(t, f, k, i, ReadValue(f, k))
      BY <2>2, LastLine
    <3>6. PICK j : CountsFor(u, g, k, j, ReadValue(g, k))
      BY <1>2, <1>5, <2>2, LastLine DEF g
    <3>7. i = j /\ i \in 1 .. Len(t) /\ t[i] = Entry(k[2], ReadValue(f, k)) /\ u[i] = Entry(k[2], ReadValue(g, k))
      BY <3>4, <3>5, <3>6 DEF CountsFor
    <3>8. \A v : Entry(k[2], v)[3] = v
      BY DEF Entry
    <3>9. CASE k \in H
      <4>1. u[i] = Entry(k[2], o[k])
        BY <1>1, <3>5, <3>9 DEF Replaced, CountsFor
      <4> QED
        BY <3>7, <3>8, <3>9, <4>1
    <3>10. CASE k \notin H
      <4>1. ASSUME NEW m \in H, Indexed(f, m).line = i PROVE FALSE
        <5>1. PICK h : CountsFor(t, f, m, h, ReadValue(f, m))
          BY LastLine
        <5>2. h = i
          BY <4>1, <5>1 DEF CountsFor
        <5>3. m = k
          BY <3>5, <5>1, <5>2, OneKeyOfALine
        <5> QED
          BY <3>10, <5>3
      <4>2. u[i] = t[i]
        BY <1>1, <3>7, <4>1 DEF Replaced
      <4>3. u[i][3] = ReadValue(g, k) /\ t[i][3] = ReadValue(f, k)
        BY <3>7, <3>8
      <4>4. ReadValue(g, k) = ReadValue(f, k)
        BY <4>2, <4>3
      <4> QED
        BY <3>10, <4>4
    <3> QED
      BY <3>9, <3>10
  <2> QED
    BY <2>1, <2>2
<1>8. Edits(f, g, o, H, D)
  BY <1>6, <1>7 DEF Edits, Alters
<1>9. ASSUME NEW s, Has(t, s) PROVE Has(u, s)
  <2>1. PICK i \in 1 .. Len(t) : t[i] = Section(s)
    BY <1>9 DEF Has
  <2>2. t[i][1] # "entry"
    BY <2>1 DEF Section
  <2>3. u[i] = t[i]
    BY <1>2, <2>2 DEF SameLine
  <2> QED
    BY <1>2, <2>1, <2>3 DEF Has
<1>10. ASSUME t \in PlainTexts PROVE u \in PlainTexts
  <2>1. \A i \in 1 .. Len(t) : t[i][1] # "padded"
    BY <1>10 DEF PlainTexts
  <2>2. \A i \in 1 .. Len(t) : u[i] \in CfgLines /\ u[i][1] # "padded"
    BY <1>2, <2>1 DEF SameLine, Texts
  <2>3. u = [i \in 1 .. Len(t) |-> u[i]]
    BY <1>2, AsFunction DEF Texts
  <2>4. u \in [1 .. Len(t) -> {l \in CfgLines : l[1] # "padded"}]
    BY <2>2, <2>3
  <2> QED
    BY <1>2, <2>4 DEF PlainTexts
<1>11. ReplacesAll(t, u, o, H, D)
  BY <1>2, <1>5, <1>8, <1>9, <1>10 DEF ReplacesAll, g
<1> QED
  BY <1>11 DEF u

(* A set alone makes a plain text.                                          *)
LEMMA EncodedIsPlain ==
  ASSUME NEW o, IsOverrides(o)
  PROVE  EncodeOverrides(o) \in PlainTexts
<1> DEFINE order == SectionsOf(DOMAIN o)
           n == Len(order)
           L == {l \in CfgLines : l[1] # "padded"}
           w == Writing(o)
           S == {i \in 0 .. n : w[i] \in Seq(L)}
<1>1. n \in Nat /\ \A i \in 1 .. n : order[i] \in Sections
  BY SectionsAre DEF IsOverrides
<1>2. w[0] = <<>> /\ \A i \in 1 .. n : w[i] = EncodeSection(w[i - 1], o, order[i])
  BY WritingIs
<1>3. Blank \in L /\ \A s \in Sections : Section(s) \in L /\ Entries(o, DOMAIN o, s) \in Seq(L)
  <2>1. ASSUME NEW s \in Sections PROVE Entries(o, DOMAIN o, s) \in Seq(L)
    <3>1. EntriesFor(Entries(o, DOMAIN o, s), o, DOMAIN o, s)
      BY EntriesAre
    <3> QED
      BY <3>1, PlainEntries DEF PlainTexts
  <2> QED
    BY <2>1, PlainLines
<1>4. EncodeOverrides(o) = IF DOMAIN o = {} THEN <<>> ELSE Append(w[n], Blank)
  BY DEF EncodeOverrides
<1>5. PlainTexts = Seq(L)
  BY DEF PlainTexts
<1> HIDE DEF L, w, n, order
<1>6. 0 \in S
  <2>1. <<>> \in Seq(L) /\ 0 \in 0 .. n
    BY <1>1
  <2> QED
    BY <1>2, <2>1
<1>7. ASSUME NEW i \in 0 .. n, i < n, i \in S PROVE i + 1 \in S
  <2> DEFINE s == order[i + 1]
             e == Entries(o, DOMAIN o, s)
             v == w[i]
  <2>1. i + 1 \in 1 .. n /\ (i + 1) - 1 = i
    BY <1>1, <1>7
  <2>2. v \in Seq(L) /\ w[i + 1] = EncodeSection(v, o, s) /\ s \in Sections
    BY <1>1, <1>2, <1>7, <2>1
  <2>3. Section(s) \in L /\ e \in Seq(L)
    BY <1>3, <2>2
  <2>4. EncodeSection(v, o, s) = (IF v = <<>> THEN v ELSE Append(v, Blank)) \o <<Section(s)>> \o e
    BY DEF EncodeSection
  <2> HIDE DEF e, v, s
  <2>5. EncodeSection(v, o, s) \in Seq(L)
    BY <1>3, <2>2, <2>3, <2>4
  <2> QED
    BY <2>1, <2>2, <2>5
<1> HIDE DEF S
<1>8. 0 .. n \subseteq S
  BY <1>1, <1>6, <1>7, UpTo
<1>9. n \in S
  BY <1>1, <1>8
<1>10. w[n] \in Seq(L)
  BY <1>9 DEF S
<1> QED
  BY <1>3, <1>4, <1>5, <1>10

-----------------------------------------------------------------------------
(* MergeIsSound                                                             *)

(* A merge that changes nothing.                                            *)
LEMMA MergedTwice ==
  ASSUME NEW u \in Texts, NEW o, IsOverrides(o), DOMAIN o # {},
         \A k \in DOMAIN o : ReadValue(ParseConfigFile(u), k) = o[k]
  PROVE  MergeText(u, o) = u
<1> DEFINE g == ParseConfigFile(u)
           r == ReplaceLines(u, g, o)
<1>1. g \in Readings /\ Len(u) \in Nat
  BY FileIsRead DEF Texts
<1> HIDE DEF g
<1>2. DOMAIN o \subseteq Declared(g)
  <2> SUFFICES ASSUME NEW k \in DOMAIN o PROVE k \in Declared(g)
    OBVIOUS
  <2>1. o[k] \in CfgValues /\ 0 \notin CfgValues
    BY ConfigsAssumption DEF IsOverrides
  <2>2. ReadValue(g, k) # 0
    BY <2>1 DEF g
  <2> QED
    BY <1>1, <2>2, DeclaredIsRead
<1>3. u # <<>>
  <2> SUFFICES ASSUME u = <<>> PROVE FALSE
    OBVIOUS
  <2>1. Declared(g) = {}
    BY NothingParsed DEF g, Declared, NothingRead
  <2> QED
    BY <1>2, <2>1
<1>4. r = u
  <2>1. Replaced(u, r, g, o)
    BY ReplaceIs DEF g
  <2> HIDE DEF r
  <2>2. ASSUME NEW i \in 1 .. Len(u) PROVE r[i] = u[i]
    <3>1. CASE \E k \in DOMAIN o \cap Declared(g) : Indexed(g, k).line = i
      <4>1. PICK k \in DOMAIN o \cap Declared(g) : Indexed(g, k).line = i
        BY <3>1
      <4>2. PICK j : CountsFor(u, g, k, j, ReadValue(g, k))
        BY <4>1, LastLine DEF g
      <4>3. u[i] = Entry(k[2], o[k])
        BY <4>1, <4>2 DEF CountsFor, g
      <4>4. r[i] = Entry(k[2], o[k])
        BY <2>1, <4>1 DEF Replaced
      <4> QED
        BY <4>3, <4>4
    <3>2. CASE ~ \E k \in DOMAIN o \cap Declared(g) : Indexed(g, k).line = i
      BY <2>1, <3>2 DEF Replaced
    <3> QED
      BY <3>1, <3>2
  <2>3. r = [i \in 1 .. Len(u) |-> r[i]] /\ u = [i \in 1 .. Len(u) |-> u[i]]
    BY <2>1, AsFunction DEF Replaced, Texts
  <2> QED
    BY <2>2, <2>3
<1>5. AppendOverrides(u, g, o, {}) = u
  <2>1. AddsUp(Adding(u, g, o, {}), u, g, o, {})
    BY AddingIs
  <2>2. Len(SectionsOf({})) = 0
    <3>1. SectionsOf({}) = Ascending({})
      BY DEF SectionsOf
    <3> QED
      BY <3>1, AscendingOfNone
  <2> QED
    BY <2>1, <2>2 DEF AddsUp, AppendOverrides
<1>6. MergeText(u, o) = AppendOverrides(r, g, o, DOMAIN o \ Declared(g))
  BY <1>3 DEF MergeText, r, g
<1>7. DOMAIN o \ Declared(g) = {}
  BY <1>2
<1> HIDE DEF r
<1> QED
  BY <1>4, <1>5, <1>6, <1>7

(* What a merge is.                                                         *)
Merges(t, u, o) ==
  /\ u \in PlainTexts /\ Alters(ParseConfigFile(t), ParseConfigFile(u), o, DOMAIN o)
  /\ t # <<>> => Carries(ParseConfigFile(t), ParseConfigFile(u), Declared(ParseConfigFile(t)))
LEMMA MergesFile ==
  ASSUME NEW t \in PlainTexts, NEW o, IsOverrides(o)
  PROVE  Merges(t, MergeFile(t, o), o)
<1> DEFINE f == ParseConfigFile(t)
           D == Declared(f)
<1>0. t \in Texts /\ f \in Readings
  BY PlainIsText, FileIsRead
<1>1. CASE DOMAIN o = {}
  <2>1. Edits(f, f, o, {}, D)
    BY NothingEdited
  <2> QED
    BY <1>1, <2>1 DEF MergeFile, Merges, Edits
<1>2. CASE DOMAIN o # {} /\ t = <<>>
  <2> DEFINE u == EncodeOverrides(o)
             g == ParseConfigFile(u)
  <2>1. MergeFile(t, o) = u
    BY <1>2 DEF MergeFile, MergeText
  <2>2. u \in PlainTexts /\ ParseOverrideSet(u) = o
    BY EncodedIsPlain, RoundTrip
  <2>3. o = [k \in Declared(g) |-> Indexed(g, k).value]
    BY <2>2 DEF ParseOverrideSet
  <2> HIDE DEF u, g
  <2>4. DOMAIN o = Declared(g) /\ \A k \in Declared(g) : o[k] = Indexed(g, k).value
    BY <2>3
  <2>5. \A k : ReadValue(f, k) = 0
    BY <1>2, NothingParsed DEF ReadValue, Declared, NothingRead
  <2>6. Alters(f, g, o, DOMAIN o)
    BY <2>4, <2>5 DEF Alters, ReadValue
  <2> QED
    BY <1>2, <2>1, <2>2, <2>6 DEF Merges, g
<1>3. CASE DOMAIN o # {} /\ t # <<>>
  <2> DEFINE r == ReplaceLines(t, f, o)
             H == DOMAIN o \cap D
             K == DOMAIN o \ D
             u == AppendOverrides(r, f, o, K)
             q == ParseConfigFile(r)
             g == ParseConfigFile(u)
  <2>1. ReplacesAll(t, r, o, H, D)
    BY <1>0, ReplacingEdits
  <2>2. \A s \in f.sections : Has(t, s)
    BY HeadersAreFound
  <2>3. MergeFile(t, o) = u
    BY <1>3 DEF MergeFile, MergeText
  <2>4. DOMAIN o = H \cup K /\ K \in SUBSET DOMAIN o /\ K \cap D = {}
    OBVIOUS
  <2> HIDE DEF r, H, K, u
  <2>5. r \in Texts /\ Declared(q) = D /\ Edits(f, q, o, H, D) /\ (\A s \in f.sections : Has(r, s)) /\ r \in PlainTexts
    BY <2>1, <2>2 DEF ReplacesAll
  <2> HIDE DEF D, f
  <2>6. AddsAll(r, u, o, K, D)
    BY <2>4, <2>5, AppendingEdits DEF u
  <2>7. u \in PlainTexts /\ u \in Texts /\ Edits(q, g, o, K, D)
    BY <2>5, <2>6 DEF AddsAll
  <2>8. q \in Readings /\ g \in Readings
    BY <2>5, <2>7, FileIsRead
  <2> HIDE DEF q, g
  <2>9. Edits(f, g, o, DOMAIN o, D)
    BY <1>0, <2>4, <2>5, <2>7, <2>8, EditsOn
  <2> QED
    BY <2>3, <2>7, <2>9 DEF Merges, Edits, g, f, D
<1> QED
  BY <1>1, <1>2, <1>3

(* The last merge, and files whose headers are found.                       *)
MergeInv ==
  /\ disk \in PlainTexts /\ merge.before \in PlainTexts /\ IsOverrides(merge.set)
  /\ merge.after = MergeFile(merge.before, merge.set)

LEMMA MergeInvImplies == MergeInv => MergeIsSound
<1> SUFFICES ASSUME MergeInv PROVE MergeIsSound
  OBVIOUS
<1> DEFINE t == merge.before
           u == merge.after
           o == merge.set
           f == ParseConfigFile(t)
           g == ParseConfigFile(u)
<1>1. t \in PlainTexts /\ IsOverrides(o) /\ u = MergeFile(t, o)
  BY DEF MergeInv
<1>2. Merges(t, u, o)
  BY <1>1, MergesFile
<1> HIDE DEF t, u, o
<1>3. t \in Texts /\ u \in Texts /\ Alters(f, g, o, DOMAIN o) /\ (t # <<>> => Carries(f, g, Declared(f)))
  BY <1>1, <1>2, PlainIsText DEF Merges
<1>4. \A k \in SettingKeys : ValueIn(u, k) = IF k \in DOMAIN o THEN o[k] ELSE ValueIn(t, k)
  <2> TAKE k \in SettingKeys
  <2>1. ValueIn(u, k) = ReadValue(g, k) /\ ValueIn(t, k) = ReadValue(f, k)
    BY <1>3, ValueIs
  <2> QED
    BY <1>3, <2>1 DEF Alters
<1>5. MergeIsExact
  BY <1>4 DEF MergeIsExact, t, u, o
<1>6. DOMAIN o = {} \/ MergeText(u, o) = u
  <2>1. \A k \in DOMAIN o : ReadValue(g, k) = o[k]
    BY <1>3 DEF Alters
  <2> QED
    BY <1>1, <1>3, <2>1, MergedTwice
<1>7. t # <<>> => Keeps(f, g)
  <2> SUFFICES ASSUME t # <<>> PROVE Keeps(f, g)
    OBVIOUS
  <2>1. PICK at : Follows(at, f, g, Declared(f))
    BY <1>3 DEF Carries
  <2> DEFINE theirs == {j \in DOMAIN g.settings : g.settings[j].key \in Declared(f)}
  <2> HIDE DEF f, g
  <2>2. /\ at \in [DOMAIN f.settings -> DOMAIN g.settings]
        /\ \A i, j \in DOMAIN f.settings : i < j => at[i] < at[j]
        /\ \A i \in DOMAIN f.settings : /\ g.settings[at[i]].key = f.settings[i].key
                                        /\ g.settings[at[i]].default = f.settings[i].default
        /\ \A j \in DOMAIN g.settings : g.settings[j].key \in Declared(f) => \E i \in DOMAIN f.settings : at[i] = j
    BY <2>1 DEF Follows
  <2>3. at \in [DOMAIN f.settings -> theirs]
    <3>1. \A i \in DOMAIN f.settings : at[i] \in theirs
      BY <2>2 DEF Declared
    <3> HIDE DEF theirs
    <3> QED
      BY <2>2, <3>1
  <2>4. \A j \in theirs : \E i \in DOMAIN f.settings : at[i] = j
    BY <2>2
  <2> QED
    BY <2>2, <2>3, <2>4 DEF Keeps
<1>8. MergeSettles
  BY <1>6, <1>7 DEF MergeSettles, t, u, o, f, g
<1> QED
  BY <1>5, <1>8 DEF MergeIsSound

LEMMA RewrittenIsPlain ==
  ASSUME NEW g \in PlainTexts, disk \in Texts
  PROVE  Rewritten(g) \in PlainTexts
<1> DEFINE f == ParseConfigFile(g)
           mine(i) == {j \in DOMAIN f.settings : f.settings[j].line = i}
           was(i) == IF mine(i) = {} THEN 0 ELSE ValueIn(disk, f.settings[CHOOSE j \in mine(i) : TRUE].key)
           u == Rewritten(g)
<1>1. g \in Texts /\ Len(g) \in Nat /\ DOMAIN g = 1 .. Len(g) /\ \A i \in 1 .. Len(g) : g[i][1] # "padded"
  BY PlainIsText DEF PlainTexts
<1>2. u = [i \in 1 .. Len(g) |-> IF was(i) = 0 THEN g[i] ELSE Entry(g[i][2], was(i))]
  BY <1>1 DEF Rewritten
<1>3. u \in Texts
  BY <1>1, RewrittenIsText
<1> HIDE DEF was, u
<1>4. Len(u) = Len(g) /\ u = [i \in 1 .. Len(g) |-> u[i]]
  BY <1>1, <1>2, <1>3 DEF Texts
<1>5. \A i \in 1 .. Len(g) : u[i] \in CfgLines /\ u[i][1] # "padded"
  <2> TAKE i \in 1 .. Len(g)
  <2>1. u[i] \in CfgLines
    BY <1>1, <1>3, <1>4 DEF Texts
  <2>2. u[i] = g[i] \/ u[i] = Entry(g[i][2], was(i))
    BY <1>2
  <2> QED
    BY <1>1, <2>1, <2>2 DEF Entry
<1>6. u \in [1 .. Len(g) -> {l \in CfgLines : l[1] # "padded"}]
  BY <1>4, <1>5
<1> QED
  BY <1>1, <1>6 DEF PlainTexts, u

LEMMA MergeInit ==
  ASSUME NEW files \in SUBSET PlainTexts, NEW sets, InitConfigs(files, sets)
  PROVE  MergeInv
<1>1. disk \in PlainTexts /\ merge = NoMerge
  BY DEF InitConfigs
<1>2. merge.before = <<>> /\ merge.after = <<>> /\ merge.set = NoOverrides
  BY <1>1 DEF NoMerge
<1>3. <<>> \in PlainTexts
  BY DEF PlainTexts
<1>4. DOMAIN NoOverrides = {} /\ IsOverrides(NoOverrides)
  BY DEF NoOverrides, IsOverrides
<1> QED
  BY <1>1, <1>2, <1>3, <1>4 DEF MergeInv, MergeFile

LEMMA MergeNext ==
  ASSUME MergeInv, CfgTypes, Generated \subseteq PlainTexts, [ConfigsNext]_cfgVars
  PROVE  MergeInv'
<1>1. ASSUME UNCHANGED <<disk, merge>> PROVE MergeInv'
  BY <1>1 DEF MergeInv
<1>2. CASE ServerStartsMerged
  <2> DEFINE o == ParseOverrideSet(configMap)
             after == MergeFile(disk, o)
  <2>1. disk' = after /\ merge' = [set |-> o, before |-> disk, after |-> after, times |-> merge.times + 1]
    BY <1>2 DEF ServerStartsMerged
  <2>2. IsOverrides(o)
    BY ParsedIsOverrides DEF CfgTypes
  <2>3. Merges(disk, after, o)
    <3> HIDE DEF o
    <3> QED
      BY <2>2, MergesFile DEF MergeInv
  <2>4. after \in PlainTexts
    BY <2>3 DEF Merges
  <2>5. after = MergeFile(disk, o)
    OBVIOUS
  <2> HIDE DEF o, after
  <2>6. merge'.set = o /\ merge'.before = disk /\ merge'.after = after
    BY <2>1
  <2> QED
    BY <2>1, <2>2, <2>4, <2>5, <2>6 DEF MergeInv
<1>3. ASSUME NEW g \in Generated, ModWrites(g) PROVE MergeInv'
  <2>1. disk' = Rewritten(g) /\ UNCHANGED merge
    BY <1>3 DEF ModWrites
  <2>2. disk' \in PlainTexts
    BY <2>1, RewrittenIsPlain DEF CfgTypes
  <2> QED
    BY <2>1, <2>2 DEF MergeInv
<1>4. CASE PublishFile
  BY <1>1, <1>4 DEF PublishFile
<1>5. CASE PublishIndex
  BY <1>1, <1>5 DEF PublishIndex
<1>6. CASE SyncConfigMap
  BY <1>1, <1>6 DEF SyncConfigMap
<1>7. ASSUME NEW e \in Editors,
             \/ OpenPanel(e) \/ SaveForm(e) \/ ResetToDefault(e) \/ ApplyImport(e)
             \/ TypeOverrides(e) \/ ApplyChanges(e) \/ WriteOverrides(e)
      PROVE  MergeInv'
  <2>1. CASE OpenPanel(e) \/ ResetToDefault(e) \/ ApplyImport(e) \/ TypeOverrides(e)
    <3>1. UNCHANGED <<disk, merge>>
      BY <2>1 DEF OpenPanel, ResetToDefault, ApplyImport, TypeOverrides, Turn
    <3> QED
      BY <1>1, <3>1
  <2>2. CASE SaveForm(e) \/ ApplyChanges(e)
    <3>1. UNCHANGED <<disk, merge>>
      BY <2>2 DEF SaveForm, ApplyChanges, Step
    <3> QED
      BY <1>1, <3>1
  <2>3. CASE WriteOverrides(e)
    BY <1>1, <2>3 DEF WriteOverrides
  <2> QED
    BY <1>7, <2>1, <2>2, <2>3
<1>8. CASE UNCHANGED cfgVars
  BY <1>1, <1>8 DEF cfgVars
<1> QED
  BY <1>2, <1>3, <1>4, <1>5, <1>6, <1>7, <1>8 DEF ConfigsNext

(* MergeIsSound: for any files, settings, operators, edits and versions of  *)
(* the mod's file, and however often the server starts, a merge sets what   *)
(* operators chose and nothing else, keeps the mod's descriptions with      *)
(* their settings, and finds nothing to do a second time (Merge,            *)
(* appendOverrides, insertIntoSection, MergeDir), if no header is written   *)
(* with spaces inside its brackets.                                         *)
THEOREM MergesAreSound ==
  ASSUME NEW CONSTANT files \in SUBSET Texts, NEW CONSTANT sets \in SUBSET OverrideSets
  PROVE  files \cup Generated \subseteq PlainTexts => (ConfigsSpec(files, sets) => []MergeIsSound)
<1> SUFFICES ASSUME files \cup Generated \subseteq PlainTexts PROVE ConfigsSpec(files, sets) => []MergeIsSound
  OBVIOUS
<1>1. InitConfigs(files, sets) => CfgTypes /\ MergeInv
  <2>1. files \in SUBSET PlainTexts
    OBVIOUS
  <2> QED
    BY <2>1, CfgTypesInit, MergeInit
<1>2. CfgTypes /\ [ConfigsNext]_cfgVars => CfgTypes'
  BY CfgTypesNext
<1>3. MergeInv /\ CfgTypes /\ [ConfigsNext]_cfgVars => MergeInv'
  BY MergeNext
<1>4. MergeInv => MergeIsSound
  BY MergeInvImplies
<1> QED
  BY <1>1, <1>2, <1>3, <1>4, PTL DEF ConfigsSpec

-----------------------------------------------------------------------------
(* Packs: what a loop keeps of a sequence                                   *)

LEMMA AppendingIs ==
  ASSUME NEW A, NEW s \in Seq(A), NEW K
  PROVE  /\ Appending(s, K) \in [0 .. Len(s) -> Seq(A)]
         /\ Appending(s, K)[0] = <<>>
         /\ \A i \in 1 .. Len(s) : Appending(s, K)[i] = IF s[i] \in K THEN Append(Appending(s, K)[i - 1], s[i]) ELSE Appending(s, K)[i - 1]
<1> DEFINE n == Len(s)
           round(i, t) == IF s[i] \in K THEN Append(t, s[i]) ELSE t
           step == [x \in (1 .. n) \X Seq(A) |-> round(x[1], x[2])]
           Def(g) == g = [i \in 0 .. n |-> IF i = 0 THEN <<>> ELSE IF s[i] \in K THEN Append(g[i - 1], s[i]) ELSE g[i - 1]]
<1>1. n \in Nat /\ (\A i \in 1 .. n : s[i] \in A) /\ <<>> \in Seq(A)
  OBVIOUS
<1>2. \A i \in 1 .. n : \A t \in Seq(A) : round(i, t) \in Seq(A)
  BY <1>1, AppendProperties
<1>3. step \in [(1 .. n) \X Seq(A) -> Seq(A)]
  <2> HIDE DEF round, n
  <2> QED
    BY <1>2
<1> HIDE DEF n
<1>4. PICK g \in [0 .. n -> Seq(A)] : g[0] = <<>> /\ \A i \in 1 .. n : g[i] = step[<<i, g[i - 1]>>]
  <2> HIDE DEF step, Def
  <2>1. Computes(n, Seq(A), <<>>, step)
    BY <1>1, <1>3, Loops
  <2> QED
    BY <2>1 DEF Computes
<1>5. \A i \in 1 .. n : g[i] = round(i, g[i - 1])
  <2> TAKE i \in 1 .. n
  <2>1. i - 1 \in 0 .. n
    BY <1>1
  <2>2. <<i, g[i - 1]>> \in (1 .. n) \X Seq(A)
    BY <1>4, <2>1
  <2> HIDE DEF round
  <2> QED
    BY <1>4, <2>2
<1>6. Def(g)
  <2>1. \A i \in 0 .. n : g[i] = IF i = 0 THEN <<>> ELSE IF s[i] \in K THEN Append(g[i - 1], s[i]) ELSE g[i - 1]
    <3> TAKE i \in 0 .. n
    <3>1. CASE i = 0
      BY <1>4, <3>1
    <3>2. CASE i # 0
      <4>1. i \in 1 .. n
        BY <1>1, <3>2
      <4> QED
        BY <1>5, <3>2, <4>1
    <3> QED
      BY <3>1, <3>2
  <2>2. g = [i \in 0 .. n |-> g[i]]
    BY <1>4
  <2> QED
    BY <2>1, <2>2
<1>7. Appending(s, K) = CHOOSE h : Def(h)
  BY DEF Appending, n
<1>8. Def(Appending(s, K))
  <2> HIDE DEF Def
  <2> QED
    BY <1>6, <1>7
<1>9. \A i \in 0 .. n : Appending(s, K)[i] = IF i = 0 THEN <<>> ELSE round(i, Appending(s, K)[i - 1])
  BY <1>8
<1> DEFINE S == {i \in 0 .. n : Appending(s, K)[i] \in Seq(A)}
<1>10. 0 \in S
  <2>1. 0 \in 0 .. n
    BY <1>1
  <2>2. Appending(s, K)[0] = <<>>
    <3> HIDE DEF round
    <3> QED
      BY <1>9, <2>1
  <2> QED
    BY <1>1, <2>1, <2>2
<1>11. ASSUME NEW i \in 0 .. n, i < n, i \in S PROVE i + 1 \in S
  <2>1. i + 1 \in 1 .. n /\ i + 1 \in 0 .. n /\ (i + 1) - 1 = i /\ i + 1 # 0
    BY <1>1, <1>11
  <2> HIDE DEF round
  <2>2. Appending(s, K)[i + 1] = round(i + 1, Appending(s, K)[i])
    BY <1>9, <2>1
  <2>3. round(i + 1, Appending(s, K)[i]) \in Seq(A)
    BY <1>2, <1>11, <2>1
  <2> QED
    BY <2>1, <2>2, <2>3
<1> HIDE DEF S
<1>12. 0 .. n \subseteq S
  BY <1>1, <1>10, <1>11, UpTo
<1>13. Appending(s, K) \in [0 .. n -> Seq(A)]
  <2>1. \A i \in 0 .. n : Appending(s, K)[i] \in Seq(A)
    BY <1>12 DEF S
  <2>2. Appending(s, K) = [i \in 0 .. n |-> Appending(s, K)[i]]
    BY <1>8
  <2> QED
    BY <2>1, <2>2
<1>14. \A i \in 1 .. n : i \in 0 .. n /\ i # 0
  BY <1>1
<1>15. 0 \in 0 .. n
  BY <1>1
<1> QED
  BY <1>9, <1>13, <1>14, <1>15 DEF n

(* t is made of those of the first n entries of s that are in K.            *)
MadeOf(t, s, K, n) ==
  \E at \in [1 .. Len(t) -> {i \in 1 .. n : s[i] \in K}] :
    /\ \A i, j \in 1 .. Len(t) : i < j => at[i] < at[j]
    /\ \A k \in {i \in 1 .. n : s[i] \in K} : \E i \in 1 .. Len(t) : at[i] = k
    /\ \A i \in 1 .. Len(t) : t[i] = s[at[i]]

LEMMA MadeOfOneMore ==
  ASSUME NEW A, NEW s \in Seq(A), NEW K, NEW n \in 0 .. Len(s), n < Len(s), NEW t \in Seq(A), MadeOf(t, s, K, n),
         s[n + 1] \in K
  PROVE  MadeOf(Append(t, s[n + 1]), s, K, n + 1)
<1> DEFINE P(m) == {i \in 1 .. m : s[i] \in K}
           l == Len(t)
           u == Append(t, s[n + 1])
<1>1. PICK at \in [1 .. l -> P(n)] : /\ \A i, j \in 1 .. l : i < j => at[i] < at[j]
                                     /\ \A k \in P(n) : \E i \in 1 .. l : at[i] = k
                                     /\ \A i \in 1 .. l : t[i] = s[at[i]]
  BY DEF MadeOf
<1>2. n \in Nat /\ Len(s) \in Nat /\ l \in Nat /\ n + 1 \in 1 .. Len(s) /\ s[n + 1] \in A
  OBVIOUS
<1>3. u \in Seq(A) /\ Len(u) = l + 1 /\ (\A i \in 1 .. l : u[i] = t[i]) /\ u[l + 1] = s[n + 1]
  BY <1>2, AppendProperties
<1> DEFINE at2 == [i \in 1 .. l + 1 |-> IF i = l + 1 THEN n + 1 ELSE at[i]]
<1>4. \A i \in 1 .. l : i \in 1 .. l + 1 /\ i # l + 1 /\ i < l + 1 /\ at2[i] = at[i] /\ at[i] \in P(n) /\ at[i] \in P(n + 1) /\ at[i] < n + 1
  BY <1>1, <1>2
<1>5. l + 1 \in 1 .. l + 1 /\ at2[l + 1] = n + 1 /\ n + 1 \in P(n + 1)
  BY <1>2
<1>6. \A i \in 1 .. l + 1 : i = l + 1 \/ i \in 1 .. l
  BY <1>2
<1>7. \A k \in P(n + 1) : k = n + 1 \/ k \in P(n)
  BY <1>2
<1> HIDE DEF P, l, u
<1>8. at2 \in [1 .. l + 1 -> P(n + 1)]
  BY <1>4, <1>5, <1>6
<1> HIDE DEF at2
<1>9. \A i, j \in 1 .. l + 1 : i < j => at2[i] < at2[j]
  <2> TAKE i, j \in 1 .. l + 1
  <2> HAVE i < j
  <2>1. i \in 1 .. l
    BY <1>2, <1>6
  <2>2. CASE j = l + 1
    BY <1>4, <1>5, <2>1, <2>2
  <2>3. CASE j \in 1 .. l
    BY <1>1, <1>4, <2>1, <2>3
  <2> QED
    BY <1>6, <2>2, <2>3
<1>10. \A k \in P(n + 1) : \E i \in 1 .. l + 1 : at2[i] = k
  <2> TAKE k \in P(n + 1)
  <2>1. CASE k = n + 1
    BY <1>5, <2>1
  <2>2. CASE k \in P(n)
    BY <1>1, <1>4, <2>2
  <2> QED
    BY <1>7, <2>1, <2>2
<1>11. \A i \in 1 .. l + 1 : u[i] = s[at2[i]]
  <2> TAKE i \in 1 .. l + 1
  <2>1. CASE i = l + 1
    BY <1>3, <1>5, <2>1
  <2>2. CASE i \in 1 .. l
    BY <1>1, <1>3, <1>4, <2>2
  <2> QED
    BY <1>6, <2>1, <2>2
<1> DEFINE Q(m) == \E a \in [1 .. m -> P(n + 1)] :
                     /\ \A i, j \in 1 .. m : i < j => a[i] < a[j]
                     /\ \A k \in P(n + 1) : \E i \in 1 .. m : a[i] = k
                     /\ \A i \in 1 .. m : u[i] = s[a[i]]
<1>12. Q(l + 1)
  BY <1>8, <1>9, <1>10, <1>11
<1>13. MadeOf(u, s, K, n + 1)
  <2>1. Q(Len(u))
    <3> HIDE DEF Q
    <3> QED
      BY <1>3, <1>12
  <2> QED
    BY <2>1 DEF MadeOf, P
<1> QED
  BY <1>13 DEF u

LEMMA OnlyIs ==
  ASSUME NEW A, NEW s \in Seq(A), NEW K
  PROVE  Only(s, K) \in Seq(A) /\ MadeOf(Only(s, K), s, K, Len(s))
<1> DEFINE n == Len(s)
           f == Appending(s, K)
           S == {i \in 0 .. n : MadeOf(f[i], s, K, i)}
<1>1. n \in Nat /\ f \in [0 .. n -> Seq(A)] /\ f[0] = <<>>
      /\ \A i \in 1 .. n : f[i] = IF s[i] \in K THEN Append(f[i - 1], s[i]) ELSE f[i - 1]
  BY AppendingIs
<1> HIDE DEF f
<1>2. 0 \in S
  <2>1. MadeOf(<<>>, s, K, 0)
    <3>1. Len(<<>>) = 0 /\ 1 .. 0 = {} /\ {i \in 1 .. 0 : s[i] \in K} = {}
      OBVIOUS
    <3>2. [i \in {} |-> 0] \in [{} -> {}]
      OBVIOUS
    <3> QED
      BY <3>1, <3>2 DEF MadeOf
  <2> QED
    BY <1>1, <2>1
<1>3. ASSUME NEW i \in 0 .. n, i < n, i \in S PROVE i + 1 \in S
  <2>1. i + 1 \in 1 .. n /\ i + 1 \in 0 .. n /\ (i + 1) - 1 = i
    BY <1>1, <1>3
  <2>2. f[i] \in Seq(A) /\ MadeOf(f[i], s, K, i)
    BY <1>1, <1>3
  <2>3. CASE s[i + 1] \in K
    <3>1. f[i + 1] = Append(f[i], s[i + 1])
      BY <1>1, <2>1, <2>3
    <3>2. MadeOf(Append(f[i], s[i + 1]), s, K, i + 1)
      BY <1>3, <2>2, <2>3, MadeOfOneMore
    <3> QED
      BY <2>1, <3>1, <3>2
  <2>4. CASE s[i + 1] \notin K
    <3>1. f[i + 1] = f[i]
      BY <1>1, <2>1, <2>4
    <3>2. {j \in 1 .. i + 1 : s[j] \in K} = {j \in 1 .. i : s[j] \in K}
      BY <1>1, <2>4
    <3>3. MadeOf(f[i], s, K, i + 1)
      BY <2>2, <3>2 DEF MadeOf
    <3> QED
      BY <2>1, <3>1, <3>3
  <2> QED
    BY <2>3, <2>4
<1> HIDE DEF S, n
<1>4. 0 .. n \subseteq S
  BY <1>1, <1>2, <1>3, UpTo
<1>5. n \in 0 .. n
  BY <1>1
<1> QED
  BY <1>1, <1>4, <1>5 DEF S, Only, f, n
LEMMA OnlyAll ==
  ASSUME NEW A, NEW s \in Seq(A), NEW K, \A i \in 1 .. Len(s) : s[i] \in K
  PROVE  Only(s, K) = s
<1> DEFINE n == Len(s)
           f == Appending(s, K)
           S == {i \in 0 .. n : Len(f[i]) = i /\ \A j \in 1 .. i : f[i][j] = s[j]}
<1>1. n \in Nat /\ (\A i \in 1 .. n : s[i] \in A) /\ f \in [0 .. n -> Seq(A)] /\ f[0] = <<>>
      /\ \A i \in 1 .. n : f[i] = Append(f[i - 1], s[i])
  <2>1. n \in Nat /\ \A i \in 1 .. n : s[i] \in A
    OBVIOUS
  <2>2. f \in [0 .. n -> Seq(A)] /\ f[0] = <<>>
        /\ \A i \in 1 .. n : f[i] = IF s[i] \in K THEN Append(f[i - 1], s[i]) ELSE f[i - 1]
    BY AppendingIs
  <2> HIDE DEF f
  <2> QED
    BY <2>1, <2>2
<1> HIDE DEF f
<1>2. 0 \in S
  BY <1>1
<1>3. ASSUME NEW i \in 0 .. n, i < n, i \in S PROVE i + 1 \in S
  <2>1. i + 1 \in 1 .. n /\ i + 1 \in 0 .. n /\ (i + 1) - 1 = i /\ f[i] \in Seq(A) /\ s[i + 1] \in A
    BY <1>1, <1>3
  <2>2. f[i + 1] = Append(f[i], s[i + 1])
    BY <1>1, <2>1
  <2>3. Len(f[i]) = i /\ \A j \in 1 .. i : f[i][j] = s[j]
    BY <1>3
  <2>4. Len(f[i + 1]) = i + 1 /\ (\A j \in 1 .. i : f[i + 1][j] = f[i][j]) /\ f[i + 1][i + 1] = s[i + 1]
    BY <2>1, <2>2, <2>3, AppendProperties
  <2>5. \A j \in 1 .. i + 1 : f[i + 1][j] = s[j]
    <3> TAKE j \in 1 .. i + 1
    <3>1. j = i + 1 \/ j \in 1 .. i
      BY <1>3
    <3> QED
      BY <2>3, <2>4, <3>1
  <2> QED
    BY <2>1, <2>4, <2>5
<1> HIDE DEF S
<1>4. 0 .. n \subseteq S
  BY <1>1, <1>2, <1>3, UpTo
<1>5. n \in S
  BY <1>1, <1>4
<1>6. f[n] \in Seq(A) /\ Len(f[n]) = n /\ \A j \in 1 .. n : f[n][j] = s[j]
  BY <1>1, <1>5 DEF S
<1>7. \A u, v \in Seq(A) : Len(u) = Len(v) /\ (\A j \in 1 .. Len(v) : u[j] = v[j]) => u = v
  OBVIOUS
<1>8. f[n] = s
  BY <1>6, <1>7 DEF n
<1> QED
  BY <1>8 DEF Only, f, n

-----------------------------------------------------------------------------
(* The profile                                                              *)

(* A list's entries, and the mods of a manifest.                            *)
Notations == [form : {"slash", "full", "dashed"}, package : Packages, version : Nat, odd : BOOLEAN]
ModNames == {<<p>> : p \in Packages} \cup {<<x[1], x[2]>> : x \in Packages \X Nat}
ProfileMods == [name : ModNames, version : Nat, enabled : BOOLEAN]

PlainPack(e) == e.form = "dashed" => ~e.odd

LEMMA EntryIsParsed ==
  ASSUME NEW e \in Notations
  PROVE  /\ parseEntry(e) \in ProfileMods /\ parseEntry(e).name # <<>>
         /\ PlainPack(e) => parseEntry(e).name = <<e.package>>
<1>1. e.package \in Packages /\ e.version \in Nat /\ e.odd \in BOOLEAN /\ e.form \in {"slash", "full", "dashed"}
  BY DEF Notations
<1>2. <<e.package>> \in ModNames /\ <<e.package, e.version>> \in ModNames
  <2>1. <<e.package, e.version>> \in Packages \X Nat
    BY <1>1
  <2> QED
    BY <1>1, <2>1 DEF ModNames
<1>3. <<e.package>> # <<>> /\ <<e.package, e.version>> # <<>>
  OBVIOUS
<1> DEFINE m(name, version) == [name |-> name, version |-> version, enabled |-> TRUE]
<1>4. CASE e.form = "slash" \/ (e.form = "dashed" /\ ~e.odd)
  <2>1. parseEntry(e) = m(<<e.package>>, e.version)
    BY <1>4 DEF parseEntry
  <2> QED
    BY <1>1, <1>2, <1>3, <2>1 DEF ProfileMods
<1>5. CASE e.form = "dashed" /\ e.odd
  <2>1. parseEntry(e) = m(<<e.package, e.version>>, 0)
    BY <1>5 DEF parseEntry, NoVersion
  <2> QED
    BY <1>1, <1>2, <1>3, <1>5, <2>1 DEF ProfileMods, PlainPack
<1>6. CASE e.form = "full"
  <2>1. parseEntry(e) = m(<<e.package>>, 0)
    BY <1>6 DEF parseEntry, NoVersion
  <2> QED
    BY <1>1, <1>2, <1>3, <2>1 DEF ProfileMods
<1> QED
  BY <1>1, <1>4, <1>5, <1>6

LEMMA VersionIsResolved ==
  ASSUME NEW e \in Notations, NEW v \in Nat
  PROVE  /\ ResolveVersions(e, v) \in Notations /\ ResolveVersions(e, v).package = e.package
         /\ PlainPack(e) => PlainPack(ResolveVersions(e, v))
  BY DEF ResolveVersions, Notations, PlainPack

LEMMA ManifestIs ==
  ASSUME NEW entries \in Seq(Notations)
  PROVE  /\ Build(entries) \in Seq(ProfileMods) /\ Len(Build(entries)) = Len(entries)
         /\ \A i \in 1 .. Len(entries) : Build(entries)[i] = parseEntry(entries[i])
<1> DEFINE n == Len(entries)
           mods == [i \in DOMAIN entries |-> parseEntry(entries[i])]
           K == {m \in Range(mods) : m.name # <<>>}
<1>1. n \in Nat /\ DOMAIN entries = 1 .. n /\ \A i \in 1 .. n : entries[i] \in Notations
  OBVIOUS
<1>2. DOMAIN mods = 1 .. n /\ \A i \in 1 .. n : mods[i] = parseEntry(entries[i]) /\ mods[i] \in ProfileMods /\ mods[i].name # <<>>
  BY <1>1, EntryIsParsed
<1>3. mods \in Seq(ProfileMods) /\ Len(mods) = n
  <2>1. mods = [i \in 1 .. n |-> mods[i]]
    BY <1>2
  <2> HIDE DEF mods
  <2>2. mods \in [1 .. n -> ProfileMods]
    BY <1>2, <2>1
  <2> QED
    BY <1>1, <2>2
<1>4. \A i \in 1 .. Len(mods) : mods[i] \in K
  <2> HIDE DEF mods
  <2> QED
    BY <1>2, <1>3 DEF Range
<1>5. Build(entries) = Only(mods, K)
  BY DEF Build
<1> HIDE DEF mods, K
<1>6. Only(mods, K) = mods
  BY <1>3, <1>4, OnlyAll
<1> QED
  BY <1>2, <1>3, <1>5, <1>6
PlainList == \A i \in 1 .. Len(list) : PlainPack(list[i])

ProfileInv ==
  /\ list \in Seq(Notations)
  /\ profile \in [at : {"list", "built", "read"}, mods : Seq(ProfileMods), slugs : Seq(ModNames)]
  /\ profile.at = "list" => profile.mods = <<>>
  /\ profile.at # "list" => /\ Len(profile.mods) <= Len(list) + 1
                            /\ ~ ListFails => Len(profile.mods) = Len(PackNames)
                            /\ ~ ListFails /\ PlainList => \A i \in 1 .. Len(PackNames) : profile.mods[i].name = <<PackNames[i]>>
  /\ profile.at = "read" => profile.slugs = ParseR2Z(profile.mods)

(* The entry that the profile begins with.                                  *)
FirstEntry(v) == [form |-> "slash", package |-> BepInExPack, version |-> v, odd |-> FALSE]

LEMMA PackIsAdded ==
  ASSUME NEW s \in Seq(Notations), NEW v \in Nat
  PROVE  LET own == [i \in DOMAIN s |-> s[i].package]
             names == IF BepInExPack \in Range(own) THEN own ELSE <<BepInExPack>> \o own
             full == WithBepInEx(s, v)
         IN /\ full \in Seq(Notations) /\ names \in Seq(Packages) /\ Len(full) = Len(names) /\ Len(full) <= Len(s) + 1
            /\ \A i \in 1 .. Len(full) : full[i].package = names[i]
            /\ (\A i \in 1 .. Len(s) : PlainPack(s[i])) => \A i \in 1 .. Len(full) : PlainPack(full[i])
<1> DEFINE n == Len(s)
           own == [i \in DOMAIN s |-> s[i].package]
           e == FirstEntry(v)
           full == WithBepInEx(s, v)
           names == IF BepInExPack \in Range(own) THEN own ELSE <<BepInExPack>> \o own
<1>1. n \in Nat /\ DOMAIN s = 1 .. n /\ \A i \in 1 .. n : s[i] \in Notations /\ s[i].package \in Packages
  <2>1. n \in Nat /\ DOMAIN s = 1 .. n /\ \A i \in 1 .. n : s[i] \in Notations
    OBVIOUS
  <2>2. \A x \in Notations : x.package \in Packages
    BY DEF Notations
  <2> QED
    BY <2>1, <2>2
<1>2. DOMAIN own = 1 .. n /\ \A i \in 1 .. n : own[i] = s[i].package /\ own[i] \in Packages
  BY <1>1
<1>3. own \in Seq(Packages) /\ Len(own) = n
  <2>1. own = [i \in 1 .. n |-> own[i]]
    BY <1>2
  <2> HIDE DEF own
  <2>2. own \in [1 .. n -> Packages]
    BY <1>2, <2>1
  <2> QED
    BY <1>1, <2>2
<1>4. BepInExPack \in Range(own) <=> \E i \in DOMAIN s : s[i].package = BepInExPack
  <2> HIDE DEF own
  <2> QED
    BY <1>1, <1>2 DEF Range
<1>5. e \in Notations /\ e.package = BepInExPack /\ PlainPack(e)
  BY PacksAssumption DEF Notations, FirstEntry, PlainPack
<1>6. CASE \E i \in DOMAIN s : s[i].package = BepInExPack
  <2>1. full = s
    BY <1>6 DEF WithBepInEx
  <2>2. names = own
    BY <1>4, <1>6
  <2> HIDE DEF own, full, names
  <2>3. /\ full \in Seq(Notations) /\ names \in Seq(Packages) /\ Len(full) = Len(names) /\ Len(full) <= n + 1
        /\ \A i \in 1 .. Len(full) : full[i].package = names[i]
        /\ (\A i \in 1 .. Len(s) : PlainPack(s[i])) => \A i \in 1 .. Len(full) : PlainPack(full[i])
    BY <1>1, <1>2, <1>3, <2>1, <2>2
  <2> QED
    BY <2>3 DEF own, full, names
<1>7. CASE ~ \E i \in DOMAIN s : s[i].package = BepInExPack
  <2>1. full = <<e>> \o s
    BY <1>7 DEF WithBepInEx, FirstEntry
  <2>2. names = <<BepInExPack>> \o own
    BY <1>4, <1>7
  <2> HIDE DEF own, full, names, e
  <2>3. <<e>> \in Seq(Notations) /\ Len(<<e>>) = 1 /\ <<BepInExPack>> \in Seq(Packages) /\ Len(<<BepInExPack>>) = 1
    BY <1>5, PacksAssumption
  <2>4. /\ full \in Seq(Notations) /\ Len(full) = n + 1 /\ full[1] = e /\ \A i \in 2 .. n + 1 : full[i] = s[i - 1]
    BY <1>1, <2>1, <2>3, ConcatProperties
  <2>5. /\ names \in Seq(Packages) /\ Len(names) = n + 1 /\ names[1] = BepInExPack /\ \A i \in 2 .. n + 1 : names[i] = own[i - 1]
    BY <1>1, <1>3, <2>2, <2>3, ConcatProperties
  <2>6. \A i \in 1 .. n + 1 : i = 1 \/ (i \in 2 .. n + 1 /\ i - 1 \in 1 .. n)
    BY <1>1
  <2>7. \A i \in 1 .. n + 1 : full[i].package = names[i]
    BY <1>2, <1>5, <2>4, <2>5, <2>6
  <2>8. (\A i \in 1 .. n : PlainPack(s[i])) => \A i \in 1 .. n + 1 : PlainPack(full[i])
    BY <1>5, <2>4, <2>6
  <2>9. /\ full \in Seq(Notations) /\ names \in Seq(Packages) /\ Len(full) = Len(names) /\ Len(full) <= n + 1
        /\ \A i \in 1 .. Len(full) : full[i].package = names[i]
        /\ (\A i \in 1 .. Len(s) : PlainPack(s[i])) => \A i \in 1 .. Len(full) : PlainPack(full[i])
    BY <1>1, <2>4, <2>5, <2>7, <2>8
  <2> QED
    BY <2>9 DEF own, full, names
<1> QED
  BY <1>6, <1>7

LEMMA ImportIs ==
  ASSUME NEW mods \in Seq(ProfileMods)
  PROVE  /\ ParseR2Z(mods) \in Seq(ModNames)
         /\ \E at \in [1 .. Len(ParseR2Z(mods)) -> {i \in 1 .. Len(mods) : mods[i].enabled}] :
              /\ \A i, j \in 1 .. Len(ParseR2Z(mods)) : i < j => at[i] < at[j]
              /\ \A k \in {i \in 1 .. Len(mods) : mods[i].enabled} : \E i \in 1 .. Len(ParseR2Z(mods)) : at[i] = k
              /\ \A i \in 1 .. Len(ParseR2Z(mods)) : ParseR2Z(mods)[i] = mods[at[i]].name
<1> DEFINE K == {m \in Range(mods) : m.enabled}
           on == Only(mods, K)
           slugs == [i \in DOMAIN on |-> on[i].name]
           E == {i \in 1 .. Len(mods) : mods[i].enabled}
<1>1. on \in Seq(ProfileMods) /\ MadeOf(on, mods, K, Len(mods))
  BY OnlyIs
<1>2. {i \in 1 .. Len(mods) : mods[i] \in K} = E
  BY DEF Range
<1>3. ParseR2Z(mods) = slugs
  BY DEF ParseR2Z
<1> HIDE DEF K, on
<1>4. DOMAIN on = 1 .. Len(on) /\ Len(on) \in Nat /\ \A i \in 1 .. Len(on) : on[i] \in ProfileMods
  BY <1>1
<1>5. DOMAIN slugs = 1 .. Len(on) /\ \A i \in 1 .. Len(on) : slugs[i] = on[i].name /\ slugs[i] \in ModNames
  BY <1>4 DEF ProfileMods
<1>6. slugs \in Seq(ModNames) /\ Len(slugs) = Len(on)
  <2>1. slugs = [i \in 1 .. Len(on) |-> slugs[i]]
    BY <1>5
  <2> HIDE DEF slugs
  <2>2. slugs \in [1 .. Len(on) -> ModNames]
    BY <1>5, <2>1
  <2> QED
    BY <1>4, <2>2
<1> HIDE DEF slugs, E
<1>7. PICK at \in [1 .. Len(on) -> E] : /\ \A i, j \in 1 .. Len(on) : i < j => at[i] < at[j]
                                        /\ \A k \in E : \E i \in 1 .. Len(on) : at[i] = k
                                        /\ \A i \in 1 .. Len(on) : on[i] = mods[at[i]]
  BY <1>1, <1>2 DEF MadeOf
<1> DEFINE Q(s) == \E a \in [1 .. Len(s) -> E] :
                     /\ \A i, j \in 1 .. Len(s) : i < j => a[i] < a[j]
                     /\ \A k \in E : \E i \in 1 .. Len(s) : a[i] = k
                     /\ \A i \in 1 .. Len(s) : s[i] = mods[a[i]].name
<1>8. Q(slugs)
  <2>1. \A i \in 1 .. Len(on) : slugs[i] = mods[at[i]].name
    BY <1>5, <1>7
  <2> QED
    BY <1>6, <1>7, <2>1
<1>9. Q(ParseR2Z(mods))
  <2> HIDE DEF Q
  <2> QED
    BY <1>3, <1>8
<1> QED
  BY <1>3, <1>6, <1>9 DEF E

LEMMA ProfileStep ==
  ASSUME ProfileInv, ProfileNext
  PROVE  ProfileInv'
<1>1. CASE ExportClientBundle
  <2>1. PICK newest \in [1 .. Len(list) -> 0 .. MaxPackVersion], v \in 1 .. MaxPackVersion :
          profile' = [profile EXCEPT !.at = "built", !.mods = Build(WithBepInEx(BundleSource(newest), v))]
    BY <1>1 DEF ExportClientBundle
  <2>2. list' = list /\ list \in Seq(Notations) /\ profile \in [at : {"list", "built", "read"}, mods : Seq(ProfileMods), slugs : Seq(ModNames)]
    BY <1>1 DEF ExportClientBundle, ProfileInv
  <2> DEFINE n == Len(list)
             b == BundleSource(newest)
             f == WithBepInEx(b, v)
             mods == Build(f)
  <2>3. n \in Nat /\ DOMAIN list = 1 .. n /\ \A i \in 1 .. n : list[i] \in Notations /\ newest[i] \in Nat
    <3>1. n \in Nat /\ DOMAIN list = 1 .. n /\ \A i \in 1 .. n : list[i] \in Notations
      BY <2>2
    <3>2. \A i \in 1 .. n : newest[i] \in 0 .. MaxPackVersion
      OBVIOUS
    <3> QED
      BY <3>1, <3>2, PacksAssumption
  <2>4. v \in Nat
    BY PacksAssumption
  <2>5. /\ b \in Seq(Notations) /\ Len(b) <= n
        /\ ~ ListFails => /\ [i \in DOMAIN b |-> b[i].package] = [i \in DOMAIN list |-> list[i].package]
                          /\ PlainList => \A i \in 1 .. Len(b) : PlainPack(b[i])
    <3>1. CASE ListFails
      <4>1. b = <<>>
        BY <3>1 DEF BundleSource
      <4> QED
        BY <2>3, <3>1, <4>1
    <3>2. CASE ~ ListFails
      <4>1. DOMAIN b = 1 .. n /\ \A i \in 1 .. n : b[i] = ResolveVersions(list[i], newest[i])
        BY <2>3, <3>2 DEF BundleSource
      <4>2. \A i \in 1 .. n : b[i] \in Notations /\ b[i].package = list[i].package /\ (PlainPack(list[i]) => PlainPack(b[i]))
        <5> TAKE i \in 1 .. n
        <5>1. list[i] \in Notations /\ newest[i] \in Nat /\ b[i] = ResolveVersions(list[i], newest[i])
          BY <2>3, <4>1
        <5> HIDE DEF b, n
        <5> QED
          BY <5>1, VersionIsResolved
      <4>3. b = [i \in 1 .. n |-> b[i]]
        BY <2>3, <3>2 DEF BundleSource
      <4> HIDE DEF b, f, mods
      <4>4. b \in Seq(Notations) /\ Len(b) = n
        <5>1. b \in [1 .. n -> Notations]
          BY <4>2, <4>3
        <5> QED
          BY <2>3, <5>1
      <4>5. [i \in DOMAIN b |-> b[i].package] = [i \in DOMAIN list |-> list[i].package]
        BY <2>3, <4>1, <4>2
      <4> QED
        BY <2>3, <4>2, <4>4, <4>5 DEF PlainList
    <3> QED
      BY <3>1, <3>2
  <2> HIDE DEF b
  <2> DEFINE own == [i \in DOMAIN b |-> b[i].package]
             names == IF BepInExPack \in Range(own) THEN own ELSE <<BepInExPack>> \o own
  <2>6. /\ f \in Seq(Notations) /\ Len(f) = Len(names) /\ Len(f) <= Len(b) + 1
        /\ \A i \in 1 .. Len(f) : f[i].package = names[i]
        /\ (\A i \in 1 .. Len(b) : PlainPack(b[i])) => \A i \in 1 .. Len(f) : PlainPack(f[i])
    BY <2>4, <2>5, PackIsAdded
  <2>7. ~ ListFails => names = PackNames
    BY <2>5 DEF PackNames
  <2> HIDE DEF f, names, own
  <2>8. /\ mods \in Seq(ProfileMods) /\ Len(mods) = Len(f)
        /\ \A i \in 1 .. Len(f) : mods[i] = parseEntry(f[i])
    BY <2>6, ManifestIs
  <2>9. \A i \in 1 .. Len(f) : PlainPack(f[i]) => mods[i].name = <<names[i]>>
    <3> TAKE i \in 1 .. Len(f)
    <3>1. f[i] \in Notations
      BY <2>6
    <3>2. PlainPack(f[i]) => parseEntry(f[i]).name = <<f[i].package>>
      BY <3>1, EntryIsParsed
    <3> HIDE DEF mods
    <3> QED
      BY <2>6, <2>8, <3>2
  <2>10. profile' = [profile EXCEPT !.at = "built", !.mods = mods]
    BY <2>1 DEF b, f
  <2> HIDE DEF mods
  <2>11. /\ profile' \in [at : {"list", "built", "read"}, mods : Seq(ProfileMods), slugs : Seq(ModNames)]
         /\ profile'.at = "built" /\ profile'.mods = mods
    BY <2>2, <2>8, <2>10
  <2>12. Len(mods) <= n + 1
    BY <2>3, <2>5, <2>6, <2>8
  <2>13. ~ ListFails => Len(mods) = Len(PackNames)
    BY <2>6, <2>7, <2>8
  <2>14. ~ ListFails /\ PlainList => \A i \in 1 .. Len(PackNames) : mods[i].name = <<PackNames[i]>>
    BY <2>5, <2>6, <2>7, <2>9
  <2>15. UNCHANGED list
    BY <2>2
  <2>16. PackNames' = PackNames /\ PlainList' = PlainList
    BY <2>15 DEF PackNames, PlainList
  <2> QED
    BY <2>2, <2>11, <2>12, <2>13, <2>14, <2>16 DEF ProfileInv
<1>2. CASE Disable
  <2>1. PICK i \in 1 .. Len(profile.mods) : profile' = [profile EXCEPT !.mods[i].enabled = FALSE]
    BY <1>2 DEF Disable
  <2>2. /\ list' = list /\ list \in Seq(Notations) /\ profile.at = "built"
        /\ profile \in [at : {"list", "built", "read"}, mods : Seq(ProfileMods), slugs : Seq(ModNames)]
        /\ Len(profile.mods) <= Len(list) + 1
        /\ ~ ListFails => Len(profile.mods) = Len(PackNames)
        /\ ~ ListFails /\ PlainList => \A j \in 1 .. Len(PackNames) : profile.mods[j].name = <<PackNames[j]>>
    BY <1>2 DEF Disable, ProfileInv
  <2> DEFINE mods == profile.mods
             m == [mods EXCEPT ![i] = [@ EXCEPT !.enabled = FALSE]]
  <2>3. mods \in Seq(ProfileMods) /\ Len(mods) \in Nat /\ i \in 1 .. Len(mods) /\ \A j \in 1 .. Len(mods) : mods[j] \in ProfileMods
    BY <2>2
  <2>4. [mods[i] EXCEPT !.enabled = FALSE] \in ProfileMods /\ [mods[i] EXCEPT !.enabled = FALSE].name = mods[i].name
    BY <2>3 DEF ProfileMods
  <2>5. profile' = [profile EXCEPT !.mods = m]
    BY <2>1, <2>2
  <2> HIDE DEF mods
  <2>6. m \in Seq(ProfileMods) /\ Len(m) = Len(mods) /\ \A j \in 1 .. Len(mods) : m[j].name = mods[j].name
    BY <2>3, <2>4
  <2> HIDE DEF m
  <2>7. /\ profile' \in [at : {"list", "built", "read"}, mods : Seq(ProfileMods), slugs : Seq(ModNames)]
        /\ profile'.at = "built" /\ profile'.mods = m
    BY <2>2, <2>5, <2>6
  <2>8. /\ Len(m) <= Len(list) + 1
        /\ ~ ListFails => Len(m) = Len(PackNames)
        /\ ~ ListFails /\ PlainList => \A j \in 1 .. Len(PackNames) : m[j].name = <<PackNames[j]>>
    BY <2>2, <2>6 DEF mods
  <2>9. PackNames' = PackNames /\ PlainList' = PlainList
    BY <2>2 DEF PackNames, PlainList
  <2> QED
    BY <2>2, <2>7, <2>8, <2>9 DEF ProfileInv
<1>3. CASE ValheimWizardImport
  <2>1. ParseR2Z(profile.mods) \in Seq(ModNames)
    BY ImportIs DEF ProfileInv
  <2>2. /\ profile' \in [at : {"list", "built", "read"}, mods : Seq(ProfileMods), slugs : Seq(ModNames)]
        /\ profile'.at = "read" /\ profile'.mods = profile.mods /\ profile'.slugs = ParseR2Z(profile.mods)
        /\ list' = list /\ profile.at = "built"
    BY <1>3, <2>1 DEF ValheimWizardImport, ProfileInv
  <2>3. PackNames' = PackNames /\ PlainList' = PlainList
    BY <2>2 DEF PackNames, PlainList
  <2> QED
    BY <2>2, <2>3 DEF ProfileInv
<1> QED
  BY <1>1, <1>2, <1>3 DEF ProfileNext

LEMMA ProfileIsFaithful ==
  ASSUME ProfileInv
  PROVE  ImportReadsTheExport
<1> SUFFICES ASSUME profile.at = "read", ~ ListFails, \A j \in DOMAIN list : list[j].form = "dashed" => ~list[j].odd
             PROVE  /\ Len(profile.mods) = Len(PackNames)
                    /\ LET on == {i \in DOMAIN PackNames : profile.mods[i].enabled}
                       IN \E at \in [DOMAIN profile.slugs -> on] :
                            /\ \A i, j \in DOMAIN profile.slugs : i < j => at[i] < at[j]
                            /\ \A k \in on : \E i \in DOMAIN profile.slugs : at[i] = k
                            /\ \A i \in DOMAIN profile.slugs : profile.slugs[i] = <<PackNames[at[i]]>>
  BY DEF ImportReadsTheExport
<1> DEFINE n == Len(PackNames)
           mods == profile.mods
           slugs == profile.slugs
           on == {i \in 1 .. n : mods[i].enabled}
<1>0. PackNames \in Seq(Packages) /\ PlainList
  <2>1. list \in Seq(Notations) /\ 0 \in Nat
    BY DEF ProfileInv
  <2>2. PlainList
    BY <2>1 DEF PlainList, PlainPack
  <2> QED
    BY <2>1, <2>2, PackIsAdded DEF PackNames
<1>1. /\ Len(mods) = n /\ n \in Nat /\ DOMAIN PackNames = 1 .. n /\ mods \in Seq(ProfileMods) /\ slugs \in Seq(ModNames) /\ DOMAIN slugs = 1 .. Len(slugs)
      /\ \A i \in 1 .. n : mods[i].name = <<PackNames[i]>>
  BY <1>0 DEF ProfileInv
<1>2. slugs = ParseR2Z(mods)
  BY DEF ProfileInv
<1>3. {i \in 1 .. Len(mods) : mods[i].enabled} = on
  BY <1>1
<1> HIDE DEF n, mods, slugs, on
<1>4. PICK at \in [1 .. Len(slugs) -> on] :
              /\ \A i, j \in 1 .. Len(slugs) : i < j => at[i] < at[j]
              /\ \A k \in on : \E i \in 1 .. Len(slugs) : at[i] = k
              /\ \A i \in 1 .. Len(slugs) : slugs[i] = mods[at[i]].name
  BY <1>1, <1>2, <1>3, ImportIs
<1>5. \A i \in 1 .. Len(slugs) : slugs[i] = <<PackNames[at[i]]>>
  BY <1>1, <1>4 DEF on
<1> DEFINE Q(D) == \E a \in [D -> on] :
                     /\ \A i, j \in D : i < j => a[i] < a[j]
                     /\ \A k \in on : \E i \in D : a[i] = k
                     /\ \A i \in D : slugs[i] = <<PackNames[a[i]]>>
<1>6. Q(DOMAIN slugs)
  <2>1. Q(1 .. Len(slugs))
    BY <1>4, <1>5
  <2> HIDE DEF Q
  <2> QED
    BY <1>1, <2>1
<1>7. {i \in DOMAIN PackNames : profile.mods[i].enabled} = on
  BY <1>1 DEF on, mods
<1> QED
  <2>1. Q(DOMAIN profile.slugs) /\ Len(profile.mods) = Len(PackNames)
    BY <1>1, <1>6 DEF mods, slugs, n
  <2> QED
    BY <1>7, <2>1 DEF slugs
-----------------------------------------------------------------------------
(* The .mrpack                                                              *)

Versioned == ModrinthMods \X (1 .. MaxPackVersion)
Counts == {0} \cup {Cardinality(x[1]) + Cardinality(x[2]) : x \in (SUBSET Versioned) \X (SUBSET CurseForgeMods)}
Exports ==
  [at : {"lists", "curseforge", "batch", "projects", "resolve", "report", "done"},
   todo : SUBSET ModrinthMods, known : SUBSET ModrinthMods, serverOnly : SUBSET ModrinthMods,
   missing : SUBSET ModrinthMods, running : SUBSET ModrinthMods, fallback : SUBSET ModrinthMods,
   files : SUBSET Versioned, noVersion : SUBSET ModrinthMods,
   cf : SUBSET CurseForgeMods, embed : SUBSET CurseForgeMods, archive : SUBSET Versioned,
   included : Counts, restricted : SUBSET CurseForgeMods, total : {0, Cardinality(ModrinthMods)}]

(* What a provider lists for a Minecraft version it also lists without one. *)
WorldsToExport ==
  {w \in [pin : [ModrinthMods -> 0 .. MaxPackVersion], side : [ModrinthMods -> {"client", "server", "both"}],
          fits : [ModrinthMods -> SUBSET (1 .. MaxPackVersion)],
          builds : [ModrinthMods -> SUBSET (1 .. MaxPackVersion)],
          jar : [ModrinthMods -> BOOLEAN], url : [CurseForgeMods -> BOOLEAN]] :
     \A m \in ModrinthMods : w.fits[m] \subseteq w.builds[m]}

(* The Modrinth mods that have been read from the list, and those for which  *)
(* the pack has a file.                                                      *)
Wanted == IF ListFails THEN {} ELSE ModrinthMods
WithFile == {x[1] : x \in export.files}
Leftover == export.todo \cup export.running \cup export.fallback

(* Each mod that was read is in one place: still to be dealt with, in one    *)
(* section of the report, or in the pack, once.                              *)
OnePlace ==
  /\ export.at = "lists" => /\ Leftover = {} /\ export.files = {} /\ export.archive = {}
                            /\ export.serverOnly = {} /\ export.missing = {} /\ export.noVersion = {}
  /\ export.at # "lists" => Leftover \cup export.serverOnly \cup export.missing \cup export.noVersion \cup WithFile = Wanted
  /\ export.todo \cap (export.running \cup export.fallback \cup export.serverOnly \cup export.missing \cup export.noVersion \cup WithFile) = {}
  /\ export.running \cap (export.fallback \cup export.serverOnly \cup export.missing \cup export.noVersion \cup WithFile) = {}
  /\ export.fallback \cap (export.serverOnly \cup export.missing \cup export.noVersion \cup WithFile) = {}
  /\ export.serverOnly \cap (export.missing \cup export.noVersion \cup WithFile) = {}
  /\ export.missing \cap (export.noVersion \cup WithFile) = {}
  /\ export.noVersion \cap WithFile = {}
  /\ \A x, y \in export.files : x[1] = y[1] => x = y
  /\ export.at \in {"resolve", "report", "done"} => export.todo = {}
  /\ export.at \in {"report", "done"} => export.running = {} /\ export.fallback = {} /\ export.archive = export.files
  /\ export.archive \subseteq export.files

PinsKept == \A x \in export.files : world.pin[x[1]] \in world.fits[x[1]] => x[2] = world.pin[x[1]]

ExportInv == world \in WorldsToExport /\ export \in Exports /\ OnePlace /\ PinsKept

LEMMA ChosenVersion ==
  ASSUME world \in WorldsToExport, NEW m \in ModrinthMods, NEW S \in SUBSET (1 .. MaxPackVersion), S # {}
  PROVE  Choose(m, S) \in 1 .. MaxPackVersion /\ (world.pin[m] \in S => Choose(m, S) = world.pin[m])
<1>1. S \in SUBSET Nat /\ \A y \in S : y <= MaxPackVersion
  BY PacksAssumption
<1>2. Max(S) \in S
  BY <1>1, MaxIsGreatest, PacksAssumption
<1> QED
  BY <1>2 DEF Choose

(* A mod leaves a set of mods for the pack, at the version v.               *)
LEMMA FileFound ==
  ASSUME ExportInv, NEW m \in ModrinthMods, NEW v \in 1 .. MaxPackVersion, export.at = "resolve",
         m \in export.running \/ m \in export.fallback,
         world.pin[m] \in world.fits[m] => v = world.pin[m],
         world' = world,
         export' = [export EXCEPT !.running = @ \ {m}, !.fallback = @ \ {m}, !.files = @ \cup {<<m, v>>}]
  PROVE  ExportInv'
<1> DEFINE x == <<m, v>>
<1>1. x \in Versioned /\ x[1] = m /\ x[2] = v
  BY DEF Versioned
<1>2. export \in Exports /\ OnePlace /\ PinsKept /\ world \in WorldsToExport
  BY DEF ExportInv
<1> HIDE DEF x
<1>3. /\ export'.at = "resolve" /\ export'.todo = export.todo /\ export'.serverOnly = export.serverOnly
      /\ export'.missing = export.missing /\ export'.noVersion = export.noVersion /\ export'.archive = export.archive
      /\ export'.running = export.running \ {m} /\ export'.fallback = export.fallback \ {m}
      /\ export'.files = export.files \cup {x}
  BY <1>2 DEF Exports, x
<1>4. export' \in Exports
  BY <1>1, <1>2 DEF Exports, x
<1>5. WithFile' = WithFile \cup {m}
  BY <1>1, <1>3 DEF WithFile
<1>6. m \notin WithFile
  BY <1>2 DEF OnePlace
<1>7. \A y \in export.files : y[1] # m
  BY <1>6 DEF WithFile
<1>8. OnePlace'
  <2>1. \A y, z \in export'.files : y[1] = z[1] => y = z
    BY <1>1, <1>2, <1>3, <1>7 DEF OnePlace
  <2>2. export'.archive \subseteq export'.files
    BY <1>2, <1>3 DEF OnePlace
  <2> HIDE DEF ExportInv
  <2>3. /\ Leftover' \cup export'.serverOnly \cup export'.missing \cup export'.noVersion \cup WithFile' = Wanted'
    BY <1>2, <1>3, <1>5 DEF OnePlace, Leftover, Wanted
  <2>4. /\ export'.todo \cap (export'.running \cup export'.fallback \cup export'.serverOnly \cup export'.missing \cup export'.noVersion \cup WithFile') = {}
        /\ export'.running \cap (export'.fallback \cup export'.serverOnly \cup export'.missing \cup export'.noVersion \cup WithFile') = {}
        /\ export'.fallback \cap (export'.serverOnly \cup export'.missing \cup export'.noVersion \cup WithFile') = {}
    BY <1>2, <1>3, <1>5 DEF OnePlace
  <2>5. /\ export'.serverOnly \cap (export'.missing \cup export'.noVersion \cup WithFile') = {}
        /\ export'.missing \cap (export'.noVersion \cup WithFile') = {}
        /\ export'.noVersion \cap WithFile' = {}
    BY <1>2, <1>3, <1>5 DEF OnePlace
  <2>6. export'.todo = {}
    BY <1>2, <1>3 DEF OnePlace
  <2> QED
    BY <1>3, <2>1, <2>2, <2>3, <2>4, <2>5, <2>6 DEF OnePlace
<1>9. PinsKept'
  BY <1>1, <1>2, <1>3 DEF PinsKept
<1> QED
  BY <1>2, <1>4, <1>8, <1>9 DEF ExportInv
(* A mod moves from one place to another that is not the pack.               *)
SamePack ==
  /\ world' = world /\ export' \in Exports
  /\ export'.files = export.files /\ export'.archive = export.archive
LEMMA Moved ==
  ASSUME ExportInv, SamePack, OnePlace'
  PROVE  ExportInv'
  BY DEF ExportInv, SamePack, PinsKept

LEMMA ListsAreRead ==
  ASSUME ExportInv, ReadLists
  PROVE  ExportInv'
<1> DEFINE todo == IF ListFails THEN {} ELSE ModrinthMods
           total == IF ListFails THEN 0 ELSE Cardinality(ModrinthMods)
           cf == IF ListFails THEN {} ELSE CurseForgeMods
<1>1. export \in Exports /\ OnePlace /\ world \in WorldsToExport
  BY DEF ExportInv
<1>2. export' = [export EXCEPT !.at = "curseforge", !.todo = todo, !.total = total, !.cf = cf] /\ world' = world /\ export.at = "lists"
  BY DEF ReadLists
<1>3. todo \in SUBSET ModrinthMods /\ total \in {0, Cardinality(ModrinthMods)} /\ cf \in SUBSET CurseForgeMods /\ todo = Wanted
  BY DEF Wanted
<1> HIDE DEF todo, total, cf
<1>4. /\ export' \in Exports /\ export'.at = "curseforge" /\ export'.todo = todo /\ export'.serverOnly = export.serverOnly
      /\ export'.missing = export.missing /\ export'.noVersion = export.noVersion /\ export'.archive = export.archive
      /\ export'.running = export.running /\ export'.fallback = export.fallback /\ export'.files = export.files
  BY <1>1, <1>2, <1>3 DEF Exports
<1>5. /\ Leftover = {} /\ export.files = {} /\ export.archive = {} /\ export.serverOnly = {} /\ export.missing = {} /\ export.noVersion = {}
  BY <1>1, <1>2 DEF OnePlace
<1>6. WithFile' = {}
  BY <1>4, <1>5 DEF WithFile
<1>7. OnePlace'
  BY <1>3, <1>4, <1>5, <1>6 DEF OnePlace, Leftover, Wanted
<1> QED
  BY <1>2, <1>4, <1>7, Moved DEF SamePack

LEMMA ListsAreUsed ==
  ASSUME ExportInv, ExportFiles \/ Batch \/ ResolveFiles
  PROVE  ExportInv'
<1>1. export \in Exports /\ OnePlace /\ world \in WorldsToExport
  BY DEF ExportInv
<1>2. /\ export' \in Exports /\ world' = world /\ export.at \in {"curseforge", "batch", "projects"} /\ export'.at \in {"batch", "projects", "resolve"}
      /\ export'.at = "resolve" => export.todo = {}
      /\ export'.todo = export.todo /\ export'.serverOnly = export.serverOnly
      /\ export'.missing = export.missing /\ export'.noVersion = export.noVersion /\ export'.archive = export.archive
      /\ export'.running = export.running /\ export'.fallback = export.fallback /\ export'.files = export.files
  <2>1. CASE ExportFiles
    <3>1. PICK S \in SUBSET {m \in export.cf : world.url[m]} : export' = [export EXCEPT !.at = "batch", !.embed = S]
      BY <2>1 DEF ExportFiles
    <3>2. S \in SUBSET CurseForgeMods
      BY <1>1 DEF Exports
    <3> QED
      BY <1>1, <2>1, <3>1, <3>2 DEF ExportFiles, Exports
  <2>2. CASE Batch
    <3>1. PICK S \in SUBSET export.todo : export' = [export EXCEPT !.at = "projects", !.known = S]
      BY <2>2 DEF Batch
    <3>2. S \in SUBSET ModrinthMods
      BY <1>1 DEF Exports
    <3> QED
      BY <1>1, <2>2, <3>1, <3>2 DEF Batch, Exports
  <2>3. CASE ResolveFiles
    BY <1>1, <2>3 DEF ResolveFiles, Exports
  <2> QED
    BY <2>1, <2>2, <2>3
<1>3. WithFile' = WithFile
  BY <1>2 DEF WithFile
<1>4. OnePlace'
  BY <1>1, <1>2, <1>3 DEF OnePlace, Leftover, Wanted
<1> QED
  BY <1>2, <1>4, Moved DEF SamePack

LEMMA ModIsClassified ==
  ASSUME ExportInv, NEW m \in ModrinthMods, Classify(m)
  PROVE  ExportInv'
<1>1. export \in Exports /\ OnePlace /\ world \in WorldsToExport /\ world' = world /\ export.at = "projects" /\ m \in export.todo
  BY DEF ExportInv, Classify
<1> DEFINE Goes(a, b, c) ==
             export' = [export EXCEPT !.todo = @ \ {m}, !.missing = @ \cup a, !.serverOnly = @ \cup b, !.running = @ \cup c]
           Split(a, b, c) == a \cup b \cup c = {m} /\ a \cap b = {} /\ a \cap c = {} /\ b \cap c = {}
<1>2. Split({m}, {}, {}) /\ Split({}, {m}, {}) /\ Split({}, {}, {m})
  OBVIOUS
<1>3. PICK a, b, c \in SUBSET {m} : Goes(a, b, c) /\ Split(a, b, c)
  <2>1. \A A : A \cup {} = A
    OBVIOUS
  <2>2. Goes({m}, {}, {}) \/ Goes({}, {m}, {}) \/ Goes({}, {}, {m})
    <3>1. CASE export' = [export EXCEPT !.todo = @ \ {m}, !.missing = @ \cup {m}]
      <4>1. Goes({m}, {}, {})
        BY <1>1, <2>1, <3>1 DEF Exports
      <4> QED
        BY <4>1
    <3>2. CASE export' = [export EXCEPT !.todo = @ \ {m}, !.serverOnly = @ \cup {m}]
      <4>1. Goes({}, {m}, {})
        BY <1>1, <2>1, <3>2 DEF Exports
      <4> QED
        BY <4>1
    <3>3. CASE export' = [export EXCEPT !.todo = @ \ {m}, !.running = @ \cup {m}]
      <4>1. Goes({}, {}, {m})
        BY <1>1, <2>1, <3>3 DEF Exports
      <4> QED
        BY <4>1
    <3> HIDE DEF Goes
    <3> QED
      BY <3>1, <3>2, <3>3 DEF Classify
  <2>3. {m} \in SUBSET {m} /\ {} \in SUBSET {m}
    OBVIOUS
  <2> HIDE DEF Goes, Split
  <2> QED
    BY <1>2, <2>2, <2>3
<1>4. /\ export' \in Exports /\ export'.at = "projects" /\ export'.todo = export.todo \ {m} /\ export'.serverOnly = export.serverOnly \cup b
      /\ export'.missing = export.missing \cup a /\ export'.noVersion = export.noVersion /\ export'.archive = export.archive
      /\ export'.running = export.running \cup c /\ export'.fallback = export.fallback /\ export'.files = export.files
  BY <1>1, <1>3 DEF Exports
<1>5. WithFile' = WithFile
  BY <1>4 DEF WithFile
<1>6. OnePlace'
  BY <1>1, <1>3, <1>4, <1>5 DEF OnePlace, Leftover, Wanted
<1> QED
  BY <1>1, <1>4, <1>6, Moved DEF SamePack
(* A mod leaves the goroutines for the fallback request, or for the report.  *)
LEMMA NoFileFound ==
  ASSUME ExportInv, NEW m \in ModrinthMods, world' = world, export.at = "resolve",
         \/ m \in export.running /\ export' = [export EXCEPT !.running = @ \ {m}, !.noVersion = @ \cup {m}]
         \/ m \in export.running /\ export' = [export EXCEPT !.running = @ \ {m}, !.fallback = @ \cup {m}]
         \/ m \in export.fallback /\ export' = [export EXCEPT !.fallback = @ \ {m}, !.noVersion = @ \cup {m}]
  PROVE  ExportInv'
<1>1. export \in Exports /\ OnePlace /\ world \in WorldsToExport
  BY DEF ExportInv
<1>2. /\ export' \in Exports /\ export'.at = "resolve" /\ export'.todo = export.todo /\ export'.serverOnly = export.serverOnly
      /\ export'.missing = export.missing /\ export'.archive = export.archive /\ export'.files = export.files
      /\ \/ /\ m \in export.running /\ export'.running = export.running \ {m} /\ export'.noVersion = export.noVersion \cup {m}
            /\ export'.fallback = export.fallback
         \/ /\ m \in export.running /\ export'.running = export.running \ {m} /\ export'.fallback = export.fallback \cup {m}
            /\ export'.noVersion = export.noVersion
         \/ /\ m \in export.fallback /\ export'.fallback = export.fallback \ {m} /\ export'.noVersion = export.noVersion \cup {m}
            /\ export'.running = export.running
  <2>1. CASE m \in export.running /\ export' = [export EXCEPT !.running = @ \ {m}, !.noVersion = @ \cup {m}]
    BY <1>1, <2>1 DEF Exports
  <2>2. CASE m \in export.running /\ export' = [export EXCEPT !.running = @ \ {m}, !.fallback = @ \cup {m}]
    BY <1>1, <2>2 DEF Exports
  <2>3. CASE m \in export.fallback /\ export' = [export EXCEPT !.fallback = @ \ {m}, !.noVersion = @ \cup {m}]
    BY <1>1, <2>3 DEF Exports
  <2> QED
    BY <2>1, <2>2, <2>3
<1>3. WithFile' = WithFile
  BY <1>2 DEF WithFile
<1>4. OnePlace'
  BY <1>1, <1>2, <1>3 DEF OnePlace, Leftover, Wanted
<1> QED
  BY <1>2, <1>4, Moved DEF SamePack

LEMMA ModIsLookedUp ==
  ASSUME ExportInv, NEW m \in ModrinthMods, LookupFiltered(m) \/ LookupAny(m)
  PROVE  ExportInv'
<1>1. export \in Exports /\ OnePlace /\ world \in WorldsToExport /\ world' = world /\ export.at = "resolve"
      /\ (m \in export.running \/ m \in export.fallback)
  BY DEF ExportInv, LookupFiltered, LookupAny
<1>2. /\ world.fits[m] \in SUBSET (1 .. MaxPackVersion) /\ world.builds[m] \in SUBSET (1 .. MaxPackVersion)
      /\ world.fits[m] \subseteq world.builds[m] /\ world.jar[m] \in BOOLEAN
  BY <1>1 DEF WorldsToExport
<1>3. m \in export.running => m \notin export.fallback
  BY <1>1 DEF OnePlace
<1>4. CASE /\ m \in export.running /\ world.fits[m] # {} /\ world.jar[m]
           /\ export' = [export EXCEPT !.running = @ \ {m}, !.files = @ \cup {<<m, Choose(m, world.fits[m])>>}]
  <2> DEFINE v == Choose(m, world.fits[m])
  <2>1. v \in 1 .. MaxPackVersion /\ (world.pin[m] \in world.fits[m] => v = world.pin[m])
    BY <1>1, <1>2, <1>4, ChosenVersion
  <2>2. export' = [export EXCEPT !.running = @ \ {m}, !.fallback = @ \ {m}, !.files = @ \cup {<<m, v>>}]
    <3>1. export.fallback \ {m} = export.fallback
      BY <1>3, <1>4
    <3> QED
      BY <1>1, <1>4, <3>1 DEF Exports
  <2> HIDE DEF v
  <2> QED
    BY <1>1, <2>1, <2>2, FileFound
<1>5. CASE /\ m \in export.fallback /\ world.builds[m] # {} /\ world.jar[m]
           /\ export' = [export EXCEPT !.fallback = @ \ {m}, !.files = @ \cup {<<m, Choose(m, world.builds[m])>>}]
  <2> DEFINE v == Choose(m, world.builds[m])
  <2>1. v \in 1 .. MaxPackVersion /\ (world.pin[m] \in world.fits[m] => v = world.pin[m])
    BY <1>1, <1>2, <1>5, ChosenVersion
  <2>2. export' = [export EXCEPT !.running = @ \ {m}, !.fallback = @ \ {m}, !.files = @ \cup {<<m, v>>}]
    <3>1. export.running \ {m} = export.running
      BY <1>3, <1>5
    <3> QED
      BY <1>1, <1>5, <3>1 DEF Exports
  <2> HIDE DEF v
  <2> QED
    BY <1>1, <2>1, <2>2, FileFound
<1>6. CASE m \in export.running /\ export' = [export EXCEPT !.running = @ \ {m}, !.noVersion = @ \cup {m}]
  BY <1>1, <1>6, NoFileFound
<1>7. CASE m \in export.running /\ export' = [export EXCEPT !.running = @ \ {m}, !.fallback = @ \cup {m}]
  BY <1>1, <1>7, NoFileFound
<1>8. CASE m \in export.fallback /\ export' = [export EXCEPT !.fallback = @ \ {m}, !.noVersion = @ \cup {m}]
  BY <1>1, <1>8, NoFileFound
<1>9. CASE LookupFiltered(m)
  <2>1. CASE world.fits[m] # {} /\ export' = [export EXCEPT
             !.running = @ \ {m},
             !.files = IF world.jar[m] THEN @ \cup {<<m, Choose(m, world.fits[m])>>} ELSE @,
             !.noVersion = IF world.jar[m] THEN @ ELSE @ \cup {m}]
    <3>1. m \in export.running
      BY <1>9 DEF LookupFiltered
    <3>2. CASE world.jar[m]
      <4>1. export' = [export EXCEPT !.running = @ \ {m}, !.files = @ \cup {<<m, Choose(m, world.fits[m])>>}]
        BY <1>1, <2>1, <3>2 DEF Exports
      <4> QED
        BY <1>4, <2>1, <3>1, <3>2, <4>1
    <3>3. CASE ~world.jar[m]
      <4>1. export' = [export EXCEPT !.running = @ \ {m}, !.noVersion = @ \cup {m}]
        BY <1>1, <2>1, <3>3 DEF Exports
      <4> QED
        BY <1>6, <3>1, <4>1
    <3> QED
      BY <3>2, <3>3
  <2> QED
    BY <1>7, <1>9, <2>1 DEF LookupFiltered
<1>10. CASE LookupAny(m)
  BY <1>5, <1>8, <1>10 DEF LookupAny
<1> QED
  BY <1>9, <1>10

LEMMA PackIsWritten ==
  ASSUME ExportInv, WriteIndex \/ WriteReport
  PROVE  ExportInv'
<1>1. export \in Exports /\ OnePlace /\ PinsKept /\ world \in WorldsToExport /\ world' = world
  BY DEF ExportInv, WriteIndex, WriteReport
<1>2. /\ export' \in Exports /\ export'.todo = export.todo /\ export'.serverOnly = export.serverOnly
      /\ export'.missing = export.missing /\ export'.files = export.files
      /\ export'.running = export.running /\ export'.fallback = export.fallback /\ export'.noVersion = export.noVersion
      /\ \/ /\ export.at = "resolve" /\ export'.at = "report" /\ export.running = {} /\ export.fallback = {}
            /\ export'.archive = export.files
         \/ export.at = "report" /\ export'.at = "done" /\ export'.archive = export.archive
  <2>1. CASE WriteIndex
    BY <1>1, <2>1 DEF WriteIndex, Exports
  <2>2. CASE WriteReport
    <3> DEFINE n == Cardinality(export.files) + Cardinality(export.embed)
               r == export.cf \ export.embed
    <3>1. export' = [export EXCEPT !.at = "done", !.included = n, !.restricted = r] /\ export.at = "report"
      BY <2>2 DEF WriteReport
    <3>2. <<export.files, export.embed>> \in (SUBSET Versioned) \X (SUBSET CurseForgeMods)
      BY <1>1 DEF Exports
    <3>3. n \in Counts /\ r \in SUBSET CurseForgeMods
      BY <1>1, <3>2 DEF Counts, Exports
    <3> HIDE DEF n, r
    <3> QED
      BY <1>1, <3>1, <3>3 DEF Exports
  <2> QED
    BY <2>1, <2>2
<1>3. WithFile' = WithFile
  BY <1>2 DEF WithFile
<1>4. OnePlace'
  BY <1>1, <1>2, <1>3 DEF OnePlace, Leftover, Wanted
<1>5. PinsKept'
  BY <1>1, <1>2 DEF PinsKept
<1> QED
  BY <1>1, <1>2, <1>4, <1>5 DEF ExportInv
LEMMA InOneSection ==
  ASSUME NEW A, NEW B, NEW C, NEW m,
         NEW n \in {<<1, A>>, <<2, B>>, <<3, C>>}, \A S \in {<<1, A>>, <<2, B>>, <<3, C>>} : m \in S[2] <=> S = n
  PROVE  Cardinality({S \in {<<1, A>>, <<2, B>>, <<3, C>>} : m \in S[2]}) = 1
<1>1. {S \in {<<1, A>>, <<2, B>>, <<3, C>>} : m \in S[2]} = {n}
  OBVIOUS
<1> QED
  BY <1>1, FS_Singleton

LEMMA EveryModIsSomewhere ==
  ASSUME ExportInv
  PROVE  EveryModIsAccountedFor
<1> SUFFICES ASSUME export.at = "done", NEW m \in Wanted
             PROVE  Cardinality({x \in export.archive : x[1] = m})
                      + Cardinality({S \in {<<1, export.serverOnly>>, <<2, export.missing>>,
                                            <<3, export.noVersion>>} : m \in S[2]}) = 1
  BY DEF EveryModIsAccountedFor, Wanted
<1> DEFINE Here == {x \in export.archive : x[1] = m}
           Headings == {<<1, export.serverOnly>>, <<2, export.missing>>, <<3, export.noVersion>>}
           There == {S \in Headings : m \in S[2]}
<1>1. OnePlace /\ export.archive = export.files /\ Leftover = {}
  BY DEF ExportInv, OnePlace, Leftover
<1>2. \/ m \in WithFile /\ m \notin export.serverOnly /\ m \notin export.missing /\ m \notin export.noVersion
      \/ m \notin WithFile /\ m \in export.serverOnly /\ m \notin export.missing /\ m \notin export.noVersion
      \/ m \notin WithFile /\ m \notin export.serverOnly /\ m \in export.missing /\ m \notin export.noVersion
      \/ m \notin WithFile /\ m \notin export.serverOnly /\ m \notin export.missing /\ m \in export.noVersion
  BY <1>1 DEF OnePlace
<1>3. CASE m \in WithFile /\ m \notin export.serverOnly /\ m \notin export.missing /\ m \notin export.noVersion
  <2>1. PICK x \in export.files : x[1] = m
    BY <1>3 DEF WithFile
  <2>2. Here = {x}
    BY <1>1, <2>1 DEF OnePlace
  <2>3. There = {}
    BY <1>3
  <2> HIDE DEF Here, There
  <2>4. Cardinality(Here) = 1 /\ Cardinality(There) = 0
    BY <2>2, <2>3, FS_Singleton, FS_EmptySet
  <2>5. Cardinality(Here) + Cardinality(There) = 1
    BY <2>4
  <2> QED
    BY <2>5 DEF Here, There
<1>4. CASE m \notin WithFile
  <2>1. Here = {}
    BY <1>1, <1>4 DEF WithFile
  <2>2. Cardinality(There) = 1
    <3>1. CASE m \in export.serverOnly
      <4>1. \A S \in Headings : m \in S[2] <=> S = <<1, export.serverOnly>>
        BY <1>2, <1>4, <3>1
      <4> QED
        BY <4>1, InOneSection
    <3>2. CASE m \in export.missing
      <4>1. \A S \in Headings : m \in S[2] <=> S = <<2, export.missing>>
        BY <1>2, <1>4, <3>2
      <4> QED
        BY <4>1, InOneSection
    <3>3. CASE m \in export.noVersion
      <4>1. \A S \in Headings : m \in S[2] <=> S = <<3, export.noVersion>>
        BY <1>2, <1>4, <3>3
      <4> QED
        BY <4>1, InOneSection
    <3> QED
      BY <1>2, <1>4, <3>1, <3>2, <3>3
  <2> HIDE DEF Here, There
  <2>3. Cardinality(Here) = 0
    BY <2>1, FS_EmptySet
  <2>4. Cardinality(Here) + Cardinality(There) = 1
    BY <2>2, <2>3
  <2> QED
    BY <2>4 DEF Here, There
<1> QED
  BY <1>2, <1>3, <1>4

-----------------------------------------------------------------------------
(* Uploads, and all of it                                                   *)

Uploadable(J, L) ==
  [ext : {"mrpack", "zip", "txt", "other"}, zip : BOOLEAN, index : {"good", "bad", "none"},
   mmc : {"good", "bad", "none"}, files : SUBSET J, jars : SUBSET J, lines : L]

LEMMA ExtensionIsIgnored ==
  ASSUME NEW J, NEW L, upload # NoUpload => upload \in Uploadable(J, L)
  PROVE  ExtensionDoesNotMatter
<1> SUFFICES ASSUME upload # NoUpload, upload \in Uploadable(J, L)
             PROVE  LET as(ext) == MCWizardImport([upload EXCEPT !.ext = ext])
                    IN /\ as("zip") # Refused => as("other") = as("zip")
                       /\ as("mrpack") # Refused => as("zip") = as("mrpack")
  BY DEF ExtensionDoesNotMatter
<1> DEFINE f(ext) == [upload EXCEPT !.ext = ext]
           M == ParseMrpack(upload)
           P == ParsePrismZip(upload)
           R == ParseRawModList(upload)
<1>1. \A ext : /\ f(ext).ext = ext /\ f(ext).zip = upload.zip /\ f(ext).index = upload.index /\ f(ext).mmc = upload.mmc
               /\ f(ext).files = upload.files /\ f(ext).jars = upload.jars /\ f(ext).lines = upload.lines
  BY DEF Uploadable
<1> HIDE DEF f
<1>2. \A ext : ParseMrpack(f(ext)) = M /\ ParsePrismZip(f(ext)) = P /\ ParseRawModList(f(ext)) = R
  BY <1>1 DEF ParseMrpack, ParsePrismZip, ParseRawModList
<1> HIDE DEF M, P, R
<1>3. MCWizardImport(f("mrpack")) = M
  BY <1>1, <1>2 DEF MCWizardImport
<1>4. MCWizardImport(f("zip")) = OrElse(M, P)
  BY <1>1, <1>2 DEF MCWizardImport
<1>5. MCWizardImport(f("other")) = OrElse(M, OrElse(P, R))
  BY <1>1, <1>2 DEF MCWizardImport
<1>6. OrElse(M, P) # Refused => OrElse(M, OrElse(P, R)) = OrElse(M, P)
  BY DEF OrElse
<1>7. M # Refused => OrElse(M, P) = M
  BY DEF OrElse
<1> QED
  BY <1>3, <1>4, <1>5, <1>6, <1>7 DEF f

PacksInv == ExportInv /\ ProfileInv /\ (upload # NoUpload => upload \in Uploads)

LEMMA PacksStart ==
  ASSUME ExportedWorlds \subseteq WorldsToExport, ProfileLists \subseteq Seq(Notations), InitPacks
  PROVE  PacksInv
<1>1. world \in WorldsToExport /\ export = Start /\ list \in Seq(Notations) /\ profile = NewProfile /\ upload = NoUpload
  BY DEF InitPacks
<1>2. export \in Exports
  BY <1>1 DEF Start, Exports, Counts
<1>3. OnePlace /\ PinsKept
  BY <1>1 DEF Start, OnePlace, PinsKept, Leftover, WithFile
<1>4. ProfileInv
  <2>1. <<>> \in Seq(ProfileMods) /\ <<>> \in Seq(ModNames)
    OBVIOUS
  <2> QED
    BY <1>1, <2>1 DEF ProfileInv, NewProfile
<1> QED
  BY <1>1, <1>2, <1>3, <1>4 DEF PacksInv, ExportInv

LEMMA ExportStep ==
  ASSUME ExportInv, ExportNext
  PROVE  ExportInv'
<1>1. CASE ReadLists
  BY <1>1, ListsAreRead
<1>2. CASE ExportFiles \/ Batch \/ ResolveFiles
  BY <1>2, ListsAreUsed
<1>3. ASSUME NEW m \in ModrinthMods, Classify(m) PROVE ExportInv'
  BY <1>3, ModIsClassified
<1>4. ASSUME NEW m \in ModrinthMods, LookupFiltered(m) \/ LookupAny(m) PROVE ExportInv'
  BY <1>4, ModIsLookedUp
<1>5. CASE WriteIndex \/ WriteReport
  BY <1>5, PackIsWritten
<1> QED
  BY <1>1, <1>2, <1>3, <1>4, <1>5 DEF ExportNext

LEMMA PacksStep ==
  ASSUME PacksInv, [PacksNext]_packVars
  PROVE  PacksInv'
<1>1. ExportInv /\ UNCHANGED <<world, export>> => ExportInv'
  BY DEF ExportInv, OnePlace, PinsKept, Leftover, WithFile, Wanted
<1>2. ProfileInv /\ UNCHANGED <<list, profile>> => ProfileInv'
  BY DEF ProfileInv, PackNames, PlainList
<1>3. CASE ExportNext /\ UNCHANGED <<list, profile, upload>>
  BY <1>2, <1>3, ExportStep DEF PacksInv
<1>4. CASE ProfileNext /\ UNCHANGED <<world, export, upload>>
  BY <1>1, <1>4, ProfileStep DEF PacksInv
<1>5. CASE Upload /\ UNCHANGED <<world, export, list, profile>>
  BY <1>1, <1>2, <1>5 DEF PacksInv, Upload
<1>6. CASE UNCHANGED packVars
  BY <1>1, <1>2, <1>6 DEF PacksInv, packVars
<1> QED
  BY <1>3, <1>4, <1>5, <1>6 DEF PacksNext

(* PacksAreFaithful: whatever requests fail and in whatever order the        *)
(* goroutines end, no mod of an exported world is dropped without a word or  *)
(* counted twice, and a pin that the provider lists for the world's version  *)
(* is exported; an import of a profile offers the list that was exported,    *)
(* with BepInEx before it when the list omits that (WithBepInEx); and what   *)
(* an upload is read as does not depend on its extension (BuildMrpack,       *)
(* Build, ParseR2Z, MCWizardImport).  For any mods, worlds, lists and        *)
(* uploads; what is listed for a Minecraft version is also listed without    *)
(* one.  Of a world whose list cannot be read it says nothing.               *)
THEOREM PacksSayWhatWorldsSay ==
  ASSUME NEW CONSTANT J, NEW CONSTANT L
  PROVE  ExportedWorlds \subseteq WorldsToExport /\ ProfileLists \subseteq Seq(Notations) /\ Uploads \subseteq Uploadable(J, L)
           => (PacksSpec => [](PacksTypeOK /\ PacksAreFaithful))
<1> SUFFICES ASSUME ExportedWorlds \subseteq WorldsToExport, ProfileLists \subseteq Seq(Notations), Uploads \subseteq Uploadable(J, L)
             PROVE  PacksSpec => [](PacksTypeOK /\ PacksAreFaithful)
  OBVIOUS
<1>1. InitPacks => PacksInv
  BY PacksStart
<1>2. PacksInv /\ [PacksNext]_packVars => PacksInv'
  BY PacksStep
<1>3. PacksInv => PacksTypeOK
  <2> SUFFICES ASSUME PacksInv PROVE PacksTypeOK
    OBVIOUS
  <2>1. export \in Exports
    BY DEF PacksInv, ExportInv
  <2>2. Len(profile.mods) <= Len(list) + 1
    <3>1. Len(list) \in Nat /\ Len(<<>>) = 0
      BY DEF PacksInv, ProfileInv
    <3> QED
      BY <3>1 DEF PacksInv, ProfileInv
  <2>3. profile.at \in {"list", "built", "read"}
    BY DEF PacksInv, ProfileInv
  <2> QED
    BY <2>1, <2>2, <2>3 DEF PacksTypeOK, Exports, Versioned
<1>4. PacksInv => PacksAreFaithful
  <2> SUFFICES ASSUME PacksInv PROVE PacksAreFaithful
    OBVIOUS
  <2>1. PinIsExported
    BY DEF PacksInv, ExportInv, OnePlace, PinsKept, PinIsExported
  <2>2. ExtensionDoesNotMatter
    BY ExtensionIsIgnored DEF PacksInv
  <2> QED
    BY <2>1, <2>2, EveryModIsSomewhere, ProfileIsFaithful DEF PacksInv, PacksAreFaithful
<1> QED
  BY <1>1, <1>2, <1>3, <1>4, PTL DEF PacksSpec

-----------------------------------------------------------------------------
(* Resolutions: queues, and the pages that are put in them                  *)

LEMMA RangeIs ==
  ASSUME NEW A, NEW s \in Seq(A)
  PROVE  Range(s) = {s[i] : i \in 1 .. Len(s)} /\ Range(s) \subseteq A /\ (s = <<>> <=> Range(s) = {})
<1>1. DOMAIN s = 1 .. Len(s) /\ Len(s) \in Nat /\ \A i \in 1 .. Len(s) : s[i] \in A
  OBVIOUS
<1>2. Range(s) = {s[i] : i \in 1 .. Len(s)}
  BY <1>1 DEF Range
<1>3. s = <<>> <=> Len(s) = 0
  BY EmptySeq
<1>4. Len(s) # 0 => s[1] \in Range(s)
  BY <1>1, <1>2
<1>5. Len(s) = 0 => Range(s) = {}
  BY <1>2
<1> QED
  BY <1>1, <1>2, <1>3, <1>4, <1>5

LEMMA RangeOfAppend ==
  ASSUME NEW A, NEW s \in Seq(A), NEW x \in A
  PROVE  Append(s, x) \in Seq(A) /\ Range(Append(s, x)) = Range(s) \cup {x}
<1> DEFINE t == Append(s, x)
<1>1. t \in Seq(A) /\ Len(t) = Len(s) + 1 /\ Len(s) \in Nat /\ (\A i \in 1 .. Len(s) : t[i] = s[i]) /\ t[Len(s) + 1] = x
  BY AppendProperties, LenProperties
<1> HIDE DEF t
<1>2. Range(t) = {t[i] : i \in 1 .. Len(t)} /\ Range(s) = {s[i] : i \in 1 .. Len(s)}
  BY <1>1, RangeIs
<1>3. \A i \in 1 .. Len(t) : i = Len(s) + 1 \/ i \in 1 .. Len(s)
  BY <1>1
<1>4. \A i \in 1 .. Len(s) : i \in 1 .. Len(t)
  BY <1>1
<1>5. Len(s) + 1 \in 1 .. Len(t)
  BY <1>1
<1>6. Range(t) \subseteq Range(s) \cup {x}
  BY <1>1, <1>2, <1>3
<1>7. Range(s) \cup {x} \subseteq Range(t)
  BY <1>1, <1>2, <1>4, <1>5
<1> QED
  BY <1>1, <1>6, <1>7 DEF t

LEMMA RangeOfConcat ==
  ASSUME NEW A, NEW s \in Seq(A), NEW u \in Seq(A)
  PROVE  s \o u \in Seq(A) /\ Range(s \o u) = Range(s) \cup Range(u)
<1> DEFINE t == s \o u
           m == Len(s)
           n == Len(u)
<1>1. t \in Seq(A) /\ Len(t) = m + n /\ m \in Nat /\ n \in Nat
      /\ \A i \in 1 .. m + n : t[i] = IF i <= m THEN s[i] ELSE u[i - m]
  BY ConcatProperties, LenProperties
<1>2. Range(t) = {t[i] : i \in 1 .. m + n} /\ Range(s) = {s[i] : i \in 1 .. m} /\ Range(u) = {u[i] : i \in 1 .. n}
  <2>1. Range(s) = {s[i] : i \in 1 .. m} /\ Range(u) = {u[i] : i \in 1 .. n}
    BY RangeIs
  <2>2. Range(t) = {t[i] : i \in 1 .. Len(t)}
    <3> HIDE DEF t
    <3> QED
      BY <1>1, RangeIs
  <2> HIDE DEF t, m, n
  <2> QED
    BY <1>1, <2>1, <2>2
<1> HIDE DEF t, m, n
<1>3. ASSUME NEW i \in 1 .. m + n PROVE t[i] \in Range(s) \cup Range(u)
  <2>1. CASE i <= m
    <3>1. i \in 1 .. m /\ t[i] = s[i]
      BY <1>1, <2>1
    <3> QED
      BY <1>2, <3>1
  <2>2. CASE ~ (i <= m)
    <3>1. i - m \in 1 .. n /\ t[i] = u[i - m]
      BY <1>1, <2>2
    <3> QED
      BY <1>2, <3>1
  <2> QED
    BY <2>1, <2>2
<1>4. \A i \in 1 .. m : i \in 1 .. m + n /\ t[i] = s[i]
  BY <1>1
<1>5. \A i \in 1 .. n : i + m \in 1 .. m + n /\ t[i + m] = u[i]
  <2> TAKE i \in 1 .. n
  <2>1. i + m \in 1 .. m + n /\ ~ (i + m <= m) /\ (i + m) - m = i
    BY <1>1
  <2> QED
    BY <1>1, <2>1
<1>6. Range(t) \subseteq Range(s) \cup Range(u)
  BY <1>2, <1>3
<1>7. Range(s) \subseteq Range(t) /\ Range(u) \subseteq Range(t)
  BY <1>2, <1>4, <1>5
<1> QED
  BY <1>1, <1>6, <1>7 DEF t

LEMMA RangeOfTail ==
  ASSUME NEW A, NEW s \in Seq(A), s # <<>>
  PROVE  Head(s) \in A /\ Tail(s) \in Seq(A) /\ Range(s) = {Head(s)} \cup Range(Tail(s))
<1> DEFINE t == Tail(s)
<1>1. t \in Seq(A) /\ Len(t) = Len(s) - 1 /\ Len(s) \in Nat /\ Len(s) >= 1 /\ Head(s) = s[1] /\ Head(s) \in A
      /\ \A i \in 1 .. Len(t) : t[i] = s[i + 1]
  BY HeadTailProperties, EmptySeq
<1>2. Range(t) = {t[i] : i \in 1 .. Len(t)} /\ Range(s) = {s[i] : i \in 1 .. Len(s)}
  BY <1>1, RangeIs
<1> HIDE DEF t
<1>3. \A i \in 1 .. Len(s) : i = 1 \/ (i - 1 \in 1 .. Len(t) /\ t[i - 1] = s[i])
  <2> TAKE i \in 1 .. Len(s)
  <2>1. i = 1 \/ (i - 1 \in 1 .. Len(t) /\ (i - 1) + 1 = i)
    BY <1>1
  <2> QED
    BY <1>1, <2>1
<1>4. \A i \in 1 .. Len(t) : i + 1 \in 1 .. Len(s)
  BY <1>1
<1>5. 1 \in 1 .. Len(s)
  BY <1>1
<1>6. Range(s) \subseteq {Head(s)} \cup Range(t)
  BY <1>1, <1>2, <1>3
<1>7. {Head(s)} \cup Range(t) \subseteq Range(s)
  BY <1>1, <1>2, <1>4, <1>5
<1> QED
  BY <1>1, <1>6, <1>7 DEF t

(* A page is in some order, and whole.                                      *)
LEMMA PageIs ==
  ASSUME NEW S \in SUBSET Projects
  PROVE  SetToSeq(S) \in Seq(S) /\ Range(SetToSeq(S)) = S /\ Len(SetToSeq(S)) \in Nat
<1>1. IsFiniteSet(S)
  BY FS_Subset, DependenciesAssumption
<1> DEFINE n == Cardinality(S)
<1>2. n \in Nat /\ ExistsBijection(1 .. n, S)
  BY <1>1, FS_CardinalityType
<1>3. IsFiniteSet(1 .. n) /\ Cardinality(1 .. n) = n
  BY <1>2, FS_Interval
<1>4. PICK f \in [1 .. n -> S] : IsInjective(f)
  BY <1>2 DEF ExistsBijection, Bijection, Injection, IsInjective
<1> DEFINE p == SetToSeq(S)
<1>5. p \in [1 .. n -> S] /\ IsInjective(p)
  BY <1>4 DEF SetToSeq
<1>6. p \in Injection(1 .. n, S)
  BY <1>5 DEF Injection
<1> HIDE DEF p
<1>7. p \in Surjection(1 .. n, S)
  <2> HIDE DEF n
  <2> QED
    BY <1>1, <1>3, <1>6, FS_Injection DEF n
<1>8. \A x \in S : \E i \in 1 .. n : p[i] = x
  BY <1>7 DEF Surjection
<1> HIDE DEF n
<1>9. p \in Seq(S) /\ Len(p) = n /\ DOMAIN p = 1 .. n
  BY <1>2, <1>5
<1>10. Range(p) = S
  BY <1>5, <1>8, <1>9 DEF Range
<1> QED
  BY <1>2, <1>9, <1>10 DEF p
-----------------------------------------------------------------------------
(* Resolutions with a queue                                                 *)

Refs == [mod : Projects, build : 0 .. MaxBuild]
Required == [Projects -> [Builds -> SUBSET Projects]]
N(req, m, b) == IF b = 0 THEN {} ELSE req[m][b]
ModsOf(s) == {r.mod : r \in Range(s)}

LEMMA NeedsProjects ==
  ASSUME NEW req \in Required, NEW m \in Projects, NEW b \in 0 .. MaxBuild
  PROVE  N(req, m, b) \in SUBSET Projects
<1>1. CASE b = 0
  BY <1>1 DEF N
<1>2. CASE b # 0
  <2>1. b \in Builds
    BY <1>2, DependenciesAssumption DEF Builds
  <2> QED
    BY <1>2, <2>1 DEF N, Required
<1> QED
  BY <1>1, <1>2

(* Nothing is listed twice, or without an earlier entry that needs it.       *)
InOrder(o, req) ==
  \A i \in 1 .. Len(o) :
    /\ \A k \in 1 .. i - 1 : o[k].mod # o[i].mod
    /\ o[i].mod = Root \/ \E k \in 1 .. i - 1 : o[i].mod \in N(req, o[k].mod, o[k].build)

(* A queue q, what was listed o and what was visited v.                      *)
Queued(q, o, v, req) ==
  /\ \A e \in Range(o) : e.build # 0
  /\ ModsOf(o) \subseteq v
  /\ \A e \in Range(o) : N(req, e.mod, e.build) \subseteq ModsOf(o) \cup {LoaderPack} \cup ModsOf(q)
  /\ \A r \in Range(q) : r.mod = Root \/ \E e \in Range(o) : r.mod \in N(req, e.mod, e.build)
  /\ InOrder(o, req)

LEMMA HeadIsDropped ==
  ASSUME NEW q \in Seq(Refs), NEW o \in Seq(Refs), NEW v, NEW w, NEW req, Queued(q, o, v, req), q # <<>>,
         Head(q).mod \in ModsOf(o) \cup {LoaderPack}, v \subseteq w
  PROVE  Queued(Tail(q), o, w, req)
<1> DEFINE t == Tail(q)
           h == Head(q)
<1>1. Range(q) = {h} \cup Range(t)
  BY RangeOfTail
<1> HIDE DEF t, h
<1>2. ModsOf(q) = {h.mod} \cup ModsOf(t)
  BY <1>1 DEF ModsOf
<1>3. h.mod \in ModsOf(o) \cup {LoaderPack}
  BY DEF h
<1>4. Queued(t, o, w, req)
  BY <1>1, <1>2, <1>3 DEF Queued
<1> QED
  BY <1>4 DEF t

LEMMA OrderGoesOn ==
  ASSUME NEW o \in Seq(Refs), NEW req, NEW r \in Refs, InOrder(o, req), r.mod \notin ModsOf(o),
         r.mod = Root \/ \E e \in Range(o) : r.mod \in N(req, e.mod, e.build)
  PROVE  InOrder(Append(o, r), req)
<1> DEFINE n == Len(o)
           u == Append(o, r)
<1>1. n \in Nat /\ Len(u) = n + 1 /\ u[n + 1] = r /\ \A i \in 1 .. n : u[i] = o[i]
  BY AppendProperties, LenProperties
<1>2. Range(o) = {o[i] : i \in 1 .. n}
  BY RangeIs
<1> HIDE DEF u, n
<1>3. ASSUME NEW i \in 1 .. n + 1
      PROVE  /\ \A k \in 1 .. i - 1 : u[k].mod # u[i].mod
             /\ u[i].mod = Root \/ \E k \in 1 .. i - 1 : u[i].mod \in N(req, u[k].mod, u[k].build)
  <2>1. CASE i \in 1 .. n
    <3>1. \A k \in 1 .. i - 1 : u[k] = o[k]
      BY <1>1, <2>1
    <3>2. /\ \A k \in 1 .. i - 1 : o[k].mod # o[i].mod
          /\ o[i].mod = Root \/ \E k \in 1 .. i - 1 : o[i].mod \in N(req, o[k].mod, o[k].build)
      BY <2>1 DEF InOrder, n
    <3>3. u[i] = o[i]
      BY <1>1, <2>1
    <3> QED
      BY <3>1, <3>2, <3>3
  <2>2. CASE i = n + 1
    <3>1. i - 1 = n /\ u[i] = r
      BY <1>1, <2>2
    <3>2. \A k \in 1 .. n : u[k] = o[k] /\ o[k] \in Range(o) /\ o[k].mod \in ModsOf(o)
      BY <1>1, <1>2 DEF ModsOf
    <3>3. \A k \in 1 .. n : u[k].mod # r.mod
      BY <3>2
    <3>4. r.mod = Root \/ \E k \in 1 .. n : r.mod \in N(req, u[k].mod, u[k].build)
      BY <1>2, <3>2
    <3> QED
      BY <3>1, <3>3, <3>4
  <2> QED
    BY <1>1, <2>1, <2>2
<1> QED
  BY <1>1, <1>3 DEF InOrder, u

LEMMA HeadIsListed ==
  ASSUME NEW q \in Seq(Refs), NEW o \in Seq(Refs), NEW v, NEW w, NEW req, NEW r \in Refs, NEW p \in Seq(Refs),
         Queued(q, o, v, req), q # <<>>, Head(q).mod = r.mod, r.build # 0, r.mod \notin ModsOf(o),
         ModsOf(p) \subseteq N(req, r.mod, r.build),
         N(req, r.mod, r.build) \subseteq ModsOf(p) \cup ModsOf(o) \cup {LoaderPack, r.mod},
         v \cup {r.mod} \subseteq w
  PROVE  Queued(Tail(q) \o p, Append(o, r), w, req)
<1> DEFINE t == Tail(q)
           h == Head(q)
           u == Append(o, r)
           q2 == t \o p
<1>1. Range(q) = {h} \cup Range(t) /\ t \in Seq(Refs) /\ h.mod = r.mod
  BY RangeOfTail
<1>2. Range(u) = Range(o) \cup {r}
  BY RangeOfAppend
<1>3. Range(q2) = Range(t) \cup Range(p)
  <2> HIDE DEF t
  <2> QED
    BY <1>1, RangeOfConcat
<1>4. r.mod = Root \/ \E e \in Range(o) : r.mod \in N(req, e.mod, e.build)
  <2>1. h \in Range(q)
    BY <1>1
  <2> HIDE DEF h
  <2> QED
    BY <1>1, <2>1 DEF Queued
<1>5. InOrder(u, req)
  BY <1>4, OrderGoesOn DEF Queued
<1> HIDE DEF t, h, u, q2
<1>6. ModsOf(q) = {r.mod} \cup ModsOf(t) /\ ModsOf(u) = ModsOf(o) \cup {r.mod} /\ ModsOf(q2) = ModsOf(t) \cup ModsOf(p)
  <2>1. ModsOf(q) = {r.mod} \cup ModsOf(t)
    BY <1>1 DEF ModsOf
  <2>2. ModsOf(u) = ModsOf(o) \cup {r.mod}
    BY <1>2 DEF ModsOf
  <2>3. ModsOf(q2) = ModsOf(t) \cup ModsOf(p)
    BY <1>3 DEF ModsOf
  <2> QED
    BY <2>1, <2>2, <2>3
<1>7. \A e \in Range(u) : e.build # 0
  BY <1>2 DEF Queued
<1>8. ModsOf(u) \subseteq w
  BY <1>6 DEF Queued
<1>9. ASSUME NEW e \in Range(u) PROVE N(req, e.mod, e.build) \subseteq ModsOf(u) \cup {LoaderPack} \cup ModsOf(q2)
  <2>1. CASE e \in Range(o)
    <3>1. N(req, e.mod, e.build) \subseteq ModsOf(o) \cup {LoaderPack} \cup ModsOf(q)
      BY <2>1 DEF Queued
    <3> QED
      BY <1>6, <3>1
  <2>2. CASE e = r
    BY <1>6, <2>2
  <2> QED
    BY <1>2, <2>1, <2>2
<1>10. ASSUME NEW x \in Range(q2) PROVE x.mod = Root \/ \E e \in Range(u) : x.mod \in N(req, e.mod, e.build)
  <2>1. CASE x \in Range(t)
    <3>1. x.mod = Root \/ \E e \in Range(o) : x.mod \in N(req, e.mod, e.build)
      BY <1>1, <2>1 DEF Queued
    <3> QED
      BY <1>2, <3>1
  <2>2. CASE x \in Range(p)
    <3>1. x.mod \in N(req, r.mod, r.build)
      BY <2>2 DEF ModsOf
    <3> QED
      BY <1>2, <3>1
  <2> QED
    BY <1>3, <2>1, <2>2
<1>11. Queued(q2, u, w, req)
  BY <1>5, <1>7, <1>8, <1>9, <1>10 DEF Queued
<1> QED
  BY <1>11 DEF q2, t, u

LEMMA SameMods ==
  ASSUME NEW q \in Seq(Refs), NEW u \in Seq(Refs), Len(u) = Len(q), \A i \in 1 .. Len(q) : u[i].mod = q[i].mod
  PROVE  ModsOf(u) = ModsOf(q)
<1> DEFINE n == Len(q)
<1>1. Range(u) = {u[i] : i \in 1 .. n}
  <2>1. Range(u) = {u[i] : i \in 1 .. Len(u)}
    BY RangeIs
  <2> QED
    BY <2>1
<1>2. Range(q) = {q[i] : i \in 1 .. n}
  BY RangeIs
<1>3. \A i \in 1 .. n : u[i].mod = q[i].mod
  OBVIOUS
<1> HIDE DEF n
<1>4. ASSUME NEW r \in Range(u) PROVE r.mod \in ModsOf(q)
  <2>1. PICK i \in 1 .. n : r = u[i]
    BY <1>1
  <2>2. q[i] \in Range(q) /\ q[i].mod = r.mod
    BY <1>2, <1>3, <2>1
  <2> QED
    BY <2>2 DEF ModsOf
<1>5. ASSUME NEW r \in Range(q) PROVE r.mod \in ModsOf(u)
  <2>1. PICK i \in 1 .. n : r = q[i]
    BY <1>2
  <2>2. u[i] \in Range(u) /\ u[i].mod = r.mod
    BY <1>1, <1>3, <2>1
  <2> QED
    BY <2>2 DEF ModsOf
<1>6. ModsOf(u) \subseteq ModsOf(q)
  BY <1>4 DEF ModsOf
<1>7. ModsOf(q) \subseteq ModsOf(u)
  BY <1>5 DEF ModsOf
<1> QED
  BY <1>6, <1>7

(* The head of the queue gets its build.                                    *)
WithBuild(q, b) == [q EXCEPT ![1].build = b]

LEMMA HeadIsBuilt ==
  ASSUME NEW q \in Seq(Refs), NEW o \in Seq(Refs), NEW v, NEW w, NEW req, NEW b \in 0 .. MaxBuild, Queued(q, o, v, req), q # <<>>, v \subseteq w
  PROVE  /\ WithBuild(q, b) \in Seq(Refs) /\ WithBuild(q, b) # <<>>
         /\ Head(WithBuild(q, b)).mod = Head(q).mod /\ Head(WithBuild(q, b)).build = b
         /\ Queued(WithBuild(q, b), o, w, req)
<1> DEFINE u == WithBuild(q, b)
<1>1. Len(q) \in Nat /\ Len(q) >= 1 /\ DOMAIN q = 1 .. Len(q) /\ (\A i \in 1 .. Len(q) : q[i] \in Refs) /\ Head(q) = q[1]
  BY EmptySeq
<1> DEFINE h == [q[1] EXCEPT !.build = b]
<1>2. h \in Refs /\ h.mod = q[1].mod /\ h.build = b
  <2>1. q[1] \in Refs
    BY <1>1
  <2> QED
    BY <2>1 DEF Refs
<1>3. u = [q EXCEPT ![1] = h]
  BY DEF WithBuild
<1> HIDE DEF h, u
<1>4. DOMAIN u = 1 .. Len(q) /\ u[1] = h /\ \A i \in 1 .. Len(q) : i # 1 => u[i] = q[i]
  BY <1>1, <1>3
<1>5. u \in Seq(Refs) /\ Len(u) = Len(q)
  <2>1. u = [i \in 1 .. Len(q) |-> IF i = 1 THEN h ELSE q[i]]
    BY <1>1, <1>3
  <2>2. \A i \in 1 .. Len(q) : (IF i = 1 THEN h ELSE q[i]) \in Refs
    BY <1>1, <1>2
  <2> QED
    BY <1>1, <2>1, <2>2
<1>6. u # <<>> /\ Head(u) = u[1]
  BY <1>1, <1>5, EmptySeq
<1>8. \A i \in 1 .. Len(q) : u[i].mod = q[i].mod
  BY <1>2, <1>4
<1>13. ModsOf(u) = ModsOf(q)
  BY <1>5, <1>8, SameMods
<1>14. \A r \in Range(u) : r.mod \in ModsOf(q)
  BY <1>13 DEF ModsOf
<1>15. \A m \in ModsOf(q) : m = Root \/ \E e \in Range(o) : m \in N(req, e.mod, e.build)
  BY DEF Queued, ModsOf
<1>16. Queued(u, o, w, req)
  BY <1>13, <1>14, <1>15 DEF Queued
<1> QED
  BY <1>1, <1>2, <1>4, <1>5, <1>6, <1>16 DEF u
(* The types of a resolution and of what a provider publishes.              *)
Phases == {"root", "loop", "slug", "traverse", "project", "list", "done", "failed"}
Jobs == [provider : {"thunderstore", "curseforge", "modrinth"}, at : Phases,
         queue : Seq(Refs), visited : SUBSET Projects, out : Seq(Refs),
         stack : Seq(Seq(Projects)), found : Seq(Projects), mod : Projects,
         query : 1 .. 5, attempt : 0 .. maxRetries - 1, faults : 0 .. MaxTransient, read : [Projects -> 0 .. MaxBuild],
         ended : BOOLEAN]
ShelfTypes == [requires : Required, top : [Projects -> 0 .. MaxBuild], pins : [Projects -> Builds],
               fits : [Projects -> [Builds -> {"exact", "base", "other"}]], restricted : SUBSET Projects]

(* What a resolution with a queue keeps.                                    *)
QueueInv(j, req) ==
  /\ j.at \in {"root", "loop", "slug", "done", "failed"}
  /\ Queued(j.queue, j.out, j.visited, req)
  /\ j.at = "root" => j.queue = <<>> /\ j.visited = {} /\ j.out = <<>>
  /\ j.at \in {"loop", "done"} => j.visited \subseteq ModsOf(j.out) \cup {LoaderPack}
  /\ j.at = "slug" => /\ j.provider = "curseforge"
                      /\ j.queue # <<>> /\ Head(j.queue).mod \in j.visited /\ Head(j.queue).mod \notin ModsOf(j.out)
                      /\ Head(j.queue).build # 0
                      /\ j.visited \subseteq ModsOf(j.out) \cup {LoaderPack, Head(j.queue).mod}
  /\ j.at = "done" => j.queue = <<>>
  /\ j.provider = "thunderstore" => \A r \in Range(j.queue) : r.build # 0

(* The files of a CurseForge resolution, and the one at the head.           *)
RunnableFiles(j, fits, restricted) ==
  /\ \A e \in Range(j.out) : fits[e.mod][e.build] = "exact" /\ e.mod \notin restricted
  /\ j.at = "slug" => fits[Head(j.queue).mod][Head(j.queue).build] = "exact"

LEMMA OneInQueue ==
  ASSUME NEW r \in Refs
  PROVE  <<r>> \in Seq(Refs) /\ Range(<<r>>) = {r} /\ Range(<<>>) = {} /\ ModsOf(<<>>) = {}
<1>1. Range(<<r>>) = {r} /\ Range(<<>>) = {}
  BY DEF Range
<1> QED
  BY <1>1 DEF ModsOf

LEMMA RootIsQueued ==
  ASSUME NEW req, NEW r \in Refs, r.mod = Root
  PROVE  Queued(<<r>>, <<>>, {}, req) /\ Queued(<<>>, <<>>, {}, req)
<1>1. Len(<<>>) = 0
  OBVIOUS
<1>2. InOrder(<<>>, req)
  BY <1>1 DEF InOrder
<1>3. \A x \in Range(<<r>>) : x.mod = Root
  BY OneInQueue
<1> QED
  BY <1>2, <1>3, OneInQueue DEF Queued

LEMMA TSRootStep ==
  ASSUME job \in Jobs, shelf \in ShelfTypes, QueueInv(job, shelf.requires), TSRoot
  PROVE  job' \in Jobs /\ QueueInv(job', shelf.requires)
<1> DEFINE r == [mod |-> Root, build |-> shelf.top[Root]]
           j == [job EXCEPT !.queue = <<r>>, !.at = "loop"]
<1>1. r \in Refs /\ r.mod = Root
  BY DependenciesAssumption DEF ShelfTypes, Refs
<1>2. job.queue = <<>> /\ job.visited = {} /\ job.out = <<>>
  BY DEF QueueInv, TSRoot
<1>3. CASE shelf.top[Root] # 0 /\ job' = j
  <2>1. r.build # 0
    BY <1>3
  <2> HIDE DEF r
  <2>2. <<r>> \in Seq(Refs) /\ Range(<<r>>) = {r} /\ Queued(<<r>>, <<>>, {}, shelf.requires)
    BY <1>1, OneInQueue, RootIsQueued
  <2>3. j \in Jobs /\ j.queue = <<r>> /\ j.at = "loop" /\ j.visited = {} /\ j.out = <<>> /\ j.provider = job.provider
    BY <1>2, <2>2 DEF Jobs, Phases
  <2> HIDE DEF j
  <2>4. QueueInv(j, shelf.requires)
    BY <2>1, <2>2, <2>3 DEF QueueInv
  <2> QED
    BY <1>3, <2>3, <2>4
<1>4. CASE Fail
  <2>1. job' \in Jobs /\ job'.at = "failed" /\ job'.queue = job.queue /\ job'.visited = job.visited /\ job'.out = job.out /\ job'.provider = job.provider
    BY <1>4 DEF Fail, Jobs, Phases
  <2> QED
    BY <2>1 DEF QueueInv
<1> QED
  BY <1>3, <1>4 DEF TSRoot
PageOf(p, b) == [i \in 1 .. Len(p) |-> [mod |-> p[i], build |-> b]]

LEMMA PageOfIs ==
  ASSUME NEW p \in Seq(Projects), NEW b \in 0 .. MaxBuild
  PROVE  PageOf(p, b) \in Seq(Refs) /\ ModsOf(PageOf(p, b)) = Range(p) /\ \A r \in Range(PageOf(p, b)) : r.build = b
<1> DEFINE n == Len(p)
           q == PageOf(p, b)
<1>1. n \in Nat /\ Range(p) = {p[i] : i \in 1 .. n} /\ \A i \in 1 .. n : p[i] \in Projects
  BY RangeIs
<1>2. q = [i \in 1 .. n |-> [mod |-> p[i], build |-> b]]
  BY DEF PageOf
<1> HIDE DEF n, q
<1>3. \A i \in 1 .. n : [mod |-> p[i], build |-> b] \in Refs
  BY <1>1 DEF Refs
<1>4. DOMAIN q = 1 .. n /\ \A i \in 1 .. n : q[i] = [mod |-> p[i], build |-> b]
  BY <1>2
<1>5. q \in Seq(Refs)
  BY <1>1, <1>2, <1>3
<1>6. Range(q) = {q[i] : i \in 1 .. n}
  BY <1>4 DEF Range
<1>7. \A i \in 1 .. n : q[i].mod = p[i] /\ q[i].build = b
  BY <1>4
<1>8. ModsOf(q) \subseteq Range(p)
  <2> SUFFICES ASSUME NEW r \in Range(q) PROVE r.mod \in Range(p)
    BY DEF ModsOf
  <2>1. PICK i \in 1 .. n : r = q[i]
    BY <1>6
  <2> QED
    BY <1>1, <1>7, <2>1
<1>9. Range(p) \subseteq ModsOf(q)
  <2> SUFFICES ASSUME NEW i \in 1 .. n PROVE p[i] \in ModsOf(q)
    BY <1>1
  <2>1. q[i] \in Range(q) /\ q[i].mod = p[i]
    BY <1>6, <1>7
  <2> QED
    BY <2>1 DEF ModsOf
<1>10. \A r \in Range(q) : r.build = b
  BY <1>6, <1>7
<1> QED
  BY <1>5, <1>8, <1>9, <1>10 DEF q

LEMMA PageIsQueued ==
  ASSUME NEW S \in SUBSET Projects, NEW b \in 0 .. MaxBuild
  PROVE  LET q == PageOf(SetToSeq(S), b) IN q \in Seq(Refs) /\ ModsOf(q) = S /\ \A r \in Range(q) : r.build = b
<1> DEFINE p == SetToSeq(S)
<1>1. p \in Seq(S) /\ Range(p) = S
  BY PageIs
<1> HIDE DEF p
<1>2. p \in Seq(Projects)
  BY <1>1
<1>3. PageOf(p, b) \in Seq(Refs) /\ ModsOf(PageOf(p, b)) = Range(p) /\ \A r \in Range(PageOf(p, b)) : r.build = b
  BY <1>2, PageOfIs
<1> QED
  BY <1>1, <1>3 DEF p

(* A failed resolution and one that is done keep what was resolved.          *)
LEMMA FailKeeps ==
  ASSUME job \in Jobs, Fail
  PROVE  job' \in Jobs /\ job'.at = "failed" /\ job'.queue = job.queue /\ job'.visited = job.visited
         /\ job'.out = job.out /\ job'.provider = job.provider /\ job'.stack = job.stack /\ job'.found = job.found
         /\ job'.mod = job.mod /\ job'.query = job.query /\ job'.attempt = job.attempt /\ job'.faults = job.faults /\ job'.read = job.read /\ job'.ended = job.ended
BY DEF Fail, Jobs, Phases

LEMMA QueueFails ==
  ASSUME job \in Jobs, Fail, NEW req, QueueInv(job, req)
  PROVE  job' \in Jobs /\ QueueInv(job', req)
BY FailKeeps DEF QueueInv

LEMMA TSVisitStep ==
  ASSUME job \in Jobs, shelf \in ShelfTypes, QueueInv(job, shelf.requires), TSVisit
  PROVE  job' \in Jobs /\ QueueInv(job', shelf.requires)
<1> DEFINE q == job.queue
           o == job.out
           v == job.visited
           req == shelf.requires
           r == Head(q)
           S == Needs(r.mod, r.build) \ (v \cup {r.mod})
           p == PageOf(SetToSeq(S), shelf.pins[r.mod])
           w == v \cup {r.mod}
           j1 == [job EXCEPT !.queue = Tail(q), !.visited = w]
           j2 == [job EXCEPT !.queue = Tail(q) \o p, !.visited = w, !.out = Append(o, r)]
<1>1. q \in Seq(Refs) /\ o \in Seq(Refs) /\ v \in SUBSET Projects /\ q # <<>> /\ job.at = "loop" /\ job.provider = "thunderstore"
  BY DEF Jobs, TSVisit
<1>2. Queued(q, o, v, req) /\ v \subseteq ModsOf(o) \cup {LoaderPack} /\ \A x \in Range(q) : x.build # 0
  BY <1>1 DEF QueueInv
<1>3. r \in Refs /\ Tail(q) \in Seq(Refs) /\ Range(q) = {r} \cup Range(Tail(q))
  BY <1>1, RangeOfTail
<1>4. req \in Required /\ shelf.pins \in [Projects -> Builds]
  BY DEF ShelfTypes
<1>5. \/ r.mod \in v \cup {LoaderPack} /\ job' = j1
      \/ r.mod \notin v \cup {LoaderPack} /\ job' = j2
      \/ Fail
  BY DEF TSVisit, PageOf
<1>6. Needs(r.mod, r.build) = N(req, r.mod, r.build)
  BY DEF Needs, N
<1> HIDE DEF r
<1>7. r.mod \in Projects /\ r.build \in 0 .. MaxBuild
  BY <1>3 DEF Refs
<1>8. w \in SUBSET Projects
  BY <1>1, <1>7
<1>9. S \in SUBSET Projects
  BY <1>4, <1>6, <1>7, NeedsProjects
<1>10. p \in Seq(Refs) /\ ModsOf(p) = S /\ \A x \in Range(p) : x.build # 0
  <2>1. shelf.pins[r.mod] \in Builds
    BY <1>4, <1>7
  <2>2. shelf.pins[r.mod] \in 0 .. MaxBuild /\ shelf.pins[r.mod] # 0
    BY <2>1, DependenciesAssumption DEF Builds
  <2> HIDE DEF S
  <2>3. p \in Seq(Refs) /\ ModsOf(p) = S /\ \A x \in Range(p) : x.build = shelf.pins[r.mod]
    BY <1>9, <2>2, PageIsQueued
  <2> QED
    BY <2>2, <2>3
<1> HIDE DEF p
<1>11. CASE r.mod \in v \cup {LoaderPack} /\ job' = j1
  <2>1. Queued(Tail(q), o, w, req)
    <3>1. r.mod \in ModsOf(o) \cup {LoaderPack} /\ v \subseteq w
      BY <1>2, <1>11
    <3>2. Head(q).mod \in ModsOf(o) \cup {LoaderPack}
      BY <3>1 DEF r
    <3> HIDE DEF q, o, v, w, req
    <3> QED
      BY <1>1, <1>2, <3>1, <3>2, HeadIsDropped
  <2>2. j1 \in Jobs /\ j1.queue = Tail(q) /\ j1.at = "loop" /\ j1.visited = w /\ j1.out = o /\ j1.provider = job.provider
    <3>1. Tail(q) \in Seq(Refs) /\ w \in SUBSET Projects
      BY <1>3, <1>8
    <3> HIDE DEF w
    <3> QED
      BY <1>1, <3>1 DEF Jobs
  <2>3. w \subseteq ModsOf(o) \cup {LoaderPack}
    BY <1>2, <1>11
  <2>4. \A x \in Range(Tail(q)) : x.build # 0
    BY <1>2, <1>3
  <2> HIDE DEF j1, q, o, v, w, req
  <2>5. QueueInv(j1, req)
    BY <2>1, <2>2, <2>3, <2>4 DEF QueueInv
  <2> QED
    BY <1>11, <2>2, <2>5 DEF req
<1>12. CASE r.mod \notin v \cup {LoaderPack} /\ job' = j2
  <2> DEFINE u == Append(o, r)
             q2 == Tail(q) \o p
  <2>1. r.mod \notin ModsOf(o)
    BY <1>2, <1>12 DEF Queued
  <2>2. r.build # 0 /\ Head(q).mod = r.mod
    BY <1>2, <1>3 DEF r
  <2>3. ModsOf(p) \subseteq N(req, r.mod, r.build) /\ N(req, r.mod, r.build) \subseteq ModsOf(p) \cup ModsOf(o) \cup {LoaderPack, r.mod}
    BY <1>2, <1>6, <1>10
  <2>4. Queued(q2, u, w, req)
    <3>1. v \cup {r.mod} \subseteq w
      OBVIOUS
    <3> HIDE DEF q, o, v, w, req
    <3> QED
      BY <1>1, <1>2, <1>3, <1>10, <2>1, <2>2, <2>3, <3>1, HeadIsListed
  <2>5. u \in Seq(Refs) /\ Range(u) = Range(o) \cup {r}
    BY <1>1, <1>3, RangeOfAppend
  <2>6. q2 \in Seq(Refs) /\ Range(q2) = Range(Tail(q)) \cup Range(p)
    <3> DEFINE t == Tail(q)
    <3>1. t \in Seq(Refs)
      BY <1>3
    <3> HIDE DEF t
    <3>2. t \o p \in Seq(Refs) /\ Range(t \o p) = Range(t) \cup Range(p)
      BY <1>10, <3>1, RangeOfConcat
    <3> QED
      BY <3>2 DEF t
  <2>7. \A x \in Range(q2) : x.build # 0
    BY <1>2, <1>3, <1>10, <2>6
  <2>8. ModsOf(u) = ModsOf(o) \cup {r.mod}
    BY <2>5 DEF ModsOf
  <2> HIDE DEF u, q2
  <2>9. w \subseteq ModsOf(u) \cup {LoaderPack}
    BY <1>2, <2>8
  <2>10. j2 \in Jobs /\ j2.queue = q2 /\ j2.at = "loop" /\ j2.visited = w /\ j2.out = u /\ j2.provider = job.provider
    <3>1. j2 = [job EXCEPT !.queue = q2, !.visited = w, !.out = u]
      BY DEF q2, u
    <3> HIDE DEF j2, w
    <3> QED
      BY <1>1, <1>8, <2>5, <2>6, <3>1 DEF Jobs
  <2> HIDE DEF j2, q, o, v, w, req
  <2>11. QueueInv(j2, req)
    BY <2>4, <2>7, <2>9, <2>10 DEF QueueInv
  <2> QED
    BY <1>12, <2>10, <2>11 DEF req
<1>13. CASE Fail
  BY <1>13, QueueFails
<1> QED
  BY <1>5, <1>11, <1>12, <1>13
CFInv(j, s) == QueueInv(j, s.requires) /\ RunnableFiles(j, s.fits, s.restricted)

LEMMA CFFailKeeps ==
  ASSUME job \in Jobs, Fail, NEW s, CFInv(job, s)
  PROVE  job' \in Jobs /\ CFInv(job', s)
BY FailKeeps, QueueFails DEF CFInv, RunnableFiles

LEMMA CFRootStep ==
  ASSUME job \in Jobs, shelf \in ShelfTypes, CFInv(job, shelf), CFRoot
  PROVE  job' \in Jobs /\ CFInv(job', shelf)
<1> DEFINE r == [mod |-> Root, build |-> 0]
           j == [job EXCEPT !.queue = <<r>>, !.at = "loop"]
<1>1. r \in Refs /\ r.mod = Root
  BY DependenciesAssumption DEF Refs
<1>2. job.queue = <<>> /\ job.visited = {} /\ job.out = <<>> /\ job.provider = "curseforge"
  BY DEF QueueInv, CFInv, CFRoot
<1>3. CASE job' = j
  <2> HIDE DEF r
  <2>1. <<r>> \in Seq(Refs) /\ Range(<<>>) = {} /\ Queued(<<r>>, <<>>, {}, shelf.requires)
    BY <1>1, OneInQueue, RootIsQueued
  <2>2. j \in Jobs /\ j.queue = <<r>> /\ j.at = "loop" /\ j.visited = {} /\ j.out = <<>> /\ j.provider = job.provider
    BY <1>2, <2>1 DEF Jobs, Phases
  <2> HIDE DEF j
  <2>3. QueueInv(j, shelf.requires)
    BY <1>2, <2>1, <2>2 DEF QueueInv
  <2>4. RunnableFiles(j, shelf.fits, shelf.restricted)
    BY <2>1, <2>2 DEF RunnableFiles
  <2> QED
    BY <1>3, <2>2, <2>3, <2>4 DEF CFInv
<1>4. CASE Fail
  BY <1>4, CFFailKeeps
<1> QED
  BY <1>3, <1>4 DEF CFRoot

(* latestFile answers a build that is for the world's version.               *)
LEMMA LatestFileFits ==
  ASSUME shelf \in ShelfTypes, NEW m \in Projects, latestFile(m) # 0
  PROVE  latestFile(m) \in Builds /\ shelf.fits[m][latestFile(m)] = "exact"
<1> DEFINE S == queryVersions("exact", m)
<1>1. S # {} /\ latestFile(m) = Max(S)
  BY DEF latestFile
<1>2. shelf.top[m] \in 0 .. MaxBuild
  BY DEF ShelfTypes
<1>3. MaxBuild \in Nat
  BY DependenciesAssumption
<1>4. \A b \in S : b \in 1 .. shelf.top[m] /\ shelf.fits[m][b] = "exact"
  BY DEF queryVersions, AnswersFor
<1> HIDE DEF S
<1>5. S \in SUBSET Nat /\ \A b \in S : b <= MaxBuild /\ b \in Builds
  BY <1>2, <1>3, <1>4 DEF Builds
<1>6. Max(S) \in S
  BY <1>1, <1>3, <1>5, MaxIsGreatest
<1> QED
  BY <1>1, <1>4, <1>5, <1>6

LEMMA CFFileStep ==
  ASSUME job \in Jobs, shelf \in ShelfTypes, CFInv(job, shelf), CFFile
  PROVE  job' \in Jobs /\ CFInv(job', shelf)
<1> DEFINE q == job.queue
           o == job.out
           v == job.visited
           req == shelf.requires
           m == Head(q).mod
           b == latestFile(m)
           w == v \cup {m}
           u == WithBuild(q, b)
           j1 == [job EXCEPT !.queue = Tail(q)]
           j2 == [job EXCEPT !.queue = u, !.visited = w, !.at = "slug"]
<1>1. q \in Seq(Refs) /\ o \in Seq(Refs) /\ v \in SUBSET Projects /\ q # <<>> /\ job.at = "loop" /\ job.provider = "curseforge"
  BY DEF Jobs, CFFile
<1>2. Queued(q, o, v, req) /\ v \subseteq ModsOf(o) \cup {LoaderPack}
  BY <1>1 DEF QueueInv, CFInv
<1>3. Head(q) \in Refs /\ Tail(q) \in Seq(Refs)
  BY <1>1, RangeOfTail
<1>4. \A e \in Range(o) : shelf.fits[e.mod][e.build] = "exact" /\ e.mod \notin shelf.restricted
  BY DEF CFInv, RunnableFiles
<1>5. \/ m \in v /\ job' = j1
      \/ m \notin v /\ b # 0 /\ job' = j2
      \/ Fail
  BY DEF CFFile, WithBuild
<1>6. m \in Projects
  BY <1>3 DEF Refs
<1>7. CASE m \in v /\ job' = j1
  <2>1. Head(q).mod \in ModsOf(o) \cup {LoaderPack}
    BY <1>2, <1>7
  <2>2. j1 \in Jobs /\ j1.queue = Tail(q) /\ j1.at = "loop" /\ j1.visited = v /\ j1.out = o /\ j1.provider = "curseforge"
    BY <1>1, <1>3 DEF Jobs
  <2> HIDE DEF q, o, v, req, j1
  <2>3. Queued(Tail(q), o, v, req)
    BY <1>1, <1>2, <2>1, HeadIsDropped
  <2>4. QueueInv(j1, req)
    BY <1>2, <2>2, <2>3 DEF QueueInv
  <2>5. RunnableFiles(j1, shelf.fits, shelf.restricted)
    BY <1>4, <2>2 DEF RunnableFiles
  <2> QED
    BY <1>7, <2>2, <2>4, <2>5 DEF CFInv, req
<1>8. CASE m \notin v /\ b # 0 /\ job' = j2
  <2>1. b \in Builds /\ shelf.fits[m][b] = "exact"
    <3> HIDE DEF m
    <3> QED
      BY <1>6, <1>8, LatestFileFits
  <2>2. b \in 0 .. MaxBuild
    BY <2>1, DependenciesAssumption DEF Builds
  <2>3. m \notin ModsOf(o) /\ v \subseteq w /\ m \in w
    BY <1>2, <1>8 DEF Queued
  <2>4. w \in SUBSET Projects
    BY <1>1, <1>6
  <2> HIDE DEF b
  <2>5. /\ u \in Seq(Refs) /\ u # <<>> /\ Head(u).mod = m /\ Head(u).build = b
        /\ Queued(u, o, w, req)
    <3> HIDE DEF q, o, v, req, w
    <3> QED
      BY <1>1, <1>2, <2>2, <2>3, HeadIsBuilt
  <2>6. j2 \in Jobs /\ j2.queue = u /\ j2.at = "slug" /\ j2.visited = w /\ j2.out = o /\ j2.provider = "curseforge"
    <3> HIDE DEF u, w
    <3> QED
      BY <1>1, <2>4, <2>5 DEF Jobs, Phases
  <2>7. w \subseteq ModsOf(o) \cup {LoaderPack, m}
    BY <1>2
  <2> HIDE DEF q, o, v, w, req, j2, u, m
  <2>8. QueueInv(j2, req)
    BY <1>8, <2>1, <2>3, <2>5, <2>6, <2>7 DEF QueueInv
  <2>9. RunnableFiles(j2, shelf.fits, shelf.restricted)
    BY <1>4, <2>1, <2>5, <2>6 DEF RunnableFiles
  <2> QED
    BY <1>8, <2>6, <2>8, <2>9 DEF CFInv, req
<1>9. CASE Fail
  BY <1>9, CFFailKeeps
<1> QED
  BY <1>5, <1>7, <1>8, <1>9

LEMMA CFSlugStep ==
  ASSUME job \in Jobs, shelf \in ShelfTypes, CFInv(job, shelf), CFSlug
  PROVE  job' \in Jobs /\ CFInv(job', shelf)
<1> DEFINE q == job.queue
           o == job.out
           v == job.visited
           req == shelf.requires
           r == Head(q)
           S == Needs(r.mod, r.build) \ v
           p == PageOf(SetToSeq(S), 0)
           u == Append(o, r)
           q2 == Tail(q) \o p
           j == [job EXCEPT !.queue = q2, !.out = u, !.at = "loop"]
<1>1. q \in Seq(Refs) /\ o \in Seq(Refs) /\ v \in SUBSET Projects /\ job.at = "slug"
  BY DEF Jobs, CFSlug
<1>2. /\ Queued(q, o, v, req) /\ job.provider = "curseforge"
      /\ q # <<>> /\ r.mod \in v /\ r.mod \notin ModsOf(o) /\ r.build # 0
      /\ v \subseteq ModsOf(o) \cup {LoaderPack, r.mod}
  BY <1>1 DEF QueueInv, CFInv
<1>3. r \in Refs /\ Tail(q) \in Seq(Refs) /\ Range(q) = {r} \cup Range(Tail(q))
  BY <1>1, <1>2, RangeOfTail
<1>4. /\ \A e \in Range(o) : shelf.fits[e.mod][e.build] = "exact" /\ e.mod \notin shelf.restricted
      /\ shelf.fits[r.mod][r.build] = "exact"
  BY <1>1 DEF CFInv, RunnableFiles
<1>5. req \in Required
  BY DEF ShelfTypes
<1>6. Needs(r.mod, r.build) = N(req, r.mod, r.build)
  BY DEF Needs, N
<1>7. (r.mod \notin shelf.restricted /\ job' = j) \/ Fail
  BY DEF CFSlug, PageOf, GetMod
<1>8. Head(q).mod = r.mod
  OBVIOUS
<1> HIDE DEF r
<1>9. r.mod \in Projects /\ r.build \in 0 .. MaxBuild
  BY <1>3 DEF Refs
<1>10. S \in SUBSET Projects
  BY <1>5, <1>6, <1>9, NeedsProjects
<1>11. p \in Seq(Refs) /\ ModsOf(p) = S
  <2> HIDE DEF S
  <2>1. 0 \in 0 .. MaxBuild
    BY DependenciesAssumption
  <2> QED
    BY <1>10, <2>1, PageIsQueued
<1> HIDE DEF p
<1>12. CASE r.mod \notin shelf.restricted /\ job' = j
  <2>1. ModsOf(p) \subseteq N(req, r.mod, r.build) /\ N(req, r.mod, r.build) \subseteq ModsOf(p) \cup ModsOf(o) \cup {LoaderPack, r.mod}
    BY <1>2, <1>6, <1>11
  <2>2. Queued(q2, u, v, req)
    <3>1. v \cup {r.mod} \subseteq v
      BY <1>2
    <3> HIDE DEF q, o, v, req
    <3> QED
      BY <1>1, <1>2, <1>3, <1>8, <1>11, <2>1, <3>1, HeadIsListed
  <2>3. u \in Seq(Refs) /\ Range(u) = Range(o) \cup {r}
    BY <1>1, <1>3, RangeOfAppend
  <2>4. q2 \in Seq(Refs)
    BY <1>3, <1>11
  <2>5. ModsOf(u) = ModsOf(o) \cup {r.mod}
    BY <2>3 DEF ModsOf
  <2> HIDE DEF u, q2
  <2>6. v \subseteq ModsOf(u) \cup {LoaderPack}
    BY <1>2, <2>5
  <2>7. j \in Jobs /\ j.queue = q2 /\ j.at = "loop" /\ j.visited = v /\ j.out = u /\ j.provider = "curseforge"
    BY <1>2, <2>3, <2>4 DEF Jobs, Phases
  <2> HIDE DEF j, q, o, v, req
  <2>8. QueueInv(j, req)
    BY <2>2, <2>6, <2>7 DEF QueueInv
  <2>9. RunnableFiles(j, shelf.fits, shelf.restricted)
    BY <1>4, <1>12, <2>3, <2>7 DEF RunnableFiles
  <2> QED
    BY <1>12, <2>7, <2>8, <2>9 DEF CFInv, req
<1>13. CASE Fail
  BY <1>13, CFFailKeeps
<1> QED
  BY <1>7, <1>12, <1>13
LEMMA QueueEnds ==
  ASSUME job \in Jobs, NEW req, QueueInv(job, req), QueueDone
  PROVE  job' \in Jobs /\ QueueInv(job', req) /\ job'.at = "done" /\ job'.out = job.out /\ job'.provider = job.provider
<1>1. job.at = "loop" /\ job.queue = <<>>
  BY DEF QueueDone
<1>2. job' \in Jobs /\ job'.at = "done" /\ job'.queue = job.queue /\ job'.visited = job.visited
      /\ job'.out = job.out /\ job'.provider = job.provider
  BY DEF QueueDone, Jobs, Phases
<1> QED
  BY <1>1, <1>2 DEF QueueInv

(* What the invariant says of a list that is returned.                       *)
LEMMA QueueIsClosed ==
  ASSUME job \in Jobs, QueueInv(job, shelf.requires), job.provider # "modrinth"
  PROVE  ResolvedIsClosed
<1> SUFFICES ASSUME job.at = "done", NEW e \in Range(job.out) PROVE EntryNeeds(e) \subseteq Listed \cup {LoaderPack}
  BY DEF ResolvedIsClosed
<1>1. job.queue = <<>> /\ Queued(job.queue, job.out, job.visited, shelf.requires)
  BY DEF QueueInv
<1>2. ModsOf(<<>>) = {}
  BY DEF ModsOf, Range
<1>3. N(shelf.requires, e.mod, e.build) \subseteq ModsOf(job.out) \cup {LoaderPack}
  BY <1>1, <1>2 DEF Queued
<1>4. Listed = ModsOf(job.out)
  BY DEF Listed, ModsOf
<1>5. EntryNeeds(e) = N(shelf.requires, e.mod, e.build)
  BY <1>1 DEF Queued, EntryNeeds, Needs, N
<1> QED
  BY <1>3, <1>4, <1>5

LEMMA QueueIsInOrder ==
  ASSUME job \in Jobs, QueueInv(job, shelf.requires), job.provider # "modrinth"
  PROVE  ListedOnceAndNeeded
<1> DEFINE o == job.out
<1>1. o \in Seq(Refs)
  BY DEF Jobs
<1>2. InOrder(o, shelf.requires)
  BY DEF QueueInv, Queued
<1> HIDE DEF o
<1>3. DOMAIN o = 1 .. Len(o)
  BY <1>1
<1> SUFFICES ASSUME NEW i \in 1 .. Len(o)
             PROVE  LET earlier == {o[k] : k \in 1..(i - 1)}
                    IN /\ \A e \in earlier : e.mod # o[i].mod
                       /\ \/ o[i].mod = Root /\ job.provider # "modrinth"
                          \/ \E e \in earlier : o[i].mod \in Needs(e.mod, e.build) \cup Needs(e.mod, job.read[e.mod])
                          \/ job.provider = "modrinth" /\ o[i].mod \in Needs(Root, job.read[Root])
  BY <1>3 DEF ListedOnceAndNeeded, o
<1>4. \A k \in 1 .. i - 1 : o[k].mod # o[i].mod
  BY <1>2 DEF InOrder
<1>5. o[i].mod = Root \/ \E k \in 1 .. i - 1 : o[i].mod \in N(shelf.requires, o[k].mod, o[k].build)
  BY <1>2 DEF InOrder
<1>6. \A m, b : Needs(m, b) = N(shelf.requires, m, b)
  BY DEF Needs, N
<1> QED
  BY <1>4, <1>5, <1>6
-----------------------------------------------------------------------------
(* Resolutions with a stack                                                 *)
Stacks == Seq(Seq(Projects))
StackMods(s) == UNION {Range(s[i]) : i \in 1 .. Len(s)}

Cut(s, n) == SubSeq(s, 1, n)

LEMMA StackIsCut ==
  ASSUME NEW s \in Stacks, NEW n \in 1 .. Len(s), s[n] # <<>>, \A i \in 1 .. Len(s) : n < i => s[i] = <<>>
  PROVE  Cut(s, n) \in Stacks /\ Cut(s, n) # <<>> /\ Cut(s, n)[Len(Cut(s, n))] # <<>> /\ StackMods(Cut(s, n)) = StackMods(s)
<1> DEFINE t == Cut(s, n)
<1>1. Len(s) \in Nat /\ n \in Int /\ 1 <= n /\ \A i \in 1 .. n : s[i] \in Seq(Projects) /\ i \in 1 .. Len(s)
  BY DEF Stacks
<1>2. t \in Seq(Seq(Projects)) /\ Len(t) = n /\ \A i \in 1 .. n : t[i] = s[i]
  <2>1. /\ SubSeq(s, 1, n) \in Seq(Seq(Projects))
        /\ Len(SubSeq(s, 1, n)) = IF 1 <= n THEN n - 1 + 1 ELSE 0
        /\ \A i \in 1 .. n - 1 + 1 : SubSeq(s, 1, n)[i] = s[1 + i - 1]
    BY <1>1, SubSeqProperties
  <2>2. n - 1 + 1 = n /\ \A i \in 1 .. n : 1 + i - 1 = i
    BY <1>1
  <2> QED
    BY <1>1, <2>1, <2>2 DEF Cut
<1> HIDE DEF t
<1>3. t # <<>> /\ t[Len(t)] # <<>>
  BY <1>1, <1>2, EmptySeq
<1>4. Range(<<>>) = {}
  BY DEF Range
<1>5. StackMods(t) = StackMods(s)
  <2>1. \A m : m \in StackMods(t) <=> \E i \in 1 .. n : m \in Range(s[i])
    BY <1>2 DEF StackMods
  <2>2. \A m : m \in StackMods(s) <=> \E i \in 1 .. Len(s) : m \in Range(s[i])
    BY DEF StackMods
  <2>3. \A i \in 1 .. Len(s) : i \notin 1 .. n => Range(s[i]) = {}
    BY <1>1, <1>4
  <2> QED
    BY <1>1, <2>1, <2>2, <2>3
<1> QED
  BY <1>2, <1>3, <1>5 DEF Stacks, t

(* Where a traversal goes on.                                               *)
Continued(c, j) ==
  /\ c \in Jobs
  /\ c.provider = j.provider /\ c.queue = j.queue /\ c.visited = j.visited /\ c.out = j.out
  /\ c.found = j.found /\ c.faults = j.faults /\ c.read = j.read /\ c.ended = j.ended
  /\ StackMods(c.stack) = StackMods(j.stack)
  /\ \/ c.at = "project" /\ c.stack # <<>> /\ c.stack[Len(c.stack)] # <<>> /\ c.attempt = 0
     \/ /\ c.at = "list" /\ c.stack = <<>> /\ c.attempt = 0 /\ c.query = 1
        /\ Len(j.out) < Len(j.found) /\ c.mod = j.found[Len(j.out) + 1]
     \/ c.at = "done" /\ c.stack = <<>> /\ c.attempt = j.attempt /\ ~ (Len(j.out) < Len(j.found))

LEMMA ContinueIs ==
  ASSUME NEW j \in Jobs
  PROVE  Continued(Continue(j), j)
<1> DEFINE s == j.stack
           open == {i \in DOMAIN s : s[i] # <<>>}
           c == Continue(j)
           t == Cut(s, Max(open))
           j1 == [j EXCEPT !.stack = t, !.at = "project", !.attempt = 0]
           j2 == [j EXCEPT !.stack = <<>>, !.at = "list", !.query = 1, !.attempt = 0, !.mod = j.found[Len(j.out) + 1]]
           j3 == [j EXCEPT !.stack = <<>>, !.at = "done"]
<1>1. s \in Stacks /\ DOMAIN s = 1 .. Len(s) /\ Len(s) \in Nat
  BY DEF Jobs, Stacks
<1>2. /\ open # {} => c = j1
      /\ open = {} /\ Len(j.out) < Len(j.found) => c = j2
      /\ open = {} /\ ~ (Len(j.out) < Len(j.found)) => c = j3
  BY DEF Continue, Cut
<1>3. 0 \in 0 .. maxRetries - 1 /\ 1 \in 1 .. 5
  BY DEF maxRetries
<1>4. <<>> \in Stacks
  BY DEF Stacks
<1>5. CASE open # {}
  <2>1. open \in SUBSET Nat /\ \A i \in open : i <= Len(s)
    BY <1>1
  <2>2. Max(open) \in open /\ \A i \in open : i <= Max(open)
    <3> HIDE DEF open
    <3> QED
      BY <1>1, <1>5, <2>1, MaxIsGreatest
  <2>3. Max(open) \in 1 .. Len(s) /\ s[Max(open)] # <<>>
    BY <1>1, <2>2
  <2>4. \A i \in 1 .. Len(s) : Max(open) < i => s[i] = <<>>
    <3> SUFFICES ASSUME NEW i \in 1 .. Len(s), Max(open) < i, s[i] # <<>> PROVE FALSE
      OBVIOUS
    <3>1. i \in open
      BY <1>1
    <3>2. i <= Max(open)
      BY <2>2, <3>1
    <3> HIDE DEF open
    <3> QED
      BY <1>1, <2>3, <3>2
  <2>5. t \in Stacks /\ t # <<>> /\ t[Len(t)] # <<>> /\ StackMods(t) = StackMods(s)
    <3> DEFINE n == Max(open)
    <3>1. n \in 1 .. Len(s) /\ s[n] # <<>> /\ (\A i \in 1 .. Len(s) : n < i => s[i] = <<>>) /\ t = Cut(s, n)
      BY <2>3, <2>4
    <3> HIDE DEF n, t, s
    <3> QED
      BY <1>1, <3>1, StackIsCut
  <2> HIDE DEF t, open
  <2>6. j1 \in Jobs /\ j1.stack = t /\ j1.at = "project" /\ j1.attempt = 0 /\ j1.provider = j.provider /\ j1.queue = j.queue
        /\ j1.visited = j.visited /\ j1.out = j.out /\ j1.found = j.found /\ j1.faults = j.faults /\ j1.read = j.read /\ j1.ended = j.ended
    BY <1>3, <2>5 DEF Jobs, Phases, Stacks
  <2>7. c = j1
    BY <1>2, <1>5
  <2> HIDE DEF j1, c
  <2> QED
    BY <2>5, <2>6, <2>7 DEF Continued, c
<1>6. ASSUME open = {} PROVE StackMods(s) = {} /\ StackMods(<<>>) = {}
  <2>1. \A i \in 1 .. Len(s) : s[i] = <<>>
    BY <1>1, <1>6
  <2>2. Range(<<>>) = {} /\ Len(<<>>) = 0
    BY DEF Range
  <2> HIDE DEF s
  <2>3. \A m : m \notin StackMods(s)
    BY <2>1, <2>2 DEF StackMods
  <2>4. \A m : m \notin StackMods(<<>>)
    BY <2>2 DEF StackMods
  <2> QED
    BY <2>3, <2>4
<1>7. CASE open = {} /\ Len(j.out) < Len(j.found)
  <2>1. j.found[Len(j.out) + 1] \in Projects
    <3>1. j.found \in Seq(Projects) /\ Len(j.out) \in Nat /\ Len(j.found) \in Nat
      BY DEF Jobs
    <3>2. Len(j.out) + 1 \in 1 .. Len(j.found)
      BY <1>7, <3>1
    <3> QED
      BY <3>1, <3>2
  <2>2. StackMods(<<>>) = StackMods(s)
    BY <1>6, <1>7
  <2>3. j2 \in Jobs /\ j2.stack = <<>> /\ j2.at = "list" /\ j2.attempt = 0 /\ j2.query = 1 /\ j2.mod = j.found[Len(j.out) + 1]
        /\ j2.provider = j.provider /\ j2.queue = j.queue
        /\ j2.visited = j.visited /\ j2.out = j.out /\ j2.found = j.found /\ j2.faults = j.faults /\ j2.read = j.read /\ j2.ended = j.ended
    BY <1>3, <1>4, <2>1 DEF Jobs, Phases, Stacks
  <2>4. c = j2
    BY <1>2, <1>7
  <2> HIDE DEF j2, c
  <2> QED
    BY <1>7, <2>2, <2>3, <2>4 DEF Continued, c
<1>8. CASE open = {} /\ ~ (Len(j.out) < Len(j.found))
  <2>1. StackMods(<<>>) = StackMods(s)
    BY <1>6, <1>8
  <2>2. j3 \in Jobs /\ j3.stack = <<>> /\ j3.at = "done" /\ j3.attempt = j.attempt /\ j3.provider = j.provider /\ j3.queue = j.queue
        /\ j3.visited = j.visited /\ j3.out = j.out /\ j3.found = j.found /\ j3.faults = j.faults /\ j3.read = j.read /\ j3.ended = j.ended
    BY <1>4 DEF Jobs, Phases, Stacks
  <2>3. c = j3
    BY <1>2, <1>8
  <2> HIDE DEF j3, c
  <2> QED
    BY <1>8, <2>1, <2>2, <2>3 DEF Continued, c
<1> QED
  BY <1>5, <1>7, <1>8
LEMMA StackIsPushed ==
  ASSUME NEW s \in Stacks, NEW d \in Seq(Projects)
  PROVE  Append(s, d) \in Stacks /\ StackMods(Append(s, d)) = StackMods(s) \cup Range(d)
<1> DEFINE n == Len(s)
           t == Append(s, d)
<1>1. t \in Seq(Seq(Projects)) /\ Len(t) = n + 1 /\ n \in Nat /\ t[n + 1] = d /\ \A i \in 1 .. n : t[i] = s[i]
  BY AppendProperties, LenProperties DEF Stacks
<1>2. \A m : m \in StackMods(s) <=> \E i \in 1 .. n : m \in Range(s[i])
  BY DEF StackMods
<1> HIDE DEF t, n
<1>3. \A m : m \in StackMods(t) <=> \E i \in 1 .. n + 1 : m \in Range(t[i])
  BY <1>1 DEF StackMods
<1>4. \A i : i \in 1 .. n + 1 <=> i \in 1 .. n \/ i = n + 1
  BY <1>1
<1>5. StackMods(t) = StackMods(s) \cup Range(d)
  BY <1>1, <1>2, <1>3, <1>4
<1> QED
  BY <1>1, <1>5 DEF t, Stacks

Popped(s) == [s EXCEPT ![Len(s)] = Tail(@)]

LEMMA StackIsPopped ==
  ASSUME NEW s \in Stacks, s # <<>>, s[Len(s)] # <<>>
  PROVE  Popped(s) \in Stacks /\ Head(s[Len(s)]) \in Projects /\ StackMods(s) = StackMods(Popped(s)) \cup {Head(s[Len(s)])}
<1> DEFINE n == Len(s)
           f == s[n]
           g == Tail(f)
           t == Popped(s)
<1>1. n \in Nat /\ n \in 1 .. n /\ DOMAIN s = 1 .. n /\ \A i \in 1 .. n : s[i] \in Seq(Projects)
  BY EmptySeq DEF Stacks
<1>2. f \in Seq(Projects) /\ f # <<>>
  BY <1>1
<1>3. g \in Seq(Projects) /\ Head(f) \in Projects /\ Range(f) = {Head(f)} \cup Range(g)
  <2> HIDE DEF f
  <2> QED
    BY <1>2, RangeOfTail
<1>4. t = [s EXCEPT ![n] = g]
  BY DEF Popped
<1>5. s[n] = f
  OBVIOUS
<1> HIDE DEF t, g, f
<1>6. DOMAIN t = 1 .. n /\ t[n] = g /\ \A i \in 1 .. n : i # n => t[i] = s[i]
  BY <1>1, <1>4
<1>7. t \in Stacks /\ Len(t) = n
  <2>1. t = [i \in 1 .. n |-> IF i = n THEN g ELSE s[i]]
    BY <1>1, <1>4
  <2>2. \A i \in 1 .. n : (IF i = n THEN g ELSE s[i]) \in Seq(Projects)
    BY <1>1, <1>3
  <2> DEFINE A == Seq(Projects)
  <2>3. t \in [1 .. n -> A]
    BY <2>1, <2>2
  <2> HIDE DEF n, A
  <2>4. t \in Seq(A) /\ Len(t) = n
    BY <1>1, <1>6, <2>3
  <2> QED
    BY <2>4 DEF Stacks, A
<1>8. \A m : m \in StackMods(s) <=> \E i \in 1 .. n : m \in Range(s[i])
  BY DEF StackMods
<1>9. \A m : m \in StackMods(t) <=> \E i \in 1 .. n : m \in Range(t[i])
  BY <1>7 DEF StackMods
<1> HIDE DEF n
<1>10. \A m : m \in StackMods(s) => m \in StackMods(t) \/ m = Head(f)
  <2> SUFFICES ASSUME NEW m, NEW i \in 1 .. n, m \in Range(s[i]), m # Head(f) PROVE m \in Range(t[i])
    BY <1>8, <1>9
  <2>1. CASE i = n
    BY <1>3, <1>5, <1>6, <2>1
  <2>2. CASE i # n
    BY <1>6, <2>2
  <2> QED
    BY <2>1, <2>2
<1>11. \A m : m \in StackMods(t) => m \in StackMods(s)
  <2> SUFFICES ASSUME NEW m, NEW i \in 1 .. n, m \in Range(t[i]) PROVE m \in Range(s[i])
    BY <1>8, <1>9
  <2>1. CASE i = n
    BY <1>3, <1>5, <1>6, <2>1
  <2>2. CASE i # n
    BY <1>6, <2>2
  <2> QED
    BY <2>1, <2>2
<1>12. Head(f) \in StackMods(s)
  BY <1>1, <1>3, <1>5, <1>8
<1>13. StackMods(s) = StackMods(t) \cup {Head(f)}
  BY <1>10, <1>11, <1>12
<1> QED
  BY <1>3, <1>7, <1>13 DEF f, t, n

(* Whom a mod was found through: the root, or one of the first n found.      *)
Known(m, n, found, rd, req) ==
  m \in N(req, Root, rd[Root]) \/ \E k \in 1 .. n : m \in N(req, found[k], rd[found[k]])

FoundInOrder(found, rd, req) ==
  \A i \in 1 .. Len(found) : (\A k \in 1 .. i - 1 : found[k] # found[i]) /\ Known(found[i], i - 1, found, rd, req)

(* What a traversal keeps whatever its requests are answered.                *)
TreeCore(j, req) ==
  /\ Range(j.found) \subseteq j.visited /\ j.visited \subseteq {Root} \cup Range(j.found)
  /\ FoundInOrder(j.found, j.read, req)
  /\ Len(j.out) <= Len(j.found) /\ \A i \in 1 .. Len(j.out) : j.out[i].mod = j.found[i]
  /\ \A m \in StackMods(j.stack) : Known(m, Len(j.found), j.found, j.read, req)
  /\ \A x \in Projects \ j.visited : j.read[x] = 0

TreeInv(j, req) ==
  /\ TreeCore(j, req)
  /\ j.at \in {"root", "traverse", "project", "list", "done", "failed"}
  /\ j.at = "root" => j.visited = {} /\ j.found = <<>> /\ j.out = <<>> /\ j.stack = <<>> /\ j.attempt = 0
  /\ j.at \in {"traverse", "project", "list", "done"} => Root \in j.visited
  /\ j.at = "traverse" => j.mod \in j.visited /\ j.read[j.mod] = 0
  /\ j.at = "project" => j.stack # <<>> /\ j.stack[Len(j.stack)] # <<>>
  /\ j.at \in {"list", "done"} => j.stack = <<>>
  /\ j.at = "list" => Len(j.out) < Len(j.found) /\ j.mod = j.found[Len(j.out) + 1] /\ j.query <= 3
  /\ j.at = "done" => ~ (Len(j.out) < Len(j.found))

LEMMA TreeGoesOn ==
  ASSUME NEW j \in Jobs, NEW c, NEW req, TreeCore(j, req), Root \in j.visited, Continued(c, j)
  PROVE  c \in Jobs /\ TreeInv(c, req)
<1>1. TreeCore(c, req)
  BY DEF TreeCore, Continued
<1> QED
  BY <1>1 DEF TreeInv, Continued

LEMMA JobIs ==
  ASSUME NEW j \in Jobs
  PROVE  /\ j.queue \in Seq(Refs) /\ j.visited \in SUBSET Projects /\ j.out \in Seq(Refs) /\ j.stack \in Stacks
         /\ j.found \in Seq(Projects) /\ j.mod \in Projects /\ j.read \in [Projects -> 0 .. MaxBuild]
         /\ j.query \in 1 .. 5 /\ j.attempt \in 0 .. maxRetries - 1 /\ j.faults \in 0 .. MaxTransient
BY DEF Jobs, Stacks

(* A build of m was read.                                                   *)
LEMMA CoreReads ==
  ASSUME NEW j \in Jobs, NEW k \in Jobs, NEW req \in Required, NEW m \in Projects, NEW b \in 0 .. MaxBuild, NEW d \in Seq(Projects),
         TreeCore(j, req), Root \in j.visited, m \in j.visited, j.read[m] = 0, Range(d) \subseteq N(req, m, b),
         k.stack = Append(j.stack, d), k.read = [j.read EXCEPT ![m] = b],
         k.found = j.found, k.visited = j.visited, k.out = j.out
  PROVE  TreeCore(k, req) /\ StackMods(k.stack) = StackMods(j.stack) \cup Range(d)
<1> DEFINE f == j.found
           n == Len(f)
           rd == j.read
           rd2 == k.read
<1>1. rd \in [Projects -> 0 .. MaxBuild] /\ f \in Seq(Projects) /\ n \in Nat /\ Root \in Projects /\ j.stack \in Stacks
  BY JobIs, DependenciesAssumption
<1>2. rd2[m] = b /\ \A x \in Projects : x # m => rd2[x] = rd[x]
  BY <1>1
<1>3. \A x \in Projects : N(req, x, rd[x]) \subseteq N(req, x, rd2[x])
  BY <1>2 DEF N
<1>4. \A i \in 1 .. n : f[i] \in Projects
  BY <1>1
<1>5. StackMods(k.stack) = StackMods(j.stack) \cup Range(d)
  BY <1>1, StackIsPushed
<1>6. Range(f) \subseteq j.visited /\ j.visited \subseteq {Root} \cup Range(f) /\ FoundInOrder(f, rd, req)
      /\ (\A x \in StackMods(j.stack) : Known(x, n, f, rd, req)) /\ \A x \in Projects \ j.visited : rd[x] = 0
  BY DEF TreeCore
<1>7. k.found = f
  OBVIOUS
<1>8. m = Root \/ \E i \in 1 .. n : m = f[i]
  <2>1. Range(f) = {f[i] : i \in 1 .. n}
    BY <1>1, RangeIs
  <2> QED
    BY <1>6, <2>1
<1>9. n = Len(f)
  OBVIOUS
<1> HIDE DEF f, rd, rd2, n
<1>10. \A x, i : i \in 0 .. n /\ Known(x, i, f, rd, req) => Known(x, i, f, rd2, req)
  <2> SUFFICES ASSUME NEW x, NEW i \in 0 .. n, Known(x, i, f, rd, req) PROVE Known(x, i, f, rd2, req)
    OBVIOUS
  <2>1. CASE x \in N(req, Root, rd[Root])
    BY <1>1, <1>3, <2>1 DEF Known
  <2>2. CASE \E h \in 1 .. i : x \in N(req, f[h], rd[f[h]])
    <3>1. PICK h \in 1 .. i : x \in N(req, f[h], rd[f[h]])
      BY <2>2
    <3>2. h \in 1 .. n
      BY <1>1
    <3>3. x \in N(req, f[h], rd2[f[h]])
      BY <1>3, <1>4, <3>1, <3>2
    <3> QED
      BY <3>3 DEF Known
  <2> QED
    BY <2>1, <2>2 DEF Known
<1>11. \A x \in Range(d) : Known(x, n, f, rd2, req)
  <2> SUFFICES ASSUME NEW x \in N(req, m, rd2[m]) PROVE Known(x, n, f, rd2, req)
    BY <1>2
  <2> QED
    BY <1>8 DEF Known
<1>12. FoundInOrder(f, rd2, req)
  <2>1. \A i \in 1 .. n : i - 1 \in 0 .. n
    BY <1>1
  <2> QED
    BY <1>6, <1>9, <1>10, <2>1 DEF FoundInOrder
<1>13. n \in 0 .. n
  BY <1>1
<1>14. \A x \in StackMods(k.stack) : Known(x, n, f, rd2, req)
  BY <1>5, <1>6, <1>10, <1>11, <1>13
<1>15. \A x \in Projects \ j.visited : rd2[x] = 0
  BY <1>2, <1>6
<1> QED
  BY <1>5, <1>6, <1>7, <1>9, <1>12, <1>14, <1>15 DEF TreeCore, rd2
(* An entry was appended to the list.                                       *)
LEMMA CoreLists ==
  ASSUME NEW j \in Jobs, NEW k \in Jobs, NEW req, NEW e \in Refs, TreeCore(j, req),
         Len(j.out) < Len(j.found), e.mod = j.found[Len(j.out) + 1],
         k.out = Append(j.out, e), k.stack = j.stack, k.read = j.read, k.found = j.found, k.visited = j.visited
  PROVE  TreeCore(k, req)
<1> DEFINE o == j.out
           u == k.out
           n == Len(o)
           f == j.found
<1>1. o \in Seq(Refs) /\ f \in Seq(Projects) /\ Len(f) \in Nat /\ n \in Nat
  BY JobIs
<1>2. Len(u) = n + 1 /\ u[n + 1] = e /\ \A i \in 1 .. n : u[i] = o[i]
  BY <1>1, AppendProperties
<1>3. n < Len(f) /\ e.mod = f[n + 1] /\ \A i \in 1 .. n : o[i].mod = f[i]
  BY DEF TreeCore
<1>4. Len(u) <= Len(f) /\ \A i \in 1 .. Len(u) : u[i].mod = f[i]
  <2> HIDE DEF o, u, n, f
  <2>1. \A i \in 1 .. Len(u) : i \in 1 .. n \/ i = n + 1
    BY <1>1, <1>2
  <2> QED
    BY <1>1, <1>2, <1>3, <2>1
<1> HIDE DEF o, u, n
<1> QED
  BY <1>4 DEF TreeCore, u

(* A dependency was found, and one was looked at.                            *)
LEMMA CoreFinds ==
  ASSUME NEW j \in Jobs, NEW k \in Jobs, NEW req, NEW m \in Projects, TreeCore(j, req),
         m \in StackMods(j.stack), m \notin j.visited, StackMods(k.stack) \subseteq StackMods(j.stack),
         k.found = Append(j.found, m), k.visited = j.visited \cup {m}, k.read = j.read, k.out = j.out
  PROVE  TreeCore(k, req) /\ k.read[m] = 0
<1> DEFINE f == j.found
           g == k.found
           n == Len(f)
           rd == j.read
<1>1. f \in Seq(Projects) /\ n \in Nat /\ j.out \in Seq(Refs) /\ Len(j.out) \in Nat
  BY JobIs
<1>2. Len(g) = n + 1 /\ g[n + 1] = m /\ \A i \in 1 .. n : g[i] = f[i]
  BY <1>1, AppendProperties
<1>3. Range(g) = Range(f) \cup {m}
  BY <1>1, RangeOfAppend
<1>4. /\ Range(f) \subseteq j.visited /\ j.visited \subseteq {Root} \cup Range(f)
      /\ FoundInOrder(f, rd, req)
      /\ Len(j.out) <= n /\ \A i \in 1 .. Len(j.out) : j.out[i].mod = f[i]
      /\ \A x \in StackMods(j.stack) : Known(x, n, f, rd, req)
      /\ \A x \in Projects \ j.visited : rd[x] = 0
  BY DEF TreeCore
<1>5. \A i \in 1 .. n : f[i] \in Range(f)
  BY <1>1, RangeIs
<1>6. n = Len(f)
  OBVIOUS
<1> HIDE DEF f, g, n, rd
<1>7. \A x, i : i \in 0 .. n /\ Known(x, i, f, rd, req) => Known(x, i, g, rd, req)
  <2> SUFFICES ASSUME NEW x, NEW i \in 0 .. n, Known(x, i, f, rd, req) PROVE Known(x, i, g, rd, req)
    OBVIOUS
  <2>1. \A h \in 1 .. i : g[h] = f[h]
    BY <1>1, <1>2
  <2> QED
    BY <2>1 DEF Known
<1>8. \A x \in StackMods(j.stack) : Known(x, n + 1, g, rd, req)
  <2> SUFFICES ASSUME NEW x, Known(x, n, f, rd, req) PROVE Known(x, n + 1, g, rd, req)
    BY <1>4
  <2>1. Known(x, n, g, rd, req)
    BY <1>1, <1>7
  <2>2. \A h \in 1 .. n : h \in 1 .. n + 1
    BY <1>1
  <2> QED
    BY <2>1, <2>2 DEF Known
<1>9. FoundInOrder(g, rd, req)
  <2> SUFFICES ASSUME NEW i \in 1 .. n + 1 PROVE (\A h \in 1 .. i - 1 : g[h] # g[i]) /\ Known(g[i], i - 1, g, rd, req)
    BY <1>2 DEF FoundInOrder
  <2>1. CASE i \in 1 .. n
    <3>1. i - 1 \in 0 .. n /\ g[i] = f[i] /\ \A h \in 1 .. i - 1 : g[h] = f[h]
      BY <1>1, <1>2, <2>1
    <3>2. (\A h \in 1 .. i - 1 : f[h] # f[i]) /\ Known(f[i], i - 1, f, rd, req)
      BY <1>4, <1>6, <2>1 DEF FoundInOrder
    <3>3. Known(f[i], i - 1, g, rd, req)
      BY <1>7, <3>1, <3>2
    <3> QED
      BY <3>1, <3>2, <3>3
  <2>2. CASE i = n + 1
    <3>1. i - 1 = n /\ g[i] = m
      BY <1>1, <1>2, <2>2
    <3>2. Known(m, n, g, rd, req)
      BY <1>1, <1>4, <1>7
    <3>3. \A h \in 1 .. n : g[h] # m
      BY <1>2, <1>4, <1>5
    <3> QED
      BY <3>1, <3>2, <3>3
  <2> QED
    BY <1>1, <2>1, <2>2
<1>10. Len(j.out) <= n + 1 /\ \A i \in 1 .. Len(j.out) : j.out[i].mod = g[i]
  <2>1. Len(j.out) <= n /\ \A i \in 1 .. Len(j.out) : j.out[i].mod = f[i]
    BY <1>4
  <2>2. Len(j.out) <= n + 1
    BY <1>1, <2>1
  <2>3. \A i \in 1 .. Len(j.out) : i \in 1 .. n
    BY <1>1, <2>1
  <2>4. \A i \in 1 .. n : g[i] = f[i]
    BY <1>2
  <2> QED
    BY <2>1, <2>2, <2>3, <2>4
<1>11. Range(g) \subseteq k.visited /\ k.visited \subseteq {Root} \cup Range(g)
  BY <1>3, <1>4
<1>12. \A x \in Projects \ k.visited : rd[x] = 0
  BY <1>4
<1>13. \A x \in StackMods(k.stack) : Known(x, Len(g), g, rd, req)
  BY <1>2, <1>8
<1>14. TreeCore(k, req)
  <2>1. k.found = g /\ k.read = rd /\ k.out = j.out
    BY DEF g, rd
  <2> QED
    BY <1>2, <1>9, <1>10, <1>11, <1>12, <1>13, <2>1 DEF TreeCore
<1>15. k.read[m] = 0
  <2>1. k.read = rd
    BY DEF rd
  <2> QED
    BY <1>4, <2>1
<1> QED
  BY <1>14, <1>15

LEMMA CorePasses ==
  ASSUME NEW j \in Jobs, NEW k \in Jobs, NEW req, TreeCore(j, req),
         StackMods(k.stack) \subseteq StackMods(j.stack),
         k.found = j.found, k.visited = j.visited, k.read = j.read, k.out = j.out
  PROVE  TreeCore(k, req)
BY DEF TreeCore
-----------------------------------------------------------------------------
(* Resolutions with a stack: what is answered                               *)

(* The builds that the query i for project x is answered with, and the newest *)
(* build of the first query that has any.                                   *)
Answer(s, i, x) ==
  {b \in 1 .. s.top[x] : (i = 1 /\ s.fits[x][b] = "exact") \/ (i = 2 /\ s.fits[x][b] = "base") \/ (i = 3 /\ s.fits[x][b] # "other")}
FirstAnswer(s, i, x) == Answer(s, i, x) # {} /\ \A h \in 1 .. i - 1 : Answer(s, h, x) = {}
Best(s, x) == {Max(Answer(s, i, x)) : i \in {h \in 1 .. 3 : FirstAnswer(s, h, x)}}

LEMMA QueriesAre ==
  ASSUME NEW p \in {"traverse", "list"}, NEW i \in 1 .. 3, NEW x
  PROVE  /\ Len(Queries(p)) = (IF p = "list" THEN 3 ELSE 5)
         /\ queryVersions(Queries(p)[i], x) = Answer(shelf, i, x)
<1> DEFINE asked == <<"exact", "base", "all">>[i]
<1>1. Len(Queries(p)) = (IF p = "list" THEN 3 ELSE 5) /\ Queries(p)[i] = asked
  BY DEF Queries
<1>2. \A b \in 1 .. shelf.top[x] : AnswersFor(asked, shelf.fits[x][b]) <=>
        \/ i = 1 /\ shelf.fits[x][b] = "exact"
        \/ i = 2 /\ shelf.fits[x][b] = "base"
        \/ i = 3 /\ shelf.fits[x][b] # "other"
  BY DEF AnswersFor
<1> HIDE DEF asked
<1>3. queryVersions(asked, x) = Answer(shelf, i, x)
  BY <1>2 DEF queryVersions, Answer
<1> QED
  BY <1>1, <1>3

LEMMA BestIs ==
  ASSUME NEW s, NEW x, NEW i \in 1 .. 3, Answer(s, i, x) # {}, \A h \in 1 .. i - 1 : Answer(s, h, x) = {}
  PROVE  Best(s, x) = {Max(Answer(s, i, x))}
<1>1. FirstAnswer(s, i, x)
  BY DEF FirstAnswer
<1>2. \A h \in 1 .. 3 : FirstAnswer(s, h, x) => h = i
  <2> SUFFICES ASSUME NEW h \in 1 .. 3, FirstAnswer(s, h, x), h # i PROVE FALSE
    OBVIOUS
  <2>1. CASE h < i
    <3>1. h \in 1 .. i - 1
      BY <2>1
    <3> QED
      BY <1>1, <3>1 DEF FirstAnswer
  <2>2. CASE i < h
    <3>1. i \in 1 .. h - 1
      BY <2>2
    <3> QED
      BY <1>1, <3>1 DEF FirstAnswer
  <2> QED
    BY <2>1, <2>2
<1>3. {h \in 1 .. 3 : FirstAnswer(s, h, x)} = {i}
  BY <1>1, <1>2
<1> QED
  BY <1>3 DEF Best

LEMMA NoBest ==
  ASSUME NEW s, NEW x, \A h \in 1 .. 3 : Answer(s, h, x) = {}
  PROVE  Best(s, x) = {}
BY DEF Best, FirstAnswer

(* What a traversal and its listing keep while every request is answered.    *)
ReadCore(j, s) ==
  /\ j.attempt <= j.faults
  /\ \A x \in j.visited : \A b \in Best(s, x) : j.read[x] = b
  /\ \A e \in Range(j.out) : e.build # 0 => e.build \in Best(s, e.mod)
  /\ \A x \in j.visited : N(s.requires, x, j.read[x]) \subseteq j.visited \cup StackMods(j.stack)

ReadInv(j, s) ==
  /\ j.attempt <= j.faults
  /\ j.at \in {"traverse", "list"} => \A i \in 1 .. j.query - 1 : i <= 3 => Answer(s, i, j.mod) = {}
  /\ j.at # "failed" => \A x \in j.visited : (j.at = "traverse" /\ x = j.mod) \/ \A b \in Best(s, x) : j.read[x] = b
  /\ \A e \in Range(j.out) : e.build # 0 => e.build \in Best(s, e.mod)
  /\ \A x \in j.visited : N(s.requires, x, j.read[x]) \subseteq j.visited \cup StackMods(j.stack)

LEMMA ReadGoesOn ==
  ASSUME NEW j \in Jobs, NEW c, NEW s, ReadCore(j, s), Continued(c, j)
  PROVE  ReadInv(c, s)
<1>1. c.attempt <= c.faults
  <2>1. j.faults \in 0 .. MaxTransient
    BY JobIs
  <2> QED
    BY <2>1, DependenciesAssumption DEF Continued, ReadCore
<1>2. c.at \in {"traverse", "list"} => c.query = 1
  BY DEF Continued
<1>3. \A i \in 1 .. 1 - 1 : FALSE
  OBVIOUS
<1>4. c.visited = j.visited /\ c.out = j.out /\ c.read = j.read /\ StackMods(c.stack) = StackMods(j.stack)
  BY DEF Continued
<1> QED
  BY <1>1, <1>2, <1>3, <1>4 DEF ReadCore, ReadInv
LEMMA BestRead ==
  ASSUME job \in Jobs, ReadInv(job, shelf), job.at \in {"traverse", "list"}, NEW S,
         S = queryVersions(Queries(job.at)[job.query], job.mod)
  PROVE  /\ S # {} => Best(shelf, job.mod) \subseteq {Max(S)}
         /\ S # {} /\ job.query <= 3 => Best(shelf, job.mod) = {Max(S)}
         /\ S = {} /\ job.query >= 4 => Best(shelf, job.mod) = {}
         /\ S = {} => \A i \in 1 .. job.query : i <= 3 => Answer(shelf, i, job.mod) = {}
<1>1. job.query \in 1 .. 5
  BY JobIs
<1>2. \A i \in 1 .. job.query - 1 : i <= 3 => Answer(shelf, i, job.mod) = {}
  BY DEF ReadInv
<1>3. CASE job.query <= 3
  <2>1. job.query \in 1 .. 3
    BY <1>1, <1>3
  <2>2. S = Answer(shelf, job.query, job.mod)
    BY <2>1, QueriesAre
  <2>3. \A i \in 1 .. job.query - 1 : Answer(shelf, i, job.mod) = {}
    BY <1>2, <2>1
  <2>4. S # {} => Best(shelf, job.mod) = {Max(S)}
    BY <2>1, <2>2, <2>3, BestIs
  <2>5. \A i \in 1 .. job.query : i \in 1 .. job.query - 1 \/ i = job.query
    BY <1>1
  <2> QED
    BY <1>1, <1>2, <1>3, <2>2, <2>4, <2>5
<1>4. CASE job.query >= 4
  <2>1. \A i \in 1 .. 3 : i \in 1 .. job.query - 1
    BY <1>1, <1>4
  <2>2. \A i \in 1 .. 3 : Answer(shelf, i, job.mod) = {}
    BY <1>2, <2>1
  <2>3. Best(shelf, job.mod) = {}
    BY <2>2, NoBest
  <2>4. \A i \in 1 .. job.query : i <= 3 => i \in 1 .. 3
    BY <1>1
  <2> QED
    BY <1>1, <1>4, <2>2, <2>3, <2>4
<1> QED
  BY <1>1, <1>3, <1>4

(* A list of builds is read: the traversal goes down.                       *)
Deeper(b) == [job EXCEPT !.stack = Append(@, SetToSeq(Needs(job.mod, b))), !.read[job.mod] = b]

LEMMA Descends ==
  ASSUME job \in Jobs, shelf \in ShelfTypes, TreeInv(job, shelf.requires), job.at = "traverse",
         NEW b \in Builds
  PROVE  LET k == Deeper(b) IN
         /\ k \in Jobs /\ TreeCore(k, shelf.requires) /\ Root \in k.visited /\ k.faults = job.faults /\ k.provider = job.provider
         /\ ReadInv(job, shelf) /\ Best(shelf, job.mod) \subseteq {b} => ReadCore(k, shelf)
<1> DEFINE m == job.mod
           req == shelf.requires
           d == SetToSeq(Needs(m, b))
           st == Append(job.stack, d)
           rd == [job.read EXCEPT ![m] = b]
           k == Deeper(b)
<1>1. m \in Projects /\ job.read \in [Projects -> 0 .. MaxBuild] /\ job.stack \in Stacks /\ req \in Required
  BY JobIs DEF ShelfTypes
<1>2. b \in 0 .. MaxBuild
  BY DependenciesAssumption DEF Builds
<1>3. Needs(m, b) = N(req, m, b)
  BY DEF Needs, N
<1>4. N(req, m, b) \in SUBSET Projects
  BY <1>1, <1>2, NeedsProjects
<1>5. d \in Seq(Projects) /\ Range(d) = N(req, m, b)
  <2> DEFINE W == Needs(m, b)
  <2>1. W \in SUBSET Projects
    BY <1>3, <1>4
  <2> HIDE DEF W
  <2>2. SetToSeq(W) \in Seq(W) /\ Range(SetToSeq(W)) = W
    BY <2>1, PageIs
  <2>3. SetToSeq(W) \in Seq(Projects)
    BY <2>1, <2>2
  <2> QED
    BY <1>3, <2>2, <2>3 DEF W
<1>6. st \in Stacks
  <2> HIDE DEF d
  <2> QED
    BY <1>1, <1>5, StackIsPushed
<1>7. rd \in [Projects -> 0 .. MaxBuild]
  BY <1>1, <1>2
<1>8. k = [job EXCEPT !.stack = st, !.read = rd]
  BY DEF Deeper
<1> HIDE DEF k
<1>9. k \in Jobs /\ k.stack = st /\ k.read = rd /\ k.found = job.found /\ k.visited = job.visited /\ k.out = job.out
      /\ k.faults = job.faults /\ k.provider = job.provider /\ k.attempt = job.attempt
  <2> HIDE DEF st, rd
  <2> QED
    BY <1>6, <1>7, <1>8 DEF Jobs, Stacks
<1>10. TreeCore(job, req) /\ Root \in job.visited /\ m \in job.visited /\ job.read[m] = 0
  BY DEF TreeInv
<1>11. TreeCore(k, req) /\ StackMods(k.stack) = StackMods(job.stack) \cup Range(d)
  <2>1. k.stack = Append(job.stack, d) /\ k.read = [job.read EXCEPT ![m] = b]
    BY <1>9
  <2>2. Range(d) \subseteq N(req, m, b) /\ req \in Required /\ m \in Projects /\ d \in Seq(Projects)
    BY <1>1, <1>5
  <2>3. TreeCore(job, req)
    BY <1>10
  <2>4. k \in Jobs /\ k.found = job.found /\ k.visited = job.visited /\ k.out = job.out
    BY <1>9
  <2>5. Root \in job.visited /\ m \in job.visited /\ job.read[m] = 0
    BY <1>10
  <2> HIDE DEF m, req, d, st, rd
  <2> QED
    BY <1>2, <2>1, <2>2, <2>3, <2>4, <2>5, CoreReads
<1>12. ASSUME ReadInv(job, shelf), Best(shelf, m) \subseteq {b} PROVE ReadCore(k, shelf)
  <2>1. rd[m] = b /\ \A x \in job.visited : x # m => rd[x] = job.read[x]
    BY <1>1, JobIs
  <2> HIDE DEF rd, st, d
  <2>2. \A x \in job.visited : \A h \in Best(shelf, x) : rd[x] = h
    <3> SUFFICES ASSUME NEW x \in job.visited, NEW h \in Best(shelf, x) PROVE rd[x] = h
      OBVIOUS
    <3>1. CASE x = m
      BY <1>12, <2>1, <3>1
    <3>2. CASE x # m
      BY <1>12, <2>1, <3>2 DEF ReadInv
    <3> QED
      BY <3>1, <3>2
  <2>3. \A x \in job.visited : N(req, x, rd[x]) \subseteq job.visited \cup StackMods(k.stack)
    <3> SUFFICES ASSUME NEW x \in job.visited PROVE N(req, x, rd[x]) \subseteq job.visited \cup StackMods(k.stack)
      OBVIOUS
    <3>1. CASE x = m
      BY <1>5, <1>11, <2>1, <3>1
    <3>2. CASE x # m
      BY <1>11, <1>12, <2>1, <3>2 DEF ReadInv
    <3> QED
      BY <3>1, <3>2
  <2> QED
    BY <1>9, <1>12, <2>2, <2>3 DEF ReadCore, ReadInv
<1> QED
  BY <1>9, <1>10, <1>11, <1>12 DEF k

(* A found project is listed.                                               *)
WithEntry(b) == [job EXCEPT !.out = Append(@, [mod |-> job.mod, build |-> b])]

LEMMA Lists ==
  ASSUME job \in Jobs, TreeInv(job, shelf.requires), job.at = "list",
         NEW b \in 0 .. MaxBuild
  PROVE  LET k == WithEntry(b) IN
         /\ k \in Jobs /\ TreeCore(k, shelf.requires) /\ Root \in k.visited /\ k.faults = job.faults /\ k.provider = job.provider /\ k.ended = job.ended
         /\ ReadInv(job, shelf) /\ (b # 0 => b \in Best(shelf, job.mod)) => ReadCore(k, shelf)
<1> DEFINE e == [mod |-> job.mod, build |-> b]
           u == Append(job.out, e)
           k == WithEntry(b)
<1>1. e \in Refs /\ job.out \in Seq(Refs)
  BY JobIs DEF Refs
<1>2. e.mod = job.mod /\ e.build = b
  OBVIOUS
<1>3. k = [job EXCEPT !.out = u]
  BY DEF WithEntry
<1> HIDE DEF e, k
<1>4. u \in Seq(Refs) /\ Range(u) = Range(job.out) \cup {e}
  BY <1>1, RangeOfAppend
<1>5. k \in Jobs /\ k.stack = job.stack /\ k.read = job.read /\ k.found = job.found /\ k.visited = job.visited /\ k.out = u
      /\ k.faults = job.faults /\ k.provider = job.provider /\ k.attempt = job.attempt /\ k.ended = job.ended
  <2> HIDE DEF u
  <2> QED
    BY <1>3, <1>4 DEF Jobs
<1>6. TreeCore(job, shelf.requires) /\ Root \in job.visited /\ Len(job.out) < Len(job.found) /\ job.mod = job.found[Len(job.out) + 1]
  BY DEF TreeInv
<1>7. TreeCore(k, shelf.requires)
  BY <1>1, <1>2, <1>5, <1>6, CoreLists
<1>8. ASSUME ReadInv(job, shelf), b # 0 => b \in Best(shelf, job.mod) PROVE ReadCore(k, shelf)
  <2> HIDE DEF u
  <2>1. \A x \in Range(u) : x.build # 0 => x.build \in Best(shelf, x.mod)
    BY <1>2, <1>4, <1>8 DEF ReadInv
  <2> QED
    BY <1>5, <1>8, <2>1 DEF ReadCore, ReadInv
<1> QED
  BY <1>5, <1>6, <1>7, <1>8 DEF k
(* Versions takes its five ways on.                                         *)
LEMMA WaysOn ==
  ASSUME job \in Jobs, job.at \in {"traverse", "list"}, TreeInv(job, shelf.requires), NEW S
  PROVE  /\ S # {} /\ job.at = "traverse" => Versions(S) = Continue(Deeper(Max(S)))
         /\ S # {} /\ job.at = "list" => Versions(S) = Continue(WithEntry(Max(S)))
         /\ S = {} /\ job.query < Len(Queries(job.at)) => Versions(S) = [job EXCEPT !.query = @ + 1, !.attempt = 0]
         /\ S = {} /\ job.query = Len(Queries(job.at)) /\ job.at = "traverse" => Versions(S) = Continue(job)
         /\ S = {} /\ job.query = Len(Queries(job.at)) /\ job.at = "list" => Versions(S) = Continue(WithEntry(0))
         /\ job.query <= Len(Queries(job.at)) /\ Len(Queries(job.at)) = (IF job.at = "list" THEN 3 ELSE 5)
<1>1. Len(Queries(job.at)) = (IF job.at = "list" THEN 3 ELSE 5)
  BY 1 \in 1 .. 3, QueriesAre
<1>2. job.query <= Len(Queries(job.at))
  <2>1. job.query \in 1 .. 5
    BY JobIs
  <2>2. job.at = "list" => job.query <= 3
    BY DEF TreeInv
  <2> QED
    BY <1>1, <2>1, <2>2
<1>3. S # {} /\ job.at = "traverse" => Versions(S) = Continue(Deeper(Max(S)))
  BY DEF Versions, Deeper
<1>4. S # {} /\ job.at = "list" => Versions(S) = Continue(WithEntry(Max(S)))
  BY DEF Versions, WithEntry
<1>5. S = {} /\ job.query < Len(Queries(job.at)) => Versions(S) = [job EXCEPT !.query = @ + 1, !.attempt = 0]
  BY DEF Versions
<1>6. S = {} /\ job.query = Len(Queries(job.at)) /\ job.at = "traverse" => Versions(S) = Continue(job)
  BY <1>1 DEF Versions
<1>7. S = {} /\ job.query = Len(Queries(job.at)) /\ job.at = "list" => Versions(S) = Continue(WithEntry(0))
  BY <1>1 DEF Versions, WithEntry
<1> QED
  BY <1>1, <1>2, <1>3, <1>4, <1>5, <1>6, <1>7

Kept(c) == c \in Jobs /\ TreeInv(c, shelf.requires) /\ c.faults = job.faults /\ c.provider = job.provider

LEMMA ContinueKeeps ==
  ASSUME NEW j \in Jobs, TreeCore(j, shelf.requires), Root \in j.visited, j.faults = job.faults, j.provider = job.provider
  PROVE  /\ Kept(Continue(j)) /\ Continue(j).ended = j.ended
         /\ ReadCore(j, shelf) => ReadInv(Continue(j), shelf)
<1>1. Continued(Continue(j), j)
  BY ContinueIs
<1>2. PICK c : c = Continue(j)
  OBVIOUS
<1>3. c \in Jobs /\ TreeInv(c, shelf.requires)
  BY <1>1, <1>2, TreeGoesOn
<1>4. c.faults = job.faults /\ c.provider = job.provider /\ c.ended = j.ended
  BY <1>1, <1>2 DEF Continued
<1>5. ReadCore(j, shelf) => ReadInv(c, shelf)
  BY <1>1, <1>2, ReadGoesOn
<1> QED
  BY <1>2, <1>3, <1>4, <1>5 DEF Kept

LEMMA QueryStep ==
  ASSUME job \in Jobs, shelf \in ShelfTypes, TreeInv(job, shelf.requires), job.at \in {"traverse", "list"}, NEW S \in SUBSET Builds
  PROVE  /\ Kept(Versions(S))
         /\ ReadInv(job, shelf) /\ S = queryVersions(Queries(job.at)[job.query], job.mod) => ReadInv(Versions(S), shelf)
<1> DEFINE Asked == ReadInv(job, shelf) /\ S = queryVersions(Queries(job.at)[job.query], job.mod)
<1>1. TreeCore(job, shelf.requires) /\ Root \in job.visited
  BY DEF TreeInv
<1>2. S # {} => Max(S) \in Builds
  <2>1. MaxBuild \in Nat
    BY DependenciesAssumption
  <2>2. S \in SUBSET Nat /\ \A b \in S : b <= MaxBuild
    BY <2>1 DEF Builds
  <2> QED
    BY <2>1, <2>2, MaxIsGreatest
<1>3. Asked =>
        /\ S # {} => Best(shelf, job.mod) \subseteq {Max(S)}
        /\ S # {} /\ job.query <= 3 => Best(shelf, job.mod) = {Max(S)}
        /\ S = {} /\ job.query >= 4 => Best(shelf, job.mod) = {}
        /\ S = {} => \A i \in 1 .. job.query : i <= 3 => Answer(shelf, i, job.mod) = {}
  BY BestRead
<1>4. CASE S # {} /\ job.at = "traverse"
  <2> DEFINE k == Deeper(Max(S))
  <2>1. /\ k \in Jobs /\ TreeCore(k, shelf.requires) /\ Root \in k.visited /\ k.faults = job.faults /\ k.provider = job.provider
        /\ Asked => ReadCore(k, shelf)
    BY <1>2, <1>3, <1>4, Descends
  <2>2. Versions(S) = Continue(k)
    BY <1>4, WaysOn
  <2> HIDE DEF k, Asked
  <2>3. Kept(Continue(k)) /\ (ReadCore(k, shelf) => ReadInv(Continue(k), shelf))
    BY <2>1, ContinueKeeps
  <2>4. Kept(Versions(S)) /\ (Asked => ReadInv(Versions(S), shelf))
    BY <2>1, <2>2, <2>3
  <2> QED
    BY <2>4 DEF Asked
<1>5. CASE S # {} /\ job.at = "list"
  <2> DEFINE k == WithEntry(Max(S))
  <2>1. Max(S) \in 0 .. MaxBuild
    BY <1>2, <1>5, DependenciesAssumption DEF Builds
  <2>2. job.query <= 3
    BY <1>5 DEF TreeInv
  <2>3. /\ k \in Jobs /\ TreeCore(k, shelf.requires) /\ Root \in k.visited /\ k.faults = job.faults /\ k.provider = job.provider
        /\ ReadInv(job, shelf) /\ (Max(S) # 0 => Max(S) \in Best(shelf, job.mod)) => ReadCore(k, shelf)
    BY <1>5, <2>1, Lists
  <2>4. Versions(S) = Continue(k)
    BY <1>5, WaysOn
  <2>5. Asked => ReadCore(k, shelf)
    <3>1. Asked => ReadInv(job, shelf) /\ Max(S) \in Best(shelf, job.mod)
      BY <1>3, <1>5, <2>2
    <3> HIDE DEF k, Asked
    <3> QED
      BY <2>3, <3>1
  <2> HIDE DEF k, Asked
  <2>6. Kept(Continue(k)) /\ (ReadCore(k, shelf) => ReadInv(Continue(k), shelf))
    BY <2>3, ContinueKeeps
  <2>7. Kept(Versions(S)) /\ (Asked => ReadInv(Versions(S), shelf))
    BY <2>4, <2>5, <2>6
  <2> QED
    BY <2>7 DEF Asked
<1>6. CASE S = {} /\ job.query < Len(Queries(job.at))
  <2> DEFINE k == [job EXCEPT !.query = @ + 1, !.attempt = 0]
  <2>1. job.query \in 1 .. 5 /\ Len(Queries(job.at)) = (IF job.at = "list" THEN 3 ELSE 5)
    BY JobIs, WaysOn
  <2>2. job.query + 1 \in 1 .. 5 /\ (job.at = "list" => job.query + 1 <= 3) /\ 0 \in 0 .. maxRetries - 1
    BY <1>6, <2>1 DEF maxRetries
  <2>3. /\ k \in Jobs /\ k.query = job.query + 1 /\ k.attempt = 0 /\ k.at = job.at /\ k.mod = job.mod /\ k.stack = job.stack /\ k.read = job.read
        /\ k.found = job.found /\ k.visited = job.visited /\ k.out = job.out /\ k.faults = job.faults /\ k.provider = job.provider
    BY <2>2 DEF Jobs
  <2>4. Versions(S) = k
    BY <1>6, WaysOn
  <2> HIDE DEF k
  <2>5. TreeCore(k, shelf.requires)
    BY <1>1, <2>3 DEF TreeCore
  <2>6. Kept(k)
    BY <2>2, <2>3, <2>5 DEF Kept, TreeInv
  <2>7. (job.query + 1) - 1 = job.query /\ 0 <= job.faults
    BY <2>1, JobIs, DependenciesAssumption
  <2>8. Asked => ReadInv(k, shelf)
    <3> SUFFICES ASSUME Asked PROVE ReadInv(k, shelf)
      OBVIOUS
    <3>1. \A i \in 1 .. k.query - 1 : i <= 3 => Answer(shelf, i, k.mod) = {}
      BY <1>3, <1>6, <2>3, <2>7
    <3>2. ReadInv(job, shelf)
      OBVIOUS
    <3> HIDE DEF Asked
    <3> QED
      BY <2>3, <2>7, <3>1, <3>2 DEF ReadInv
  <2> HIDE DEF Asked
  <2>9. Kept(Versions(S)) /\ (Asked => ReadInv(Versions(S), shelf))
    BY <2>4, <2>6, <2>8
  <2> QED
    BY <2>9 DEF Asked
<1>7. CASE S = {} /\ job.query = Len(Queries(job.at)) /\ job.at = "traverse"
  <2>1. job.query = 5 /\ Versions(S) = Continue(job)
    BY <1>7, WaysOn
  <2>2. Asked => ReadCore(job, shelf)
    <3> SUFFICES ASSUME Asked PROVE ReadCore(job, shelf)
      OBVIOUS
    <3>1. Best(shelf, job.mod) = {}
      BY <1>3, <1>7, <2>1
    <3>2. ReadInv(job, shelf)
      OBVIOUS
    <3> HIDE DEF Asked
    <3> QED
      BY <3>1, <3>2 DEF ReadCore, ReadInv
  <2>3. Kept(Continue(job)) /\ (ReadCore(job, shelf) => ReadInv(Continue(job), shelf))
    BY <1>1, ContinueKeeps
  <2> HIDE DEF Asked
  <2>4. Kept(Versions(S)) /\ (Asked => ReadInv(Versions(S), shelf))
    BY <2>1, <2>2, <2>3
  <2> QED
    BY <2>4 DEF Asked
<1>8. CASE S = {} /\ job.query = Len(Queries(job.at)) /\ job.at = "list"
  <2> DEFINE k == WithEntry(0)
  <2>1. 0 \in 0 .. MaxBuild
    BY DependenciesAssumption
  <2>2. /\ k \in Jobs /\ TreeCore(k, shelf.requires) /\ Root \in k.visited /\ k.faults = job.faults /\ k.provider = job.provider
        /\ ReadInv(job, shelf) => ReadCore(k, shelf)
    BY <1>8, <2>1, Lists
  <2>3. Versions(S) = Continue(k)
    BY <1>8, WaysOn
  <2> HIDE DEF k
  <2>4. Kept(Continue(k)) /\ (ReadCore(k, shelf) => ReadInv(Continue(k), shelf))
    BY <2>2, ContinueKeeps
  <2>5. Kept(Versions(S)) /\ (ReadInv(job, shelf) => ReadInv(Versions(S), shelf))
    BY <2>2, <2>3, <2>4
  <2> QED
    BY <2>5
<1>9. S # {} \/ job.query < Len(Queries(job.at)) \/ job.query = Len(Queries(job.at))
  <2>1. job.query \in 1 .. 5 /\ job.query <= Len(Queries(job.at)) /\ Len(Queries(job.at)) = (IF job.at = "list" THEN 3 ELSE 5)
    BY JobIs, WaysOn
  <2> QED
    BY <2>1
<1> QED
  BY <1>4, <1>5, <1>6, <1>7, <1>8, <1>9
(* Every request of a Modrinth resolution is answered, at the latest when it  *)
(* is repeated, and nothing is published meanwhile.                         *)
Answered == "modrinth" \notin Breaking \cup Moving /\ MaxTransient < maxRetries

ModrinthOn == /\ job' \in Jobs /\ TreeInv(job', shelf.requires) /\ job'.provider = job.provider
              /\ Answered /\ ReadInv(job, shelf) => ReadInv(job', shelf)

LEMMA MRRootStep ==
  ASSUME job \in Jobs, shelf \in ShelfTypes, TreeInv(job, shelf.requires), MRRoot
  PROVE  ModrinthOn
<1>1. job.visited = {} /\ job.found = <<>> /\ job.out = <<>> /\ job.stack = <<>> /\ TreeCore(job, shelf.requires)
  BY DEF MRRoot, TreeInv
<1>2. Root \in Projects /\ {Root} \in SUBSET Projects /\ 1 \in 1 .. 5 /\ "traverse" \in Phases
  BY DependenciesAssumption DEF Phases
<1> DEFINE j == [job EXCEPT !.at = "traverse", !.mod = Root, !.visited = {Root}, !.query = 1]
<1>3. /\ j \in Jobs /\ j.at = "traverse" /\ j.mod = Root /\ j.visited = {Root} /\ j.query = 1
      /\ j.found = job.found /\ j.out = job.out /\ j.stack = job.stack /\ j.read = job.read
      /\ j.attempt = job.attempt /\ j.faults = job.faults /\ j.provider = job.provider
  BY <1>2 DEF Jobs
<1>4. job' = j
  BY DEF MRRoot
<1> HIDE DEF j
<1>5. j.read[Root] = 0
  BY <1>1, <1>2, <1>3 DEF TreeCore
<1>6. Range(<<>>) = {}
  BY DEF Range
<1>7. TreeCore(j, shelf.requires)
  BY <1>1, <1>3, <1>6 DEF TreeCore
<1>8. TreeInv(j, shelf.requires)
  BY <1>3, <1>5, <1>7 DEF TreeInv
<1>9. ASSUME ReadInv(job, shelf) PROVE ReadInv(j, shelf)
  <2>1. N(shelf.requires, Root, j.read[Root]) = {}
    BY <1>5 DEF N
  <2>2. \A i \in 1 .. j.query - 1 : FALSE
    BY <1>3
  <2> QED
    BY <1>1, <1>3, <1>6, <1>9, <2>1, <2>2 DEF ReadInv
<1> QED
  BY <1>3, <1>4, <1>8, <1>9 DEF ModrinthOn

LEMMA MRVersionsStep ==
  ASSUME job \in Jobs, shelf \in ShelfTypes, TreeInv(job, shelf.requires), MRVersions
  PROVE  ModrinthOn
<1> DEFINE q == Queries(job.at)[job.query]
           S == queryVersions(q, job.mod)
<1>1. job.at \in {"traverse", "list"}
  BY DEF MRVersions
<1>2. S \in SUBSET Builds
  <2>1. job.mod \in Projects /\ shelf.top \in [Projects -> 0 .. MaxBuild]
    BY JobIs DEF ShelfTypes
  <2>2. shelf.top[job.mod] \in 0 .. MaxBuild
    BY <2>1
  <2>3. \A b \in S : b \in 1 .. shelf.top[job.mod]
    BY DEF queryVersions
  <2> HIDE DEF S
  <2> QED
    BY <2>2, <2>3, DependenciesAssumption DEF Builds
<1>3. Kept(Versions(S)) /\ (ReadInv(job, shelf) => ReadInv(Versions(S), shelf))
  BY <1>1, <1>2, QueryStep
<1>4. {} \in SUBSET Builds
  OBVIOUS
<1>5. Kept(Versions({}))
  BY <1>1, <1>4, QueryStep
<1>6. job' = Versions(S) \/ ("modrinth" \in Breaking /\ job' = Versions({}))
  BY DEF MRVersions
<1> HIDE DEF S
<1>7. CASE job' = Versions(S)
  BY <1>3, <1>7 DEF ModrinthOn, Kept
<1>8. CASE "modrinth" \in Breaking /\ job' = Versions({})
  BY <1>5, <1>8 DEF ModrinthOn, Kept, Answered
<1> QED
  BY <1>6, <1>7, <1>8

(* The dependency at the top of the stack is passed over.                    *)
Passed == [job EXCEPT !.stack = Popped(@)]

LEMMA PassedIs ==
  ASSUME job \in Jobs, TreeInv(job, shelf.requires), job.at = "project"
  PROVE  /\ Passed \in Jobs /\ Passed = [job EXCEPT !.stack[Len(job.stack)] = Tail(@)]
         /\ Passed.stack = Popped(job.stack) /\ Passed.found = job.found /\ Passed.visited = job.visited /\ Passed.read = job.read
         /\ Passed.out = job.out /\ Passed.attempt = job.attempt /\ Passed.faults = job.faults /\ Passed.provider = job.provider /\ Passed.ended = job.ended
         /\ Head(job.stack[Len(job.stack)]) \in Projects
         /\ StackMods(job.stack) = StackMods(Passed.stack) \cup {Head(job.stack[Len(job.stack)])}
         /\ TreeCore(job, shelf.requires) /\ TreeCore(Passed, shelf.requires) /\ Root \in job.visited
<1> DEFINE t == Popped(job.stack)
           h == Head(job.stack[Len(job.stack)])
           p == Passed
<1>1. job.stack # <<>> /\ job.stack[Len(job.stack)] # <<>> /\ TreeCore(job, shelf.requires) /\ Root \in job.visited /\ job.stack \in Stacks
  BY JobIs DEF TreeInv
<1>2. t \in Stacks /\ h \in Projects /\ StackMods(job.stack) = StackMods(t) \cup {h}
  BY <1>1, StackIsPopped
<1>3. p = [job EXCEPT !.stack[Len(job.stack)] = Tail(@)]
  BY DEF Passed, Popped
<1>4. p = [job EXCEPT !.stack = t]
  BY DEF Passed
<1> HIDE DEF t, h
<1>5. /\ p \in Jobs /\ p.stack = t /\ p.found = job.found /\ p.visited = job.visited /\ p.read = job.read
      /\ p.out = job.out /\ p.attempt = job.attempt /\ p.faults = job.faults /\ p.provider = job.provider /\ p.ended = job.ended
  BY <1>2, <1>4 DEF Jobs, Stacks
<1> HIDE DEF p
<1>6. TreeCore(p, shelf.requires)
  BY <1>1, <1>2, <1>5 DEF TreeCore
<1> QED
  BY <1>1, <1>2, <1>3, <1>5, <1>6 DEF p, t, h

LEMMA MRProjectStep ==
  ASSUME job \in Jobs, shelf \in ShelfTypes, TreeInv(job, shelf.requires), MRProject
  PROVE  ModrinthOn
<1> DEFINE m == Head(job.stack[Len(job.stack)])
           k == [Passed EXCEPT !.found = Append(@, m), !.visited = @ \cup {m},
                               !.at = "traverse", !.mod = m, !.query = 1, !.attempt = 0]
<1>1. job.at = "project"
  BY DEF MRProject
<1>2. /\ Passed \in Jobs /\ Passed = [job EXCEPT !.stack[Len(job.stack)] = Tail(@)]
      /\ Passed.found = job.found /\ Passed.visited = job.visited /\ Passed.read = job.read
      /\ Passed.out = job.out /\ Passed.attempt = job.attempt /\ Passed.faults = job.faults /\ Passed.provider = job.provider
      /\ m \in Projects /\ StackMods(job.stack) = StackMods(Passed.stack) \cup {m}
      /\ TreeCore(job, shelf.requires) /\ TreeCore(Passed, shelf.requires) /\ Root \in job.visited
  BY <1>1, PassedIs
<1>3. \/ m \in job.visited /\ job' = Continue(Passed)
      \/ m \notin job.visited /\ job' = k
      \/ "modrinth" \in Breaking /\ job' = Continue(Passed)
  BY <1>2 DEF MRProject
<1> HIDE DEF m
<1>4. Kept(Continue(Passed)) /\ (ReadCore(Passed, shelf) => ReadInv(Continue(Passed), shelf))
  BY <1>2, ContinueKeeps
<1>5. CASE m \in job.visited /\ job' = Continue(Passed)
  <2>1. ReadInv(job, shelf) => ReadCore(Passed, shelf)
    BY <1>1, <1>2, <1>5 DEF ReadInv, ReadCore
  <2> QED
    BY <1>4, <1>5, <2>1 DEF ModrinthOn, Kept
<1>6. CASE "modrinth" \in Breaking /\ job' = Continue(Passed)
  BY <1>4, <1>6 DEF ModrinthOn, Kept, Answered
<1>7. CASE m \notin job.visited /\ job' = k
  <2>1. job.found \in Seq(Projects) /\ job.visited \in SUBSET Projects
    BY JobIs
  <2>2. Append(job.found, m) \in Seq(Projects) /\ job.visited \cup {m} \in SUBSET Projects /\ 0 \in 0 .. maxRetries - 1 /\ 1 \in 1 .. 5
    BY <1>2, <2>1, AppendProperties DEF maxRetries
  <2>3. /\ k \in Jobs /\ k.found = Append(job.found, m) /\ k.visited = job.visited \cup {m} /\ k.at = "traverse" /\ k.mod = m
        /\ k.query = 1 /\ k.attempt = 0 /\ k.stack = Passed.stack /\ k.read = job.read /\ k.out = job.out
        /\ k.faults = job.faults /\ k.provider = job.provider
    BY <1>2, <2>2 DEF Jobs, Phases
  <2> HIDE DEF k
  <2>4. m \in StackMods(job.stack) /\ StackMods(k.stack) \subseteq StackMods(job.stack)
    BY <1>2, <2>3
  <2>5. TreeCore(k, shelf.requires) /\ k.read[m] = 0
    <3>1. m \in Projects /\ TreeCore(job, shelf.requires)
      BY <1>2
    <3>2. m \notin job.visited
      BY <1>7
    <3>3. k \in Jobs /\ k.found = Append(job.found, m) /\ k.visited = job.visited \cup {m} /\ k.read = job.read /\ k.out = job.out
      BY <2>3
    <3> QED
      BY <2>4, <3>1, <3>2, <3>3, CoreFinds
  <2>6. TreeInv(k, shelf.requires)
    BY <1>2, <2>3, <2>5 DEF TreeInv
  <2>7. ASSUME ReadInv(job, shelf) PROVE ReadInv(k, shelf)
    <3>1. 0 <= job.faults
      BY JobIs, DependenciesAssumption
    <3>2. \A i \in 1 .. k.query - 1 : FALSE
      BY <2>3
    <3>3. N(shelf.requires, m, k.read[m]) = {}
      BY <2>5 DEF N
    <3>4. \A x \in k.visited : N(shelf.requires, x, k.read[x]) \subseteq k.visited \cup StackMods(k.stack)
      <4> SUFFICES ASSUME NEW x \in k.visited PROVE N(shelf.requires, x, k.read[x]) \subseteq k.visited \cup StackMods(k.stack)
        OBVIOUS
      <4>1. CASE x = m
        BY <3>3, <4>1
      <4>2. CASE x \in job.visited
        BY <1>2, <2>3, <2>7, <4>2 DEF ReadInv
      <4> QED
        BY <2>3, <4>1, <4>2
    <3>5. \A x \in k.visited : x = m \/ \A b \in Best(shelf, x) : k.read[x] = b
      BY <1>1, <2>3, <2>7 DEF ReadInv
    <3>6. \A e \in Range(k.out) : e.build # 0 => e.build \in Best(shelf, e.mod)
      BY <2>3, <2>7 DEF ReadInv
    <3> QED
      BY <2>3, <3>1, <3>2, <3>4, <3>5, <3>6 DEF ReadInv
  <2> QED
    BY <1>7, <2>3, <2>6, <2>7 DEF ModrinthOn
<1> QED
  BY <1>3, <1>5, <1>6, <1>7
LEMMA MRTransientStep ==
  ASSUME job \in Jobs, shelf \in ShelfTypes, TreeInv(job, shelf.requires), MRTransient
  PROVE  ModrinthOn
<1> DEFINE j == [job EXCEPT !.faults = @ + 1]
           again == [j EXCEPT !.attempt = @ + 1]
           p == [j EXCEPT !.stack[Len(job.stack)] = Tail(@)]
           v == [Versions({}) EXCEPT !.faults = @ + 1]
<1>1. job.at \in {"traverse", "list", "project"} /\ job.faults < MaxTransient
  BY DEF MRTransient
<1>2. job.faults \in 0 .. MaxTransient /\ job.attempt \in 0 .. 3 /\ maxRetries - 1 = 3
  BY JobIs DEF maxRetries
<1>3. job.faults + 1 \in 0 .. MaxTransient
  BY <1>1, <1>2, DependenciesAssumption
<1>4. /\ job.attempt < 3 => job' = again
      /\ ~ (job.attempt < 3) /\ job.at = "project" => job' = Continue(p)
      /\ ~ (job.attempt < 3) /\ job.at # "project" => job' = v
  <2>1. ~ (job.attempt < 3) => job.attempt = 3
    BY <1>2
  <2>2. job' = CASE job.attempt < 3 -> again
                 [] job.attempt = 3 /\ job.at = "project" -> Continue(p)
                 [] OTHER -> v
    BY <1>2 DEF MRTransient
  <2> HIDE DEF again, p, v, j
  <2> QED
    BY <2>1, <2>2
<1>5. TreeCore(job, shelf.requires) /\ Root \in job.visited
  BY <1>1 DEF TreeInv
<1>6. CASE job.attempt < 3
  <2>1. job.attempt + 1 \in 0 .. maxRetries - 1
    BY <1>2, <1>6
  <2>2. /\ again \in Jobs /\ again.attempt = job.attempt + 1 /\ again.faults = job.faults + 1 /\ again.at = job.at /\ again.mod = job.mod
        /\ again.query = job.query /\ again.stack = job.stack /\ again.read = job.read /\ again.found = job.found
        /\ again.visited = job.visited /\ again.out = job.out /\ again.provider = job.provider
    BY <1>3, <2>1 DEF Jobs
  <2> HIDE DEF again
  <2>3. TreeInv(again, shelf.requires)
    BY <1>1, <2>2 DEF TreeInv, TreeCore
  <2>4. ReadInv(job, shelf) => ReadInv(again, shelf)
    <3> SUFFICES ASSUME ReadInv(job, shelf) PROVE ReadInv(again, shelf)
      OBVIOUS
    <3>1. job.attempt + 1 <= job.faults + 1
      BY <1>2 DEF ReadInv
    <3> QED
      BY <2>2, <3>1 DEF ReadInv
  <2> QED
    BY <1>4, <1>6, <2>2, <2>3, <2>4 DEF ModrinthOn
<1>7. CASE ~ (job.attempt < 3)
  <2>1. ~ (Answered /\ ReadInv(job, shelf))
    <3> SUFFICES ASSUME Answered, ReadInv(job, shelf) PROVE FALSE
      OBVIOUS
    <3>1. job.attempt <= job.faults /\ MaxTransient < 4
      BY DEF Answered, ReadInv, maxRetries
    <3> QED
      BY <1>1, <1>2, <1>7, <3>1, DependenciesAssumption
  <2>2. CASE job.at = "project"
    <3>1. /\ Passed \in Jobs /\ Passed = [job EXCEPT !.stack[Len(job.stack)] = Tail(@)]
          /\ Passed.faults = job.faults /\ Passed.provider = job.provider /\ Passed.visited = job.visited
          /\ TreeCore(Passed, shelf.requires)
      BY <2>2, PassedIs
    <3>2. p = [Passed EXCEPT !.faults = @ + 1]
      BY <3>1
    <3> HIDE DEF p
    <3>3. /\ p \in Jobs /\ p.stack = Passed.stack /\ p.read = Passed.read /\ p.found = Passed.found
          /\ p.visited = Passed.visited /\ p.out = Passed.out /\ p.provider = Passed.provider
      BY <1>3, <3>1, <3>2 DEF Jobs
    <3>4. TreeCore(p, shelf.requires) /\ Root \in p.visited
      BY <1>5, <3>1, <3>3 DEF TreeCore
    <3>5. Continued(Continue(p), p)
      BY <3>3, ContinueIs
    <3>6. PICK c : c = Continue(p)
      OBVIOUS
    <3>7. c \in Jobs /\ TreeInv(c, shelf.requires) /\ c.provider = job.provider
      BY <3>1, <3>3, <3>4, <3>5, <3>6, TreeGoesOn DEF Continued
    <3> QED
      BY <1>4, <1>7, <2>1, <2>2, <3>6, <3>7 DEF ModrinthOn
  <2>3. CASE job.at # "project"
    <3>1. job.at \in {"traverse", "list"} /\ {} \in SUBSET Builds
      BY <1>1, <2>3
    <3>2. Kept(Versions({}))
      BY <3>1, QueryStep
    <3>3. PICK c : c = Versions({})
      OBVIOUS
    <3>4. c \in Jobs /\ TreeInv(c, shelf.requires) /\ c.faults = job.faults /\ c.provider = job.provider
      BY <3>2, <3>3 DEF Kept
    <3>5. v = [c EXCEPT !.faults = @ + 1]
      BY <3>3
    <3> HIDE DEF v
    <3>6. /\ v \in Jobs /\ v.at = c.at /\ v.mod = c.mod /\ v.query = c.query /\ v.stack = c.stack /\ v.read = c.read
          /\ v.found = c.found /\ v.visited = c.visited /\ v.out = c.out /\ v.provider = c.provider /\ v.attempt = c.attempt
      BY <1>3, <3>4, <3>5 DEF Jobs
    <3>7. TreeInv(v, shelf.requires)
      BY <3>4, <3>6 DEF TreeInv, TreeCore
    <3> QED
      BY <1>4, <1>7, <2>1, <2>3, <3>4, <3>6, <3>7 DEF ModrinthOn
  <2> QED
    BY <2>2, <2>3
<1> QED
  BY <1>6, <1>7

LEMMA MRFails ==
  ASSUME job \in Jobs, TreeInv(job, shelf.requires), Fail
  PROVE  ModrinthOn /\ job'.ended = job.ended
<1>1. /\ job' \in Jobs /\ job'.at = "failed" /\ job'.visited = job.visited /\ job'.out = job.out /\ job'.provider = job.provider
      /\ job'.stack = job.stack /\ job'.found = job.found /\ job'.attempt = job.attempt /\ job'.faults = job.faults /\ job'.read = job.read
      /\ job'.ended = job.ended
  BY FailKeeps
<1>2. TreeInv(job', shelf.requires)
  BY <1>1 DEF TreeInv, TreeCore
<1>3. ReadInv(job, shelf) => ReadInv(job', shelf)
  BY <1>1 DEF ReadInv
<1> QED
  BY <1>1, <1>2, <1>3 DEF ModrinthOn

(* The context ends, and what is left of the resolution then.                *)
Ended == job' \in Jobs /\ TreeInv(job', shelf.requires) /\ job'.provider = job.provider /\ job'.ended

LEMMA MREndStep ==
  ASSUME job \in Jobs, TreeInv(job, shelf.requires), job' = [job EXCEPT !.ended = TRUE]
  PROVE  Ended
<1>1. /\ job' \in Jobs /\ job'.at = job.at /\ job'.visited = job.visited /\ job'.out = job.out /\ job'.provider = job.provider
      /\ job'.stack = job.stack /\ job'.found = job.found /\ job'.attempt = job.attempt /\ job'.mod = job.mod
      /\ job'.query = job.query /\ job'.read = job.read /\ job'.ended = TRUE
  BY DEF Jobs
<1> QED
  BY <1>1 DEF Ended, TreeInv, TreeCore

LEMMA MREndedStep ==
  ASSUME job \in Jobs, TreeInv(job, shelf.requires), MREnded
  PROVE  Ended
<1>1. job.ended
  BY DEF MREnded
<1>2. CASE job.at = "project" /\ job' = Continue([job EXCEPT !.stack[Len(job.stack)] = Tail(@)])
  <2>1. /\ Passed \in Jobs /\ Passed = [job EXCEPT !.stack[Len(job.stack)] = Tail(@)]
        /\ Passed.visited = job.visited /\ Passed.faults = job.faults /\ Passed.provider = job.provider
        /\ Passed.ended = job.ended /\ TreeCore(Passed, shelf.requires) /\ Root \in job.visited
    BY <1>2, PassedIs
  <2>2. Kept(Continue(Passed)) /\ Continue(Passed).ended = job.ended
    BY <2>1, ContinueKeeps
  <2>3. job' = Continue(Passed)
    BY <1>2, <2>1
  <2> QED
    BY <1>1, <2>2, <2>3 DEF Ended, Kept
<1>3. CASE job.at = "project" /\ Fail
  BY <1>1, <1>3, MRFails DEF Ended, ModrinthOn
<1>4. CASE job.at = "list" /\ job' = Continue(WithEntry(0))
  <2> DEFINE k == WithEntry(0)
  <2>1. 0 \in 0 .. MaxBuild
    BY DependenciesAssumption
  <2>2. /\ k \in Jobs /\ TreeCore(k, shelf.requires) /\ Root \in k.visited
        /\ k.faults = job.faults /\ k.provider = job.provider /\ k.ended = job.ended
    BY <1>4, <2>1, Lists
  <2> HIDE DEF k
  <2>3. Kept(Continue(k)) /\ Continue(k).ended = k.ended
    BY <2>2, ContinueKeeps
  <2>4. job' = Continue(k)
    BY <1>4 DEF k
  <2> QED
    BY <1>1, <2>2, <2>3, <2>4 DEF Ended, Kept
<1> QED
  BY <1>2, <1>3, <1>4 DEF MREnded, WithEntry
-----------------------------------------------------------------------------
(* Resolutions: the invariant                                               *)
Providers == {"thunderstore", "curseforge", "modrinth"}

DepInv ==
  /\ job \in Jobs /\ shelf \in ShelfTypes
  /\ job.provider # "modrinth" => QueueInv(job, shelf.requires)
  /\ job.provider = "curseforge" => RunnableFiles(job, shelf.fits, shelf.restricted)
  /\ job.provider = "modrinth" => TreeInv(job, shelf.requires) /\ (Answered /\ ~ job.ended => ReadInv(job, shelf))

LEMMA DepStart ==
  ASSUME NEW Shelves, \A p \in Providers : Shelves[p] \subseteq ShelfTypes, DependenciesInit(Shelves)
  PROVE  DepInv
<1>1. PICK p \in Providers : job = NewJob(p) /\ shelf \in Shelves[p]
  BY DEF DependenciesInit, Providers
<1>2. shelf \in ShelfTypes
  BY <1>1
<1> DEFINE rd == [m \in Projects |-> 0]
<1>3. /\ <<>> \in Seq(Refs) /\ <<>> \in Seq(Seq(Projects)) /\ <<>> \in Seq(Projects) /\ {} \in SUBSET Projects /\ Root \in Projects
      /\ 1 \in 1 .. 5 /\ 0 \in 0 .. maxRetries - 1 /\ 0 \in 0 .. MaxTransient
  BY DependenciesAssumption DEF maxRetries
<1>4. rd \in [Projects -> 0 .. MaxBuild] /\ \A x \in Projects : rd[x] = 0
  BY DependenciesAssumption
<1> HIDE DEF rd
<1>5. job = [provider |-> p, at |-> "root", queue |-> <<>>, visited |-> {}, out |-> <<>>,
             stack |-> <<>>, found |-> <<>>, mod |-> Root, query |-> 1, attempt |-> 0, faults |-> 0, read |-> rd,
             ended |-> FALSE]
  BY <1>1 DEF NewJob, rd
<1>6. job \in Jobs
  BY <1>3, <1>4, <1>5 DEF Jobs, Phases, Providers
<1>7. /\ job.provider = p /\ job.at = "root" /\ job.queue = <<>> /\ job.visited = {} /\ job.out = <<>> /\ job.stack = <<>>
      /\ job.found = <<>> /\ job.attempt = 0 /\ job.faults = 0 /\ job.read = rd
  BY <1>5
<1>8. Range(<<>>) = {} /\ Len(<<>>) = 0
  BY DEF Range
<1>9. QueueInv(job, shelf.requires)
  <2>1. Queued(<<>>, <<>>, {}, shelf.requires)
    <3>1. [mod |-> Root, build |-> 0] \in Refs
      BY DependenciesAssumption DEF Refs
    <3> QED
      BY <3>1, RootIsQueued
  <2> QED
    BY <1>7, <1>8, <2>1 DEF QueueInv
<1>10. RunnableFiles(job, shelf.fits, shelf.restricted)
  BY <1>7, <1>8 DEF RunnableFiles
<1>11. StackMods(<<>>) = {}
  BY <1>8 DEF StackMods
<1>12. TreeInv(job, shelf.requires)
  <2>1. FoundInOrder(<<>>, rd, shelf.requires)
    BY <1>8 DEF FoundInOrder
  <2>2. TreeCore(job, shelf.requires)
    BY <1>4, <1>7, <1>8, <1>11, <2>1 DEF TreeCore
  <2> QED
    BY <1>7, <2>2 DEF TreeInv
<1>13. ReadInv(job, shelf)
  BY <1>7, <1>8 DEF ReadInv
<1> QED
  BY <1>2, <1>6, <1>9, <1>10, <1>12, <1>13 DEF DepInv

(* The steps of each client.                                                *)
LEMMA ThunderstoreStep ==
  ASSUME DepInv, TSRoot \/ TSVisit
  PROVE  DepInv'
<1>1. job.provider = "thunderstore" /\ job \in Jobs /\ shelf \in ShelfTypes /\ QueueInv(job, shelf.requires) /\ UNCHANGED shelf
  BY DEF DepInv, TSRoot, TSVisit
<1>2. job' \in Jobs /\ QueueInv(job', shelf.requires)
  BY <1>1, TSRootStep, TSVisitStep
<1>3. job'.provider = "thunderstore"
  BY <1>1 DEF TSRoot, TSVisit, Fail, Jobs
<1> QED
  BY <1>1, <1>2, <1>3 DEF DepInv

LEMMA CurseForgeStep ==
  ASSUME DepInv, CFRoot \/ CFFile \/ CFSlug
  PROVE  DepInv'
<1>1. job.provider = "curseforge"
  <2>1. CASE CFRoot \/ CFFile
    BY <2>1 DEF CFRoot, CFFile
  <2>2. CASE CFSlug
    <3>1. job.provider \in Providers /\ job.at = "slug"
      BY <2>2 DEF DepInv, Jobs, Providers, CFSlug
    <3>2. job.provider # "modrinth"
      BY <3>1 DEF DepInv, TreeInv
    <3> QED
      BY <3>1, <3>2 DEF DepInv, QueueInv
  <2> QED
    BY <2>1, <2>2
<1>2. job \in Jobs /\ shelf \in ShelfTypes /\ CFInv(job, shelf) /\ UNCHANGED shelf
  BY <1>1 DEF DepInv, CFInv, CFRoot, CFFile, CFSlug
<1>3. job' \in Jobs /\ CFInv(job', shelf)
  BY <1>2, CFRootStep, CFFileStep, CFSlugStep
<1>4. job'.provider = "curseforge"
  BY <1>1, <1>2 DEF CFRoot, CFFile, CFSlug, Fail, Jobs
<1> QED
  BY <1>2, <1>3, <1>4 DEF DepInv, CFInv

LEMMA ModrinthStep ==
  ASSUME DepInv, MRRoot \/ MRVersions \/ MRProject \/ MRTransient
  PROVE  DepInv'
<1>1. job.provider = "modrinth"
  <2>1. job.at \in {"traverse", "list", "project"} \/ job.provider = "modrinth"
    BY DEF MRRoot, MRVersions, MRProject, MRTransient
  <2> QED
    BY <2>1 DEF DepInv, QueueInv
<1>2. job \in Jobs /\ shelf \in ShelfTypes /\ TreeInv(job, shelf.requires)
  BY <1>1 DEF DepInv
<1>3. UNCHANGED shelf
  BY DEF MRRoot, MRVersions, MRProject, MRTransient
<1>4. ModrinthOn
  BY <1>2, MRRootStep, MRVersionsStep, MRProjectStep, MRTransientStep
<1>5. Answered => ReadInv(job, shelf)
  <2>1. CASE MRRoot
    <3>1. job.visited = {} /\ job.out = <<>> /\ job.attempt = 0 /\ job.at = "root"
      BY <1>2, <2>1 DEF TreeInv, MRRoot
    <3>2. 0 <= job.faults
      BY <1>2, JobIs, DependenciesAssumption
    <3>3. Range(<<>>) = {}
      BY DEF Range
    <3> QED
      BY <3>1, <3>2, <3>3 DEF ReadInv
  <2>2. CASE MRVersions \/ MRProject \/ MRTransient
    <3>1. ~ job.ended
      BY <2>2 DEF MRVersions, MRProject, MRTransient
    <3> QED
      BY <1>1, <3>1 DEF DepInv
  <2> QED
    BY <2>1, <2>2
<1> QED
  BY <1>1, <1>2, <1>3, <1>4, <1>5 DEF DepInv, ModrinthOn

LEMMA EndingStep ==
  ASSUME DepInv, QueueDone \/ Cancel \/ MREnded
  PROVE  DepInv'
<1>1. UNCHANGED shelf /\ job \in Jobs /\ shelf \in ShelfTypes
  BY DEF QueueDone, Cancel, MREnded, DepInv
<1>2. CASE QueueDone
  <2>1. job.at = "loop"
    BY <1>2 DEF QueueDone
  <2>2. job.provider # "modrinth" /\ QueueInv(job, shelf.requires)
    BY <2>1 DEF DepInv, TreeInv
  <2>3. job' \in Jobs /\ QueueInv(job', shelf.requires) /\ job'.at = "done" /\ job'.out = job.out /\ job'.provider = job.provider
    BY <1>1, <1>2, <2>2, QueueEnds
  <2> QED
    BY <1>1, <2>2, <2>3 DEF DepInv, RunnableFiles
<1>3. CASE Fail /\ job.provider # "modrinth"
  <2>1. job' \in Jobs /\ QueueInv(job', shelf.requires)
    BY <1>1, <1>3, QueueFails DEF DepInv
  <2>2. job'.at = "failed" /\ job'.out = job.out /\ job'.provider = job.provider
    BY <1>1, <1>3, FailKeeps
  <2> QED
    BY <1>1, <1>3, <2>1, <2>2 DEF DepInv, RunnableFiles
<1>4. CASE Fail /\ job.provider = "modrinth"
  <2>1. ModrinthOn /\ job'.ended = job.ended
    BY <1>1, <1>4, MRFails DEF DepInv
  <2> QED
    BY <1>1, <1>4, <2>1 DEF DepInv, ModrinthOn
<1>5. CASE job.at \in {"project", "list"} /\ (MREnded \/ job' = [job EXCEPT !.ended = TRUE])
  <2>1. job.provider = "modrinth"
    BY <1>5 DEF DepInv, QueueInv
  <2>2. Ended
    BY <1>1, <1>5, <2>1, MREndStep, MREndedStep DEF DepInv
  <2> QED
    BY <1>1, <2>1, <2>2 DEF DepInv, Ended
<1>6. CASE MREnded
  BY <1>5, <1>6 DEF MREnded
<1>7. CASE Cancel
  BY <1>3, <1>4, <1>5, <1>7 DEF Cancel
<1> QED
  BY <1>2, <1>6, <1>7

LEMMA PublishStep ==
  ASSUME DepInv, PublishBuild
  PROVE  DepInv'
<1>1. PICK m \in Projects : shelf.top[m] < MaxBuild /\ shelf' = [shelf EXCEPT !.top[m] = @ + 1]
  BY DEF PublishBuild
<1>2. UNCHANGED job /\ job.provider \in Moving
  BY DEF PublishBuild
<1>3. shelf \in ShelfTypes /\ job \in Jobs
  BY DEF DepInv
<1> DEFINE t == [shelf.top EXCEPT ![m] = @ + 1]
<1>4. t \in [Projects -> 0 .. MaxBuild]
  <2>1. shelf.top \in [Projects -> 0 .. MaxBuild]
    BY <1>3 DEF ShelfTypes
  <2>2. shelf.top[m] \in 0 .. MaxBuild
    BY <2>1
  <2>3. shelf.top[m] + 1 \in 0 .. MaxBuild
    BY <1>1, <2>2, DependenciesAssumption
  <2> QED
    BY <2>1, <2>3
<1>5. shelf' = [shelf EXCEPT !.top = t]
  BY <1>1
<1> HIDE DEF t
<1>6. shelf' \in ShelfTypes /\ shelf'.requires = shelf.requires /\ shelf'.fits = shelf.fits /\ shelf'.restricted = shelf.restricted
  BY <1>3, <1>4, <1>5 DEF ShelfTypes
<1>7. job.provider = "modrinth" => ~ Answered
  BY <1>2 DEF Answered
<1> QED
  BY <1>2, <1>3, <1>6, <1>7 DEF DepInv

LEMMA DepStep ==
  ASSUME DepInv, [DependenciesNext]_depVars
  PROVE  DepInv'
<1>1. CASE UNCHANGED depVars
  BY <1>1 DEF DepInv, depVars
<1> QED
  BY <1>1, ThunderstoreStep, CurseForgeStep, ModrinthStep, EndingStep, PublishStep DEF DependenciesNext
(* What the invariant says of a Modrinth resolution.                         *)
LEMMA TreeIsInOrder ==
  ASSUME job \in Jobs, TreeCore(job, shelf.requires), job.provider = "modrinth"
  PROVE  ListedOnceAndNeeded
<1> DEFINE o == job.out
           f == job.found
           rd == job.read
<1>1. o \in Seq(Refs) /\ Len(o) \in Nat /\ Len(f) \in Nat
  BY JobIs
<1>2. FoundInOrder(f, rd, shelf.requires) /\ Len(o) <= Len(f) /\ \A i \in 1 .. Len(o) : o[i].mod = f[i]
  BY DEF TreeCore
<1>3. rd = job.read
  OBVIOUS
<1> HIDE DEF o, f, rd
<1>4. DOMAIN o = 1 .. Len(o)
  BY <1>1
<1> SUFFICES ASSUME NEW i \in 1 .. Len(o)
             PROVE  LET earlier == {o[k] : k \in 1..(i - 1)}
                    IN /\ \A e \in earlier : e.mod # o[i].mod
                       /\ \/ o[i].mod = Root /\ job.provider # "modrinth"
                          \/ \E e \in earlier : o[i].mod \in Needs(e.mod, e.build) \cup Needs(e.mod, job.read[e.mod])
                          \/ job.provider = "modrinth" /\ o[i].mod \in Needs(Root, job.read[Root])
  BY <1>4 DEF ListedOnceAndNeeded, o
<1>5. i \in 1 .. Len(f) /\ \A k \in 1 .. i - 1 : k \in 1 .. Len(o)
  BY <1>1, <1>2
<1>6. o[i].mod = f[i] /\ \A k \in 1 .. i - 1 : o[k].mod = f[k]
  BY <1>2, <1>5
<1>7. (\A k \in 1 .. i - 1 : f[k] # f[i]) /\ Known(f[i], i - 1, f, rd, shelf.requires)
  BY <1>2, <1>5 DEF FoundInOrder
<1>8. \A m, b : Needs(m, b) = N(shelf.requires, m, b)
  BY DEF Needs, N
<1>9. f[i] \in Needs(Root, job.read[Root]) \/ \E k \in 1 .. i - 1 : f[i] \in Needs(f[k], job.read[f[k]])
  BY <1>3, <1>7, <1>8 DEF Known
<1>10. f[i] \in Needs(Root, job.read[Root]) \/ \E k \in 1 .. i - 1 : f[i] \in Needs(o[k].mod, job.read[o[k].mod])
  BY <1>6, <1>9
<1>11. \A k \in 1 .. i - 1 : o[k].mod # o[i].mod
  BY <1>6, <1>7
<1>12. \/ \E e \in {o[k] : k \in 1..(i - 1)} : o[i].mod \in Needs(e.mod, e.build) \cup Needs(e.mod, job.read[e.mod])
       \/ o[i].mod \in Needs(Root, job.read[Root])
  BY <1>6, <1>10
<1> QED
  BY <1>11, <1>12

LEMMA TreeIsClosed ==
  ASSUME job \in Jobs, TreeInv(job, shelf.requires), job.ended \/ ReadInv(job, shelf), job.provider = "modrinth"
  PROVE  ResolvedIsClosed
<1> SUFFICES ASSUME job.at = "done", ~ job.ended
             PROVE  /\ \A e \in Range(job.out) : EntryNeeds(e) \subseteq Listed \cup {LoaderPack}
                    /\ Needs(Root, job.read[Root]) \subseteq Listed
  BY DEF ResolvedIsClosed
<1> DEFINE o == job.out
           f == job.found
<1>1. o \in Seq(Refs) /\ f \in Seq(Projects) /\ Len(o) \in Nat /\ Len(f) \in Nat
  BY JobIs
<1>2. /\ Len(o) <= Len(f) /\ ~ (Len(o) < Len(f)) /\ \A i \in 1 .. Len(o) : o[i].mod = f[i]
      /\ job.stack = <<>> /\ Root \in job.visited /\ Range(f) \subseteq job.visited /\ job.visited \subseteq {Root} \cup Range(f)
  BY DEF TreeInv, TreeCore
<1>3. Range(o) = {o[i] : i \in 1 .. Len(o)} /\ Range(f) = {f[i] : i \in 1 .. Len(f)}
  BY <1>1, RangeIs
<1>4. Listed = ModsOf(o) \cup {Root}
  BY DEF Listed, ModsOf
<1> HIDE DEF o, f
<1>5. Len(o) = Len(f)
  BY <1>1, <1>2
<1>6. \A x \in Range(f) : x \in ModsOf(o)
  BY <1>2, <1>3, <1>5 DEF ModsOf
<1>7. job.visited \subseteq Listed
  BY <1>2, <1>4, <1>6
<1>8. StackMods(<<>>) = {}
  <2>1. Len(<<>>) = 0
    OBVIOUS
  <2> QED
    BY <2>1 DEF StackMods
<1>9. \A x \in job.visited : Needs(x, job.read[x]) \subseteq Listed
  <2>1. \A x \in job.visited : N(shelf.requires, x, job.read[x]) \subseteq job.visited
    BY <1>2, <1>8 DEF ReadInv
  <2>2. \A x : Needs(x, job.read[x]) = N(shelf.requires, x, job.read[x])
    BY DEF Needs, N
  <2> QED
    BY <1>7, <2>1, <2>2
<1>10. ASSUME NEW e \in Range(o) PROVE EntryNeeds(e) \subseteq Listed
  <2>1. e.mod \in job.visited
    <3>1. PICK i \in 1 .. Len(o) : e = o[i]
      BY <1>3
    <3>2. e.mod = f[i] /\ f[i] \in Range(f)
      BY <1>2, <1>3, <1>5, <3>1
    <3> QED
      BY <1>2, <3>2
  <2>2. e.build # 0 => e.build = job.read[e.mod]
    BY <2>1 DEF ReadInv, o
  <2>3. EntryNeeds(e) = Needs(e.mod, job.read[e.mod])
    BY <2>2 DEF EntryNeeds
  <2> QED
    BY <1>9, <2>1, <2>3
<1> QED
  BY <1>2, <1>9, <1>10 DEF o

(* What holds of every resolution, whatever fails or is published meanwhile: *)
(* nothing is listed twice or without an earlier entry that needs it, every  *)
(* CurseForge file is for the Instance's version and may be distributed, and *)
(* a list of Thunderstore or CurseForge is closed (ResolveTree, Resolve,     *)
(* ResolveRequiredDependencies).  For any graph of projects.                 *)
THEOREM ResolutionsListWhatIsNeeded ==
  ASSUME NEW CONSTANT Shelves, \A p \in Providers : Shelves[p] \subseteq ShelfTypes
  PROVE  DependenciesSpec(Shelves)
           => [](DependenciesTypeOK /\ ListedOnceAndNeeded /\ CurseForgeFilesCanRun /\ (job.provider # "modrinth" => ResolvedIsClosed))
<1>1. DependenciesInit(Shelves) => DepInv
  BY DepStart
<1>2. DepInv /\ [DependenciesNext]_depVars => DepInv'
  BY DepStep
<1>3. DepInv => DependenciesTypeOK
  <2> SUFFICES ASSUME DepInv PROVE DependenciesTypeOK
    OBVIOUS
  <2>1. job \in Jobs /\ shelf \in ShelfTypes
    BY DEF DepInv
  <2>2. job.at \in Phases
    BY <2>1 DEF Jobs
  <2>3. \A r \in Range(job.queue) : r \in Refs
    BY <2>1, JobIs, RangeIs
  <2>4. \A r \in Range(job.queue) : r.mod \in Projects /\ r.build \in 0 .. MaxBuild
    BY <2>3 DEF Refs
  <2> QED
    BY <2>1, <2>2, <2>4, JobIs DEF DependenciesTypeOK, ShelfTypes, Required, Refs, Phases
<1>4. DepInv => ListedOnceAndNeeded
  BY QueueIsInOrder, TreeIsInOrder DEF DepInv, TreeInv
<1>5. DepInv => CurseForgeFilesCanRun
  BY DEF DepInv, RunnableFiles, CurseForgeFilesCanRun
<1>6. DepInv => (job.provider # "modrinth" => ResolvedIsClosed)
  BY QueueIsClosed DEF DepInv
<1> QED
  BY <1>1, <1>2, <1>3, <1>4, <1>5, <1>6, PTL DEF DependenciesSpec

(* ResolutionIsRight: what a resolution returns is complete, minimal and can  *)
(* be installed, on Modrinth as long as every request is answered at the     *)
(* latest when getJSON repeats it and nothing is published meanwhile; if the  *)
(* request's context ended, what is returned may be incomplete there.        *)
THEOREM ResolutionsAreRight ==
  ASSUME NEW CONSTANT Shelves, \A p \in Providers : Shelves[p] \subseteq ShelfTypes, Answered
  PROVE  DependenciesSpec(Shelves) => []ResolutionIsRight
<1>1. DependenciesInit(Shelves) => DepInv
  BY DepStart
<1>2. DepInv /\ [DependenciesNext]_depVars => DepInv'
  BY DepStep
<1>3. DepInv => ResolutionIsRight
  <2> SUFFICES ASSUME DepInv PROVE ResolutionIsRight
    OBVIOUS
  <2>1. ListedOnceAndNeeded
    BY QueueIsInOrder, TreeIsInOrder DEF DepInv, TreeInv
  <2>2. CurseForgeFilesCanRun
    BY DEF DepInv, RunnableFiles, CurseForgeFilesCanRun
  <2>3. ResolvedIsClosed
    BY QueueIsClosed, TreeIsClosed DEF DepInv
  <2> QED
    BY <2>1, <2>2, <2>3 DEF ResolutionIsRight
<1> QED
  BY <1>1, <1>2, <1>3, PTL DEF DependenciesSpec
=============================================================================
