----------------------- MODULE ComponentResolverProofs -----------------------
(***************************************************************************)
(* What the resolvers build, for every spec: the properties of             *)
(* ComponentResolver, proved.  The volumes, mounts and files of a component *)
(* are followed part by part as the resolver appends them; then its overlay *)
(* is added, of which nothing is known but its type.                       *)
(***************************************************************************)
EXTENDS ComponentResolver, Integers, TLAPS

-----------------------------------------------------------------------------
(* Sequences that are put together part by part                            *)

\* What If appends.
Part(ref, item) == IF ref = Nil THEN {} ELSE {item}

\* What is in a concatenation is in one of its parts.
LEMMA Concatenation ==
    ASSUME NEW S, NEW s \in Seq(S), NEW t \in Seq(S)
    PROVE  /\ s \o t \in Seq(S)
           /\ Items(s \o t) = Items(s) \cup Items(t)
           /\ \A i \in DOMAIN s : i \in DOMAIN (s \o t) /\ (s \o t)[i] = s[i]
           /\ \A i \in DOMAIN t : Len(s) + i \in DOMAIN (s \o t) /\ (s \o t)[Len(s) + i] = t[i]
           /\ \A i \in DOMAIN (s \o t) :
                 \/ i \in DOMAIN s /\ (s \o t)[i] = s[i]
                 \/ \E j \in DOMAIN t : i = Len(s) + j /\ (s \o t)[i] = t[j]
           /\ DOMAIN s = 1..Len(s) /\ DOMAIN t = 1..Len(t) /\ Len(s) \in Nat /\ Len(t) \in Nat
<1> DEFINE u == s \o t
<1>1. /\ u \in Seq(S) /\ Len(u) = Len(s) + Len(t)
      /\ \A i \in 1..Len(s) : u[i] = s[i]
      /\ \A i \in 1..Len(t) : u[Len(s) + i] = t[i]
      /\ DOMAIN s = 1..Len(s) /\ DOMAIN t = 1..Len(t) /\ DOMAIN u = 1..Len(u)
      /\ Len(s) \in Nat /\ Len(t) \in Nat
  OBVIOUS
<1>2. \A i \in DOMAIN u : \/ i \in DOMAIN s /\ u[i] = s[i]
                          \/ \E j \in DOMAIN t : i = Len(s) + j /\ u[i] = t[j]
  <2> SUFFICES ASSUME NEW i \in DOMAIN u, i \notin DOMAIN s
               PROVE  \E j \in DOMAIN t : i = Len(s) + j /\ u[i] = t[j]
    BY <1>1
  <2>1. i - Len(s) \in DOMAIN t /\ i = Len(s) + (i - Len(s))
    BY <1>1
  <2> QED
    BY <2>1, <1>1
<1> HIDE DEF u
<1>3. Items(u) = Items(s) \cup Items(t)
  <2>1. ASSUME NEW a \in Items(u) PROVE a \in Items(s) \cup Items(t)
    BY <1>2 DEF Items
  <2>2. ASSUME NEW a \in Items(s) PROVE a \in Items(u)
    BY <1>1 DEF Items
  <2>3. ASSUME NEW a \in Items(t) PROVE a \in Items(u)
    <3>1. PICK j \in 1..Len(t) : a = t[j]
      BY <1>1 DEF Items
    <3>2. Len(s) + j \in DOMAIN u /\ u[Len(s) + j] = a
      BY <1>1, <3>1
    <3> QED
      BY <3>2 DEF Items
  <2> QED
    BY <2>1, <2>2, <2>3
<1>4. /\ \A i \in DOMAIN s : i \in DOMAIN u /\ u[i] = s[i]
      /\ \A i \in DOMAIN t : Len(s) + i \in DOMAIN u /\ u[Len(s) + i] = t[i]
  BY <1>1
<1> QED
  BY <1>1, <1>2, <1>3, <1>4 DEF u

\* A concatenation has no name twice if and only if neither part has, and no
\* name is in both.
LEMMA DistinctConcatenation ==
    ASSUME NEW S, NEW s \in Seq(S), NEW t \in Seq(S)
    PROVE  DistinctNames(s \o t) <=>
              /\ DistinctNames(s) /\ DistinctNames(t)
              /\ \A a \in Items(s), b \in Items(t) : a.name # b.name
<1> DEFINE u == s \o t
           n == Len(s)
<1>1. /\ \A i \in DOMAIN s : i \in DOMAIN u /\ u[i] = s[i]
      /\ \A i \in DOMAIN t : n + i \in DOMAIN u /\ u[n + i] = t[i]
      /\ \A i \in DOMAIN u : \/ i \in DOMAIN s /\ u[i] = s[i]
                             \/ \E j \in DOMAIN t : i = n + j /\ u[i] = t[j]
      /\ DOMAIN s = 1..n /\ DOMAIN t = 1..Len(t) /\ n \in Nat /\ Len(t) \in Nat
  BY Concatenation
<1> HIDE DEF u, n
<1>2. ASSUME DistinctNames(s), DistinctNames(t), \A a \in Items(s), b \in Items(t) : a.name # b.name,
             NEW i \in DOMAIN u, NEW j \in DOMAIN u, u[i].name = u[j].name
      PROVE  i = j
  <2>1. \A a \in DOMAIN s, b \in DOMAIN t : s[a].name # t[b].name
    BY <1>2 DEF Items
  <2> QED
    BY <1>1, <1>2, <2>1 DEF DistinctNames
<1>3. ASSUME DistinctNames(u)
      PROVE  /\ DistinctNames(s) /\ DistinctNames(t)
             /\ \A a \in Items(s), b \in Items(t) : a.name # b.name
  <2>1. DistinctNames(s)
    BY <1>1, <1>3 DEF DistinctNames
  <2>2. DistinctNames(t)
    <3> SUFFICES ASSUME NEW i \in DOMAIN t, NEW j \in DOMAIN t, t[i].name = t[j].name
                 PROVE  i = j
      BY DEF DistinctNames
    <3>1. n + i = n + j
      BY <1>1, <1>3 DEF DistinctNames
    <3> QED
      BY <1>1, <3>1
  <2>3. ASSUME NEW i \in DOMAIN s, NEW j \in DOMAIN t
        PROVE  s[i].name # t[j].name
    <3>1. i # n + j
      BY <1>1
    <3> QED
      BY <1>1, <1>3, <3>1 DEF DistinctNames
  <2> QED
    BY <2>1, <2>2, <2>3 DEF Items
<1> QED
  BY <1>2, <1>3 DEF DistinctNames, u

\* The same of the paths of mounts.
LEMMA DistinctPathsConcatenation ==
    ASSUME NEW S, NEW s \in Seq(S), NEW t \in Seq(S)
    PROVE  DistinctPaths(s \o t) <=>
              /\ DistinctPaths(s) /\ DistinctPaths(t)
              /\ \A a \in Items(s), b \in Items(t) : a.path # b.path
<1> DEFINE u == s \o t
           n == Len(s)
<1>1. /\ \A i \in DOMAIN s : i \in DOMAIN u /\ u[i] = s[i]
      /\ \A i \in DOMAIN t : n + i \in DOMAIN u /\ u[n + i] = t[i]
      /\ \A i \in DOMAIN u : \/ i \in DOMAIN s /\ u[i] = s[i]
                             \/ \E j \in DOMAIN t : i = n + j /\ u[i] = t[j]
      /\ DOMAIN s = 1..n /\ DOMAIN t = 1..Len(t) /\ n \in Nat /\ Len(t) \in Nat
  BY Concatenation
<1> HIDE DEF u, n
<1>2. ASSUME DistinctPaths(s), DistinctPaths(t), \A a \in Items(s), b \in Items(t) : a.path # b.path,
             NEW i \in DOMAIN u, NEW j \in DOMAIN u, u[i].path = u[j].path
      PROVE  i = j
  <2>1. \A a \in DOMAIN s, b \in DOMAIN t : s[a].path # t[b].path
    BY <1>2 DEF Items
  <2> QED
    BY <1>1, <1>2, <2>1 DEF DistinctPaths
<1>3. ASSUME DistinctPaths(u)
      PROVE  /\ DistinctPaths(s) /\ DistinctPaths(t)
             /\ \A a \in Items(s), b \in Items(t) : a.path # b.path
  <2>1. DistinctPaths(s)
    BY <1>1, <1>3 DEF DistinctPaths
  <2>2. DistinctPaths(t)
    <3> SUFFICES ASSUME NEW i \in DOMAIN t, NEW j \in DOMAIN t, t[i].path = t[j].path
                 PROVE  i = j
      BY DEF DistinctPaths
    <3>1. n + i = n + j
      BY <1>1, <1>3 DEF DistinctPaths
    <3> QED
      BY <1>1, <3>1
  <2>3. ASSUME NEW i \in DOMAIN s, NEW j \in DOMAIN t
        PROVE  s[i].path # t[j].path
    <3>1. i # n + j
      BY <1>1
    <3> QED
      BY <1>1, <1>3, <3>1 DEF DistinctPaths
  <2> QED
    BY <2>1, <2>2, <2>3 DEF Items
<1> QED
  BY <1>2, <1>3 DEF DistinctPaths, u

\* One more part, if its reference is given.
LEMMA OneMore ==
    ASSUME NEW S, NEW s \in Seq(S), NEW ref, NEW item, ref # Nil => item \in S
    PROVE  /\ s \o If(ref, item) \in Seq(S)
           /\ Items(s \o If(ref, item)) = Items(s) \cup Part(ref, item)
           /\ If(ref, item) \in Seq(S)
           /\ Items(If(ref, item)) = Part(ref, item)
           /\ DistinctNames(s) /\ (\A a \in Items(s) : a.name # item.name)
                => DistinctNames(s \o If(ref, item))
<1> DEFINE t == If(ref, item)
<1>1. t \in Seq(S) /\ Items(t) = Part(ref, item) /\ DistinctNames(t)
  BY DEF If, Items, Part, DistinctNames
<1>2. \A b \in Items(t) : b = item
  BY <1>1 DEF Part
<1> HIDE DEF t
<1>3. s \o t \in Seq(S) /\ Items(s \o t) = Items(s) \cup Items(t)
  BY <1>1, Concatenation
<1>4. DistinctNames(s) /\ (\A a \in Items(s) : a.name # item.name) => DistinctNames(s \o t)
  BY <1>1, <1>2, DistinctConcatenation
<1> QED
  BY <1>1, <1>3, <1>4 DEF t

\* Sequences of one and of two items.
LEMMA Short ==
    ASSUME NEW S, NEW a \in S, NEW b \in S
    PROVE  /\ <<a>> \in Seq(S) /\ Items(<<a>>) = {a} /\ DistinctNames(<<a>>)
           /\ <<a, b>> \in Seq(S) /\ Items(<<a, b>>) = {a, b}
           /\ a.name # b.name => DistinctNames(<<a, b>>)
  BY DEF Items, DistinctNames

\* The mounts of volumes, each under the name of its volume.
MountsOf(volumes) == [i \in DOMAIN volumes |-> Mount(volumes[i].name, volumes[i].name)]

\* The mount of one more volume is one more mount.
LEMMA MountOfOneMore ==
    ASSUME NEW s \in Seq(AnyVolume), NEW ref, NEW name \in AnyName, NEW r, ref # Nil => r \in Secret
    PROVE  MountsOf(s \o If(ref, Volume(name, r))) = MountsOf(s) \o If(ref, Mount(name, name))
<1>1. \A v \in AnyVolume : v.name \in AnyName
  BY DEF AnyVolume
<1>2. /\ MountsOf(s) \in Seq(AnyMount) /\ Len(MountsOf(s)) = Len(s)
      /\ \A i \in 1..Len(s) : MountsOf(s)[i] = Mount(s[i].name, s[i].name)
  <2>1. \A v \in AnyVolume : Mount(v.name, v.name) \in AnyMount
    BY <1>1 DEF Mount, AnyMount
  <2>2. /\ Len(s) \in Nat /\ DOMAIN s = 1..Len(s)
        /\ \A i \in 1..Len(s) : s[i] \in AnyVolume
    OBVIOUS
  <2>3. MountsOf(s) = [i \in 1..Len(s) |-> Mount(s[i].name, s[i].name)]
    BY <2>2 DEF MountsOf
  <2>4. [i \in 1..Len(s) |-> Mount(s[i].name, s[i].name)] \in [1..Len(s) -> AnyMount]
    BY <2>1, <2>2
  <2> HIDE DEF MountsOf
  <2> QED
    BY <2>2, <2>3, <2>4
<1>3. CASE ref = Nil
  <2>1. If(ref, Volume(name, r)) = <<>> /\ If(ref, Mount(name, name)) = <<>>
    BY <1>3 DEF If
  <2>2. s \o <<>> = s /\ MountsOf(s) \o <<>> = MountsOf(s)
    BY <1>2
  <2> QED
    BY <2>1, <2>2
<1>4. CASE ref # Nil
  <2> DEFINE v == Volume(name, r)
             m == Mount(name, name)
  <2>1. If(ref, Volume(name, r)) = <<v>> /\ If(ref, Mount(name, name)) = <<m>>
    BY <1>4 DEF If
  <2>2. v \in AnyVolume /\ v.name = name /\ m \in AnyMount
    BY <1>4 DEF Volume, AnyVolume, Mount, AnyMount
  <2>3. m = Mount(v.name, v.name)
    BY <2>2
  <2> HIDE DEF v, m
  <2>4. /\ DOMAIN (s \o <<v>>) = 1..(Len(s) + 1)
        /\ \A i \in 1..Len(s) : (s \o <<v>>)[i] = s[i]
        /\ (s \o <<v>>)[Len(s) + 1] = v
        /\ Len(s) \in Nat
    BY <2>2
  <2>5. /\ MountsOf(s) \o <<m>> \in Seq(AnyMount)
        /\ DOMAIN (MountsOf(s) \o <<m>>) = 1..(Len(s) + 1)
        /\ \A i \in 1..Len(s) : (MountsOf(s) \o <<m>>)[i] = MountsOf(s)[i]
        /\ (MountsOf(s) \o <<m>>)[Len(s) + 1] = m
    BY <1>2, <2>2
  <2>6. MountsOf(s \o <<v>>)
            = [i \in 1..(Len(s) + 1) |-> Mount((s \o <<v>>)[i].name, (s \o <<v>>)[i].name)]
    BY <2>4 DEF MountsOf
  <2>7. MountsOf(s) \o <<m>> = [i \in 1..(Len(s) + 1) |-> (MountsOf(s) \o <<m>>)[i]]
    BY <2>5
  <2>8. \A i \in 1..(Len(s) + 1) :
            (MountsOf(s) \o <<m>>)[i] = Mount((s \o <<v>>)[i].name, (s \o <<v>>)[i].name)
    BY <1>2, <2>3, <2>4, <2>5
  <2> QED
    BY <2>1, <2>6, <2>7, <2>8
<1> QED
  BY <1>3, <1>4

\* Volumes, the mounts under the same names, and what the volumes are.
Fits(volumes, mounts, items) ==
    /\ volumes \in Seq(AnyVolume)
    /\ DistinctNames(volumes)
    /\ mounts = MountsOf(volumes)
    /\ Items(volumes) = items

\* One more volume and its mount, if the reference is given.
LEMMA NextVolume ==
    ASSUME NEW s, NEW m, NEW items, Fits(s, m, items),
           NEW ref, NEW name \in AnyName, NEW r, ref # Nil => r \in Secret,
           \A a \in items : a.name # name
    PROVE  Fits(s \o If(ref, Volume(name, r)), m \o If(ref, Mount(name, name)),
                items \cup Part(ref, Volume(name, r)))
<1> DEFINE v == Volume(name, r)
           t == s \o If(ref, v)
<1>1. s \in Seq(AnyVolume) /\ DistinctNames(s) /\ m = MountsOf(s) /\ Items(s) = items
  BY DEF Fits
<1>2. v.name = name /\ (ref # Nil => v \in AnyVolume)
  BY DEF Volume, AnyVolume
<1> HIDE DEF v
<1>3. t \in Seq(AnyVolume) /\ DistinctNames(t) /\ Items(t) = items \cup Part(ref, v)
  BY <1>1, <1>2, OneMore
<1>4. m \o If(ref, Mount(name, name)) = MountsOf(s \o If(ref, Volume(name, r)))
  BY <1>1, MountOfOneMore
<1> QED
  BY <1>3, <1>4 DEF Fits, v

\* One volume and two, as the resolvers begin with.
LEMMA FirstVolumes ==
    ASSUME NEW name \in AnyName, NEW r \in Secret, NEW other \in AnyName, NEW q \in Secret
    PROVE  /\ Fits(<<Volume(name, r)>>, <<Mount(name, name)>>, {Volume(name, r)})
           /\ name # other =>
                Fits(<<Volume(name, r), Volume(other, q)>>, <<Mount(name, name), Mount(other, other)>>,
                     {Volume(name, r), Volume(other, q)})
<1>1. /\ Volume(name, r) \in AnyVolume /\ Volume(other, q) \in AnyVolume
      /\ Volume(name, r).name = name /\ Volume(other, q).name = other
  BY DEF Volume, AnyVolume
<1> DEFINE v == Volume(name, r)
           w == Volume(other, q)
<1> HIDE DEF v, w
<1>2. /\ MountsOf(<<v>>) = <<Mount(v.name, v.name)>>
      /\ MountsOf(<<v, w>>) = <<Mount(v.name, v.name), Mount(w.name, w.name)>>
  BY DEF MountsOf
<1>3. /\ v \in AnyVolume /\ w \in AnyVolume /\ v.name = name /\ w.name = other
  BY <1>1 DEF v, w
<1>4. Fits(<<v>>, <<Mount(name, name)>>, {v})
  BY <1>2, <1>3, Short DEF Fits
<1>5. name # other => Fits(<<v, w>>, <<Mount(name, name), Mount(other, other)>>, {v, w})
  BY <1>2, <1>3, Short DEF Fits
<1> QED
  BY <1>4, <1>5 DEF v, w

\* Volumes of different names are mounted at different paths.
LEMMA MountsOfTyped ==
    ASSUME NEW s \in Seq(AnyVolume)
    PROVE  /\ MountsOf(s) \in Seq(AnyMount)
           /\ Items(MountsOf(s)) = {Mount(v.name, v.name) : v \in Items(s)}
           /\ DistinctNames(s) => DistinctPaths(MountsOf(s))
<1>1. \A v \in AnyVolume : v.name \in AnyName
  BY DEF AnyVolume
<1>2. \A v \in AnyVolume : Mount(v.name, v.name) \in AnyMount /\ Mount(v.name, v.name).path = v.name
  BY <1>1 DEF Mount, AnyMount
<1>3. /\ Len(s) \in Nat /\ DOMAIN s = 1..Len(s)
      /\ \A i \in 1..Len(s) : s[i] \in AnyVolume
  OBVIOUS
<1>4. MountsOf(s) = [i \in 1..Len(s) |-> Mount(s[i].name, s[i].name)]
  BY <1>3 DEF MountsOf
<1>5. [i \in 1..Len(s) |-> Mount(s[i].name, s[i].name)] \in [1..Len(s) -> AnyMount]
  BY <1>2, <1>3
<1>6. MountsOf(s) \in Seq(AnyMount)
  BY <1>3, <1>4, <1>5
<1>7. DOMAIN MountsOf(s) = DOMAIN s /\ \A i \in DOMAIN s : MountsOf(s)[i] = Mount(s[i].name, s[i].name)
  BY <1>3, <1>4
<1>8. Items(MountsOf(s)) = {Mount(v.name, v.name) : v \in Items(s)}
  BY <1>7 DEF Items
<1>9. DistinctNames(s) => DistinctPaths(MountsOf(s))
  BY <1>2, <1>3, <1>7 DEF DistinctNames, DistinctPaths
<1> QED
  BY <1>6, <1>8, <1>9

-----------------------------------------------------------------------------
(* A command line, and the files it names                                  *)

At(volumes, dir) == {u \in volumes : u.name = dir}

\* What a container finds whose mounts are those of these volumes.
FoundIn(files, volumes) ==
    UNION {{Use(f.flag, r, f.key) : r \in UNION {v.secrets : v \in At(volumes, f.dir)}} :
           f \in files}

\* Every file lies in a directory that is one of the volumes, and the uses are
\* what is found there.
Provides(files, volumes, uses) ==
    /\ files \in Seq(AnyFile)
    /\ \A f \in Items(files) : \E v \in volumes : v.name = f.dir
    /\ FoundIn(Items(files), volumes) = uses

\* What several files show is what each of them shows.
LEMMA FoundInUnion ==
    ASSUME NEW F, NEW G, NEW V
    PROVE  FoundIn(F \cup G, V) = FoundIn(F, V) \cup FoundIn(G, V)
  BY DEF FoundIn

\* A file of a known flag, directory and key.
LEMMA FileTyped ==
    ASSUME NEW flag \in Flag, NEW dir \in AnyName, NEW key \in AnyKey
    PROVE  /\ File(flag, dir, key) \in AnyFile
           /\ File(flag, dir, key).flag = flag
           /\ File(flag, dir, key).dir = dir
           /\ File(flag, dir, key).key = key
  BY DEF File, AnyFile

\* A file in the one volume of its directory shows that volume's secret.
LEMMA FoundInOne ==
    ASSUME NEW V, NEW f \in AnyFile, NEW r, At(V, f.dir) = {Volume(f.dir, r)}
    PROVE  /\ FoundIn({f}, V) = {Use(f.flag, r, f.key)}
           /\ \E v \in V : v.name = f.dir
<1> DEFINE v == Volume(f.dir, r)
<1>1. v.secrets = {r} /\ v.name = f.dir
  BY DEF Volume
<1>2. At(V, f.dir) = {v}
  OBVIOUS
<1> HIDE DEF v
<1>3. FoundIn({f}, V) = {Use(f.flag, q, f.key) : q \in UNION {w.secrets : w \in At(V, f.dir)}}
  BY DEF FoundIn
<1>4. UNION {w.secrets : w \in At(V, f.dir)} = {r}
  BY <1>1, <1>2
<1>5. FoundIn({f}, V) = {Use(f.flag, r, f.key)}
  BY <1>3, <1>4
<1>6. v \in V
  BY <1>2 DEF At
<1> QED
  BY <1>1, <1>5, <1>6

\* One more file, if the reference is given.
LEMMA NextFile ==
    ASSUME NEW s, NEW V, NEW uses, Provides(s, V, uses),
           NEW flag \in Flag, NEW dir \in AnyName, NEW key, NEW ref, NEW r,
           ref # Nil => key \in AnyKey,
           At(V, dir) = Part(ref, Volume(dir, r))
    PROVE  Provides(s \o If(ref, File(flag, dir, key)), V, uses \cup Part(ref, Use(flag, r, key)))
<1> DEFINE f == File(flag, dir, key)
           t == s \o If(ref, f)
<1>1. s \in Seq(AnyFile) /\ FoundIn(Items(s), V) = uses /\ \A g \in Items(s) : \E v \in V : v.name = g.dir
  BY DEF Provides
<1>2. ref # Nil => f \in AnyFile /\ f.flag = flag /\ f.dir = dir /\ f.key = key
  BY FileTyped
<1> HIDE DEF f
<1>3. /\ FoundIn(Part(ref, f), V) = Part(ref, Use(flag, r, key))
      /\ ref # Nil => f \in AnyFile /\ \E v \in V : v.name = f.dir
  <2>1. CASE ref = Nil
    BY <2>1 DEF FoundIn, Part
  <2>2. CASE ref # Nil
    <3>1. At(V, f.dir) = {Volume(f.dir, r)}
      BY <1>2, <2>2 DEF Part
    <3> QED
      BY <1>2, <2>2, <3>1, FoundInOne DEF Part
  <2> QED
    BY <2>1, <2>2
<1>4. t \in Seq(AnyFile) /\ Items(t) = Items(s) \cup Part(ref, f)
  BY <1>1, <1>3, OneMore
<1>5. \A g \in Items(t) : \E v \in V : v.name = g.dir
  BY <1>1, <1>3, <1>4 DEF Part
<1>6. FoundIn(Items(t), V) = uses \cup Part(ref, Use(flag, r, key))
  BY <1>1, <1>3, <1>4, FoundInUnion
<1> HIDE DEF t
<1>7. Provides(t, V, uses \cup Part(ref, Use(flag, r, key)))
  BY <1>4, <1>5, <1>6 DEF Provides
<1> QED
  BY <1>7 DEF t, f

\* One file and two, as the resolvers begin with.
LEMMA FirstFile ==
    ASSUME NEW V, NEW flag \in Flag, NEW dir \in AnyName, NEW key \in AnyKey, NEW r,
           At(V, dir) = {Volume(dir, r)}
    PROVE  Provides(<<File(flag, dir, key)>>, V, {Use(flag, r, key)})
<1> DEFINE f == File(flag, dir, key)
<1>1. f \in AnyFile /\ f.flag = flag /\ f.dir = dir /\ f.key = key
  BY FileTyped
<1> HIDE DEF f
<1>2. FoundIn({f}, V) = {Use(flag, r, key)} /\ \E v \in V : v.name = f.dir
  BY <1>1, FoundInOne
<1>3. Items(<<f>>) = {f} /\ <<f>> \in Seq(AnyFile)
  BY <1>1 DEF Items
<1>4. Provides(<<f>>, V, {Use(flag, r, key)})
  BY <1>2, <1>3 DEF Provides
<1> QED
  BY <1>4 DEF f

LEMMA FirstFiles ==
    ASSUME NEW V, NEW flag \in Flag, NEW dir \in AnyName, NEW key \in AnyKey, NEW r,
           NEW flag2 \in Flag, NEW dir2 \in AnyName, NEW key2 \in AnyKey, NEW r2,
           At(V, dir) = {Volume(dir, r)}, At(V, dir2) = {Volume(dir2, r2)}
    PROVE  Provides(<<File(flag, dir, key), File(flag2, dir2, key2)>>, V,
                    {Use(flag, r, key), Use(flag2, r2, key2)})
<1> DEFINE f == File(flag, dir, key)
           g == File(flag2, dir2, key2)
<1>1. Provides(<<f>>, V, {Use(flag, r, key)}) /\ Provides(<<g>>, V, {Use(flag2, r2, key2)})
  <2>1. Provides(<<f>>, V, {Use(flag, r, key)})
    BY FirstFile
  <2>2. Provides(<<g>>, V, {Use(flag2, r2, key2)})
    BY FirstFile
  <2> QED
    BY <2>1, <2>2
<1>2. f \in AnyFile /\ g \in AnyFile
  BY FileTyped
<1> HIDE DEF f, g
<1>3. /\ Items(<<f, g>>) = {f, g} /\ <<f, g>> \in Seq(AnyFile)
      /\ Items(<<f>>) = {f} /\ Items(<<g>>) = {g}
  <2>1. Items(<<f, g>>) = {f, g}
    BY DEF Items
  <2>2. <<f, g>> \in Seq(AnyFile)
    BY <1>2
  <2>3. Items(<<f>>) = {f}
    BY DEF Items
  <2>4. Items(<<g>>) = {g}
    BY DEF Items
  <2> QED
    BY <2>1, <2>2, <2>3, <2>4
<1>4. {f, g} = {f} \cup {g}
  OBVIOUS
<1>5. FoundIn({f, g}, V) = FoundIn({f}, V) \cup FoundIn({g}, V)
  BY <1>4, FoundInUnion
<1>6. FoundIn({f, g}, V) = {Use(flag, r, key), Use(flag2, r2, key2)}
  BY <1>1, <1>3, <1>5 DEF Provides
<1>7. Provides(<<f, g>>, V, {Use(flag, r, key), Use(flag2, r2, key2)})
  BY <1>1, <1>3, <1>6 DEF Provides
<1> QED
  BY <1>7 DEF f, g

\* The reference is written with sets of given references.
LEMMA GivenUses ==
    ASSUME NEW flag, NEW sel, NEW default
    PROVE  /\ {Use(flag, ref.name, StringOrDefault(ref.key, default)) : ref \in {sel} \ {Nil}}
                = Part(sel, Use(flag, sel.name, StringOrDefault(sel.key, default)))
  BY DEF Part

LEMMA GivenUse ==
    ASSUME NEW flag, NEW sel, NEW key
    PROVE  {Use(flag, ref.name, key) : ref \in {sel} \ {Nil}} = Part(sel, Use(flag, sel.name, key))
  BY DEF Part

LEMMA GivenPair ==
    ASSUME NEW flag, NEW flag2, NEW key, NEW key2, NEW r
    PROVE  UNION {{Use(flag, q, key), Use(flag2, q, key2)} : q \in {r} \ {Nil}}
                = Part(r, Use(flag, r, key)) \cup Part(r, Use(flag2, r, key2))
  BY DEF Part

\* A selector names a secret, and has a key in any case.
LEMMA Selected ==
    ASSUME NEW sel \in SecretSelector
    PROVE  /\ sel.name \in Secret
           /\ sel # Nil
           /\ \A default \in DefaultKey : StringOrDefault(sel.key, default) \in AnyKey
  BY NilAssumption DEF SecretSelector, Optional, StringOrDefault, AnyKey

\* What uses are read as, and the secrets of uses and of volumes, part by part.
ReadAs(uses) == {AsRead(u) : u \in uses}
SecretsUsed(uses) == {u.secret : u \in uses}
SecretsOf(items) == UNION {v.secrets : v \in items}

\* What one part of the uses is read as, and its secret; the secret of one volume.
LEMMA PartReadAs ==
    ASSUME NEW ref, NEW flag, NEW r, NEW key
    PROVE  /\ flag \notin API!KeyIgnored =>
                ReadAs(Part(ref, Use(flag, r, key))) = Part(ref, Use(flag, r, key))
           /\ flag \in API!KeyIgnored =>
                ReadAs(Part(ref, Use(flag, r, key))) = Part(ref, Use(flag, r, "tls.key"))
<1> DEFINE u == Use(flag, r, key)
<1>1. /\ flag \notin API!KeyIgnored => AsRead(u) = u
      /\ flag \in API!KeyIgnored => AsRead(u) = Use(flag, r, "tls.key")
  BY DEF Use, AsRead
<1> HIDE DEF u
<1>2. ReadAs(Part(ref, u)) = Part(ref, AsRead(u))
  BY DEF ReadAs, Part
<1> QED
  BY <1>1, <1>2 DEF u

LEMMA PartSecretsUsed ==
    ASSUME NEW ref, NEW flag, NEW r, NEW key
    PROVE  SecretsUsed(Part(ref, Use(flag, r, key))) = Part(ref, r)
<1> DEFINE u == Use(flag, r, key)
<1>1. u.secret = r
  BY DEF Use
<1> HIDE DEF u
<1>2. SecretsUsed(Part(ref, u)) = Part(ref, r)
  BY <1>1 DEF SecretsUsed, Part
<1> QED
  BY <1>2 DEF u

LEMMA PartSecretsOf ==
    ASSUME NEW ref, NEW name, NEW r
    PROVE  SecretsOf(Part(ref, Volume(name, r))) = Part(ref, r)
<1> DEFINE v == Volume(name, r)
<1>1. v.secrets = {r}
  BY DEF Volume
<1> HIDE DEF v
<1>2. SecretsOf(Part(ref, v)) = Part(ref, r)
  BY <1>1 DEF SecretsOf, Part
<1> QED
  BY <1>2 DEF v

\* The instances share the types of PodRendering.
LEMMA SameTypes ==
    /\ API!SecretSelector = SecretSelector /\ KCM!SecretSelector = SecretSelector
    /\ KS!SecretSelector = SecretSelector
    /\ API!UserSelector = UserSelector /\ KCM!UserSelector = UserSelector
    /\ KS!UserSelector = UserSelector
    /\ API!Overlay = Overlay /\ KCM!Overlay = Overlay /\ KS!Overlay = Overlay
<1>1. API!SecretSelector = SecretSelector /\ KCM!SecretSelector = SecretSelector
      /\ KS!SecretSelector = SecretSelector
  BY DEF API!SecretSelector, KCM!SecretSelector, KS!SecretSelector, SecretSelector,
         API!Optional, KCM!Optional, KS!Optional, Optional
<1>2. API!UserSelector = UserSelector /\ KCM!UserSelector = UserSelector
      /\ KS!UserSelector = UserSelector
  BY DEF API!UserSelector, KCM!UserSelector, KS!UserSelector, UserSelector
<1>3. API!Overlay = Overlay
  BY DEF API!Overlay, Overlay, API!Labels, Labels, API!App, App, API!AnyVolume, AnyVolume,
         API!AnyMount, AnyMount, API!AnyEnvVar, AnyEnvVar, API!AnyKey, AnyKey, API!DefaultKey, DefaultKey,
         API!AnyName, AnyName, API!OwnName, OwnName,
         API!UserContainer, UserContainer, API!Optional, Optional
<1>4. KCM!Overlay = Overlay
  BY DEF KCM!Overlay, Overlay, KCM!Labels, Labels, KCM!App, App, KCM!AnyVolume, AnyVolume,
         KCM!AnyMount, AnyMount, KCM!AnyEnvVar, AnyEnvVar, KCM!AnyKey, AnyKey, KCM!DefaultKey, DefaultKey,
         KCM!AnyName, AnyName, KCM!OwnName, OwnName,
         KCM!UserContainer, UserContainer, KCM!Optional, Optional
<1>5. KS!Overlay = Overlay
  BY DEF KS!Overlay, Overlay, KS!Labels, Labels, KS!App, App, KS!AnyVolume, AnyVolume,
         KS!AnyMount, AnyMount, KS!AnyEnvVar, AnyEnvVar, KS!AnyKey, AnyKey, KS!DefaultKey, DefaultKey,
         KS!AnyName, AnyName, KS!OwnName, OwnName,
         KS!UserContainer, UserContainer, KS!Optional, Optional
<1> QED
  BY <1>1, <1>2, <1>3, <1>4, <1>5

-----------------------------------------------------------------------------
(* The KubeAPIServer                                                       *)

LEMMA APIServerTyped ==
    ASSUME NEW x \in API!APIServerSpec
    PROVE  /\ x.keySecret \in SecretSelector /\ x.signingKeySecret \in SecretSelector
           /\ x.secureServing # Nil => x.secureServing \in Secret
           /\ x.token # Nil => x.token \in SecretSelector
           /\ x.clientCA # Nil => x.clientCA \in SecretSelector
           /\ x.etcdCA # Nil => x.etcdCA \in SecretSelector
           /\ x.etcdKey # Nil => x.etcdKey \in SecretSelector
           /\ x.anonymous \in BOOLEAN
           /\ x.overlay \in Overlay
           /\ x.selector # Nil => x.selector = UserSelector
<1> DEFINE Sel == SecretSelector
           O == Overlay
           U == UserSelector
<1>1. x \in [keySecret: Sel, signingKeySecret: Sel, secureServing: Secret \cup {Nil},
             token: Sel \cup {Nil}, clientCA: Sel \cup {Nil}, etcdCA: Sel \cup {Nil},
             etcdKey: Sel \cup {Nil}, anonymous: BOOLEAN, selector: {U} \cup {Nil}, overlay: O]
  BY SameTypes DEF API!APIServerSpec, API!Optional
<1> HIDE DEF Sel, O, U
<1>2. /\ x.keySecret \in Sel /\ x.signingKeySecret \in Sel
      /\ x.secureServing \in Secret \cup {Nil} /\ x.token \in Sel \cup {Nil}
      /\ x.clientCA \in Sel \cup {Nil} /\ x.etcdCA \in Sel \cup {Nil} /\ x.etcdKey \in Sel \cup {Nil}
      /\ x.anonymous \in BOOLEAN /\ x.selector \in {U} \cup {Nil} /\ x.overlay \in O
  BY <1>1
<1> QED
  BY <1>2 DEF Sel, O, U

APIServerItems(x) ==
    Part(x.keySecret, Volume("service-account-key", x.keySecret.name))
    \cup Part(x.signingKeySecret, Volume("service-account-skey", x.signingKeySecret.name))
    \cup Part(x.secureServing, Volume("tls", x.secureServing))
    \cup Part(x.token, Volume("token", x.token.name))
    \cup Part(x.clientCA, Volume("client-ca", x.clientCA.name))
    \cup Part(x.etcdCA, Volume("etcd-ca", x.etcdCA.name))
    \cup Part(x.etcdKey, Volume("etcd-key", x.etcdKey.name))

\* Each volume is mounted under its own name, and no two have one name.
LEMMA APIServerVolumes ==
    ASSUME NEW x \in API!APIServerSpec
    PROVE  Fits(API!Volumes(x), API!VolumeMounts(x), APIServerItems(x))
<1> DEFINE v0 == <<Volume("service-account-key", x.keySecret.name),
                   Volume("service-account-skey", x.signingKeySecret.name)>>
           v1 == v0 \o If(x.secureServing, Volume("tls", x.secureServing))
           v2 == v1 \o If(x.token, Volume("token", x.token.name))
           v3 == v2 \o If(x.clientCA, Volume("client-ca", x.clientCA.name))
           v4 == v3 \o If(x.etcdCA, Volume("etcd-ca", x.etcdCA.name))
           v5 == v4 \o If(x.etcdKey, Volume("etcd-key", x.etcdKey.name))
           m0 == <<Mount("service-account-key", "service-account-key"),
                   Mount("service-account-skey", "service-account-skey")>>
           m1 == m0 \o If(x.secureServing, Mount("tls", "tls"))
           m2 == m1 \o If(x.token, Mount("token", "token"))
           m3 == m2 \o If(x.clientCA, Mount("client-ca", "client-ca"))
           m4 == m3 \o If(x.etcdCA, Mount("etcd-ca", "etcd-ca"))
           m5 == m4 \o If(x.etcdKey, Mount("etcd-key", "etcd-key"))
           i0 == Part(x.keySecret, Volume("service-account-key", x.keySecret.name))
                 \cup Part(x.signingKeySecret, Volume("service-account-skey", x.signingKeySecret.name))
           i1 == i0 \cup Part(x.secureServing, Volume("tls", x.secureServing))
           i2 == i1 \cup Part(x.token, Volume("token", x.token.name))
           i3 == i2 \cup Part(x.clientCA, Volume("client-ca", x.clientCA.name))
           i4 == i3 \cup Part(x.etcdCA, Volume("etcd-ca", x.etcdCA.name))
           i5 == i4 \cup Part(x.etcdKey, Volume("etcd-key", x.etcdKey.name))
<1>1. API!Volumes(x) = v5 /\ API!VolumeMounts(x) = m5
  BY DEF API!Volumes, API!VolumeMounts, API!Volume, API!Mount, API!If, Volume, Mount, If
<1>2. /\ x.keySecret.name \in Secret /\ x.keySecret # Nil
      /\ x.signingKeySecret.name \in Secret /\ x.signingKeySecret # Nil
      /\ x.secureServing # Nil => x.secureServing \in Secret
      /\ x.token # Nil => x.token.name \in Secret
      /\ x.clientCA # Nil => x.clientCA.name \in Secret
      /\ x.etcdCA # Nil => x.etcdCA.name \in Secret
      /\ x.etcdKey # Nil => x.etcdKey.name \in Secret
  BY APIServerTyped, Selected
<1>3. /\ "service-account-key" \in AnyName
      /\ "service-account-skey" \in AnyName
      /\ "tls" \in AnyName
      /\ "token" \in AnyName
      /\ "client-ca" \in AnyName
      /\ "etcd-ca" \in AnyName
      /\ "etcd-key" \in AnyName
  BY DEF AnyName, OwnName
<1>4. Fits(v0, m0, i0)
  <2>1. i0 = {Volume("service-account-key", x.keySecret.name), Volume("service-account-skey",
          x.signingKeySecret.name)}
    BY <1>2 DEF Part
  <2> HIDE DEF i0
  <2> QED
    BY <1>2, <1>3, <2>1, FirstVolumes
<1>5. \A a \in i0 : a.name \notin {"tls", "token", "client-ca", "etcd-ca", "etcd-key"}
  BY DEF Part, Volume
<1> HIDE DEF v0, m0, i0
<1>6. Fits(v1, m1, i1)
  BY <1>2, <1>3, <1>4, <1>5, NextVolume
<1>7. \A a \in i1 : a.name \notin {"token", "client-ca", "etcd-ca", "etcd-key"}
  BY <1>5 DEF Part, Volume
<1> HIDE DEF v1, m1, i1
<1>8. Fits(v2, m2, i2)
  BY <1>2, <1>3, <1>6, <1>7, NextVolume
<1>9. \A a \in i2 : a.name \notin {"client-ca", "etcd-ca", "etcd-key"}
  BY <1>7 DEF Part, Volume
<1> HIDE DEF v2, m2, i2
<1>10. Fits(v3, m3, i3)
  BY <1>2, <1>3, <1>8, <1>9, NextVolume
<1>11. \A a \in i3 : a.name \notin {"etcd-ca", "etcd-key"}
  BY <1>9 DEF Part, Volume
<1> HIDE DEF v3, m3, i3
<1>12. Fits(v4, m4, i4)
  BY <1>2, <1>3, <1>10, <1>11, NextVolume
<1>13. \A a \in i4 : a.name \notin {"etcd-key"}
  BY <1>11 DEF Part, Volume
<1> HIDE DEF v4, m4, i4
<1>14. Fits(v5, m5, i5)
  BY <1>2, <1>3, <1>12, <1>13, NextVolume
<1> HIDE DEF v5, m5, i5
<1> QED
  BY <1>1, <1>14 DEF APIServerItems, i0, i1, i2, i3, i4, i5

APIServerReads(x) ==
    Part(x.keySecret, Use("service-account-key-file", x.keySecret.name, "tls.key"))
    \cup Part(x.signingKeySecret, Use("service-account-signing-key-file", x.signingKeySecret.name,
            "tls.key"))
    \cup Part(x.secureServing, Use("tls-cert-file", x.secureServing, "tls.crt"))
    \cup Part(x.secureServing, Use("tls-private-key-file", x.secureServing, "tls.key"))
    \cup Part(x.token, Use("token-auth-file", x.token.name, StringOrDefault(x.token.key, "token.csv")))
    \cup Part(x.clientCA, Use("client-ca-file", x.clientCA.name, StringOrDefault(x.clientCA.key,
            "ca.crt")))
    \cup Part(x.etcdCA, Use("etcd-cafile", x.etcdCA.name, StringOrDefault(x.etcdCA.key, "ca.crt")))
    \cup Part(x.etcdKey, Use("etcd-certfile", x.etcdKey.name, "tls.crt"))
    \cup Part(x.etcdKey, Use("etcd-keyfile", x.etcdKey.name, "tls.key"))

\* Each flag names a file of the volume that was made for it.
LEMMA APIServerCommand ==
    ASSUME NEW x \in API!APIServerSpec
    PROVE  Provides(API!Command(x), APIServerItems(x), APIServerReads(x))
<1> DEFINE V == APIServerItems(x)
           s0 == <<File("service-account-key-file", "service-account-key", "tls.key"),
                   File("service-account-signing-key-file", "service-account-skey", "tls.key")>>
           s1 == s0 \o If(x.secureServing, File("tls-cert-file", "tls", "tls.crt"))
           s2 == s1 \o If(x.secureServing, File("tls-private-key-file", "tls", "tls.key"))
           s3 == s2 \o If(x.token, File("token-auth-file", "token", StringOrDefault(x.token.key,
                   "token.csv")))
           s4 == s3 \o If(x.clientCA, File("client-ca-file", "client-ca",
                   StringOrDefault(x.clientCA.key, "ca.crt")))
           s5 == s4 \o If(x.etcdCA, File("etcd-cafile", "etcd-ca", StringOrDefault(x.etcdCA.key,
                   "ca.crt")))
           s6 == s5 \o If(x.etcdKey, File("etcd-certfile", "etcd-key", "tls.crt"))
           s7 == s6 \o If(x.etcdKey, File("etcd-keyfile", "etcd-key", "tls.key"))
           u0 == Part(x.keySecret, Use("service-account-key-file", x.keySecret.name, "tls.key"))
                 \cup Part(x.signingKeySecret, Use("service-account-signing-key-file",
                    x.signingKeySecret.name, "tls.key"))
           u1 == u0 \cup Part(x.secureServing, Use("tls-cert-file", x.secureServing, "tls.crt"))
           u2 == u1 \cup Part(x.secureServing, Use("tls-private-key-file", x.secureServing, "tls.key"))
           u3 == u2 \cup Part(x.token, Use("token-auth-file", x.token.name,
                   StringOrDefault(x.token.key, "token.csv")))
           u4 == u3 \cup Part(x.clientCA, Use("client-ca-file", x.clientCA.name,
                   StringOrDefault(x.clientCA.key, "ca.crt")))
           u5 == u4 \cup Part(x.etcdCA, Use("etcd-cafile", x.etcdCA.name,
                   StringOrDefault(x.etcdCA.key, "ca.crt")))
           u6 == u5 \cup Part(x.etcdKey, Use("etcd-certfile", x.etcdKey.name, "tls.crt"))
           u7 == u6 \cup Part(x.etcdKey, Use("etcd-keyfile", x.etcdKey.name, "tls.key"))
<1>1. /\ At(V, "service-account-key") = Part(x.keySecret, Volume("service-account-key",
        x.keySecret.name))
      /\ At(V, "service-account-skey") = Part(x.signingKeySecret, Volume("service-account-skey",
              x.signingKeySecret.name))
      /\ At(V, "tls") = Part(x.secureServing, Volume("tls", x.secureServing))
      /\ At(V, "token") = Part(x.token, Volume("token", x.token.name))
      /\ At(V, "client-ca") = Part(x.clientCA, Volume("client-ca", x.clientCA.name))
      /\ At(V, "etcd-ca") = Part(x.etcdCA, Volume("etcd-ca", x.etcdCA.name))
      /\ At(V, "etcd-key") = Part(x.etcdKey, Volume("etcd-key", x.etcdKey.name))
  <2>1. At(V, "service-account-key") = Part(x.keySecret, Volume("service-account-key",
          x.keySecret.name))
    BY DEF At, APIServerItems, Part, Volume
  <2>2. At(V, "service-account-skey") = Part(x.signingKeySecret, Volume("service-account-skey",
          x.signingKeySecret.name))
    BY DEF At, APIServerItems, Part, Volume
  <2>3. At(V, "tls") = Part(x.secureServing, Volume("tls", x.secureServing))
    BY DEF At, APIServerItems, Part, Volume
  <2>4. At(V, "token") = Part(x.token, Volume("token", x.token.name))
    BY DEF At, APIServerItems, Part, Volume
  <2>5. At(V, "client-ca") = Part(x.clientCA, Volume("client-ca", x.clientCA.name))
    BY DEF At, APIServerItems, Part, Volume
  <2>6. At(V, "etcd-ca") = Part(x.etcdCA, Volume("etcd-ca", x.etcdCA.name))
    BY DEF At, APIServerItems, Part, Volume
  <2>7. At(V, "etcd-key") = Part(x.etcdKey, Volume("etcd-key", x.etcdKey.name))
    BY DEF At, APIServerItems, Part, Volume
  <2> QED
    BY <2>1, <2>2, <2>3, <2>4, <2>5, <2>6, <2>7
<1>2. /\ x.token # Nil => StringOrDefault(x.token.key, "token.csv") \in AnyKey
      /\ x.clientCA # Nil => StringOrDefault(x.clientCA.key, "ca.crt") \in AnyKey
      /\ x.etcdCA # Nil => StringOrDefault(x.etcdCA.key, "ca.crt") \in AnyKey
      /\ x.keySecret # Nil
      /\ x.signingKeySecret # Nil
  BY APIServerTyped, Selected DEF DefaultKey
<1>3. /\ "service-account-key" \in AnyName
      /\ "service-account-skey" \in AnyName
      /\ "tls" \in AnyName
      /\ "token" \in AnyName
      /\ "client-ca" \in AnyName
      /\ "etcd-ca" \in AnyName
      /\ "etcd-key" \in AnyName
      /\ "service-account-key-file" \in Flag
      /\ "service-account-signing-key-file" \in Flag
      /\ "tls-cert-file" \in Flag
      /\ "tls-private-key-file" \in Flag
      /\ "token-auth-file" \in Flag
      /\ "client-ca-file" \in Flag
      /\ "etcd-cafile" \in Flag
      /\ "etcd-certfile" \in Flag
      /\ "etcd-keyfile" \in Flag
      /\ "tls.crt" \in AnyKey
      /\ "tls.key" \in AnyKey
  BY DEF AnyName, OwnName, Flag, AnyKey, DefaultKey
<1> HIDE DEF V
<1>4. Provides(s0, V, u0)
  <2>1. u0 = {Use("service-account-key-file", x.keySecret.name, "tls.key"),
          Use("service-account-signing-key-file", x.signingKeySecret.name, "tls.key")}
    BY <1>2 DEF Part
  <2>2. At(V, "service-account-key") = {Volume("service-account-key", x.keySecret.name)} /\ At(V,
          "service-account-skey") = {Volume("service-account-skey", x.signingKeySecret.name)}
    BY <1>1, <1>2 DEF Part
  <2> HIDE DEF u0
  <2> QED
    BY <1>2, <1>3, <2>1, <2>2, FirstFiles
<1> HIDE DEF s0, u0
<1>5. Provides(s1, V, u1)
  BY <1>1, <1>2, <1>3, <1>4, NextFile
<1> HIDE DEF s1, u1
<1>6. Provides(s2, V, u2)
  BY <1>1, <1>2, <1>3, <1>5, NextFile
<1> HIDE DEF s2, u2
<1>7. Provides(s3, V, u3)
  BY <1>1, <1>2, <1>3, <1>6, NextFile
<1> HIDE DEF s3, u3
<1>8. Provides(s4, V, u4)
  BY <1>1, <1>2, <1>3, <1>7, NextFile
<1> HIDE DEF s4, u4
<1>9. Provides(s5, V, u5)
  BY <1>1, <1>2, <1>3, <1>8, NextFile
<1> HIDE DEF s5, u5
<1>10. Provides(s6, V, u6)
  BY <1>1, <1>2, <1>3, <1>9, NextFile
<1> HIDE DEF s6, u6
<1>11. Provides(s7, V, u7)
  BY <1>1, <1>2, <1>3, <1>10, NextFile
<1> HIDE DEF s7, u7
<1>12. API!Command(x) = s7
  BY DEF API!Command, API!File, API!If, API!StringOrDefault, File, If, StringOrDefault,
     s0, s1, s2, s3, s4, s5, s6, s7
<1>13. APIServerReads(x) = u7
  BY DEF APIServerReads, u0, u1, u2, u3, u4, u5, u6, u7
<1> QED
  BY <1>11, <1>12, <1>13 DEF V

\* The reference, part by part.
LEMMA APIServerUses ==
    ASSUME NEW x \in API!APIServerSpec
    PROVE  API!Uses(x) =
             Part(x.keySecret, Use("service-account-key-file", x.keySecret.name,
                    StringOrDefault(x.keySecret.key, "tls.key")))
             \cup Part(x.signingKeySecret, Use("service-account-signing-key-file",
                    x.signingKeySecret.name, StringOrDefault(x.signingKeySecret.key, "tls.key")))
             \cup Part(x.secureServing, Use("tls-cert-file", x.secureServing, "tls.crt"))
             \cup Part(x.secureServing, Use("tls-private-key-file", x.secureServing, "tls.key"))
             \cup Part(x.token, Use("token-auth-file", x.token.name, StringOrDefault(x.token.key,
                    "token.csv")))
             \cup Part(x.clientCA, Use("client-ca-file", x.clientCA.name,
                    StringOrDefault(x.clientCA.key, "ca.crt")))
             \cup Part(x.etcdCA, Use("etcd-cafile", x.etcdCA.name, StringOrDefault(x.etcdCA.key,
                    "ca.crt")))
             \cup Part(x.etcdKey, Use("etcd-certfile", x.etcdKey.name, "tls.crt"))
             \cup Part(x.etcdKey, Use("etcd-keyfile", x.etcdKey.name,
                    StringOrDefault(x.etcdKey.key, "tls.key")))
<1> DEFINE c1 == {Use("service-account-key-file", ref.name, StringOrDefault(ref.key,
        "tls.key")) : ref \in {x.keySecret} \ {Nil}}
           c2 == {Use("service-account-signing-key-file", ref.name, StringOrDefault(ref.key,
                   "tls.key")) : ref \in {x.signingKeySecret} \ {Nil}}
           c3 == UNION {{Use("tls-cert-file", q, "tls.crt"), Use("tls-private-key-file", q,
                   "tls.key")} : q \in {x.secureServing} \ {Nil}}
           c4 == {Use("token-auth-file", ref.name, StringOrDefault(ref.key,
                   "token.csv")) : ref \in {x.token} \ {Nil}}
           c5 == {Use("client-ca-file", ref.name, StringOrDefault(ref.key,
                   "ca.crt")) : ref \in {x.clientCA} \ {Nil}}
           c6 == {Use("etcd-cafile", ref.name, StringOrDefault(ref.key,
                   "ca.crt")) : ref \in {x.etcdCA} \ {Nil}}
           c7 == {Use("etcd-certfile", ref.name, "tls.crt") : ref \in {x.etcdKey} \ {Nil}}
           c8 == {Use("etcd-keyfile", ref.name, StringOrDefault(ref.key,
                   "tls.key")) : ref \in {x.etcdKey} \ {Nil}}
<1>1. API!Uses(x) = c1 \cup c2 \cup c3 \cup c4 \cup c5 \cup c6 \cup c7 \cup c8
  BY DEF API!Uses, API!Use, API!UseOf, API!Given, API!StringOrDefault, Use, StringOrDefault
<1>2. c1 = Part(x.keySecret, Use("service-account-key-file", x.keySecret.name,
        StringOrDefault(x.keySecret.key, "tls.key")))
  BY GivenUses
<1>3. c2 = Part(x.signingKeySecret, Use("service-account-signing-key-file",
        x.signingKeySecret.name, StringOrDefault(x.signingKeySecret.key, "tls.key")))
  BY GivenUses
<1>4. c3 = Part(x.secureServing, Use("tls-cert-file", x.secureServing, "tls.crt"))
               \cup Part(x.secureServing, Use("tls-private-key-file", x.secureServing, "tls.key"))
  BY GivenPair
<1>5. c4 = Part(x.token, Use("token-auth-file", x.token.name, StringOrDefault(x.token.key,
        "token.csv")))
  BY GivenUses
<1>6. c5 = Part(x.clientCA, Use("client-ca-file", x.clientCA.name, StringOrDefault(x.clientCA.key,
        "ca.crt")))
  BY GivenUses
<1>7. c6 = Part(x.etcdCA, Use("etcd-cafile", x.etcdCA.name, StringOrDefault(x.etcdCA.key, "ca.crt")))
  BY GivenUses
<1>8. c7 = Part(x.etcdKey, Use("etcd-certfile", x.etcdKey.name, "tls.crt"))
  BY GivenUse
<1>9. c8 = Part(x.etcdKey, Use("etcd-keyfile", x.etcdKey.name, StringOrDefault(x.etcdKey.key,
        "tls.key")))
  BY GivenUses
<1> HIDE DEF c1, c2, c3, c4, c5, c6, c7, c8
<1> QED
  BY <1>1, <1>2, <1>3, <1>4, <1>5, <1>6, <1>7, <1>8, <1>9

\* The reference names the secrets that are mounted and those that are requested.
LEMMA APIServerAgrees ==
    ASSUME NEW x \in API!APIServerSpec
    PROVE  /\ ReadAs(API!Uses(x)) = APIServerReads(x)
           /\ SecretsUsed(API!Uses(x)) = API!Requests(x)
           /\ SecretsOf(APIServerItems(x)) = API!Requests(x)
<1> DEFINE p1 == Part(x.keySecret, Use("service-account-key-file", x.keySecret.name,
        StringOrDefault(x.keySecret.key, "tls.key")))
           p2 == Part(x.signingKeySecret, Use("service-account-signing-key-file",
                   x.signingKeySecret.name, StringOrDefault(x.signingKeySecret.key, "tls.key")))
           p3 == Part(x.secureServing, Use("tls-cert-file", x.secureServing, "tls.crt"))
           p4 == Part(x.secureServing, Use("tls-private-key-file", x.secureServing, "tls.key"))
           p5 == Part(x.token, Use("token-auth-file", x.token.name, StringOrDefault(x.token.key,
                   "token.csv")))
           p6 == Part(x.clientCA, Use("client-ca-file", x.clientCA.name,
                   StringOrDefault(x.clientCA.key, "ca.crt")))
           p7 == Part(x.etcdCA, Use("etcd-cafile", x.etcdCA.name, StringOrDefault(x.etcdCA.key,
                   "ca.crt")))
           p8 == Part(x.etcdKey, Use("etcd-certfile", x.etcdKey.name, "tls.crt"))
           p9 == Part(x.etcdKey, Use("etcd-keyfile", x.etcdKey.name, StringOrDefault(x.etcdKey.key,
                   "tls.key")))
<1>1. /\ ReadAs(p1) = Part(x.keySecret, Use("service-account-key-file", x.keySecret.name, "tls.key"))
      /\ SecretsUsed(p1) = Part(x.keySecret, x.keySecret.name)
  <2>1. "service-account-key-file" \in API!KeyIgnored
    BY DEF API!KeyIgnored
  <2> QED
    BY <2>1, PartReadAs, PartSecretsUsed
<1>2. /\ ReadAs(p2) = Part(x.signingKeySecret, Use("service-account-signing-key-file",
        x.signingKeySecret.name, "tls.key"))
      /\ SecretsUsed(p2) = Part(x.signingKeySecret, x.signingKeySecret.name)
  <2>1. "service-account-signing-key-file" \in API!KeyIgnored
    BY DEF API!KeyIgnored
  <2> QED
    BY <2>1, PartReadAs, PartSecretsUsed
<1>3. /\ ReadAs(p3) = Part(x.secureServing, Use("tls-cert-file", x.secureServing, "tls.crt"))
      /\ SecretsUsed(p3) = Part(x.secureServing, x.secureServing)
  <2>1. "tls-cert-file" \notin API!KeyIgnored
    BY DEF API!KeyIgnored
  <2> QED
    BY <2>1, PartReadAs, PartSecretsUsed
<1>4. /\ ReadAs(p4) = Part(x.secureServing, Use("tls-private-key-file", x.secureServing, "tls.key"))
      /\ SecretsUsed(p4) = Part(x.secureServing, x.secureServing)
  <2>1. "tls-private-key-file" \notin API!KeyIgnored
    BY DEF API!KeyIgnored
  <2> QED
    BY <2>1, PartReadAs, PartSecretsUsed
<1>5. /\ ReadAs(p5) = Part(x.token, Use("token-auth-file", x.token.name,
        StringOrDefault(x.token.key, "token.csv")))
      /\ SecretsUsed(p5) = Part(x.token, x.token.name)
  <2>1. "token-auth-file" \notin API!KeyIgnored
    BY DEF API!KeyIgnored
  <2> QED
    BY <2>1, PartReadAs, PartSecretsUsed
<1>6. /\ ReadAs(p6) = Part(x.clientCA, Use("client-ca-file", x.clientCA.name,
        StringOrDefault(x.clientCA.key, "ca.crt")))
      /\ SecretsUsed(p6) = Part(x.clientCA, x.clientCA.name)
  <2>1. "client-ca-file" \notin API!KeyIgnored
    BY DEF API!KeyIgnored
  <2> QED
    BY <2>1, PartReadAs, PartSecretsUsed
<1>7. /\ ReadAs(p7) = Part(x.etcdCA, Use("etcd-cafile", x.etcdCA.name,
        StringOrDefault(x.etcdCA.key, "ca.crt")))
      /\ SecretsUsed(p7) = Part(x.etcdCA, x.etcdCA.name)
  <2>1. "etcd-cafile" \notin API!KeyIgnored
    BY DEF API!KeyIgnored
  <2> QED
    BY <2>1, PartReadAs, PartSecretsUsed
<1>8. /\ ReadAs(p8) = Part(x.etcdKey, Use("etcd-certfile", x.etcdKey.name, "tls.crt"))
      /\ SecretsUsed(p8) = Part(x.etcdKey, x.etcdKey.name)
  <2>1. "etcd-certfile" \notin API!KeyIgnored
    BY DEF API!KeyIgnored
  <2> QED
    BY <2>1, PartReadAs, PartSecretsUsed
<1>9. /\ ReadAs(p9) = Part(x.etcdKey, Use("etcd-keyfile", x.etcdKey.name, "tls.key"))
      /\ SecretsUsed(p9) = Part(x.etcdKey, x.etcdKey.name)
  <2>1. "etcd-keyfile" \in API!KeyIgnored
    BY DEF API!KeyIgnored
  <2> QED
    BY <2>1, PartReadAs, PartSecretsUsed
<1> HIDE DEF p1, p2, p3, p4, p5, p6, p7, p8, p9
<1>10. API!Uses(x) = p1 \cup p2 \cup p3 \cup p4 \cup p5 \cup p6 \cup p7 \cup p8 \cup p9
  BY APIServerUses DEF p1, p2, p3, p4, p5, p6, p7, p8, p9
<1>11. ReadAs(API!Uses(x)) = ReadAs(p1) \cup ReadAs(p2) \cup ReadAs(p3) \cup ReadAs(p4)
        \cup ReadAs(p5) \cup ReadAs(p6) \cup ReadAs(p7) \cup ReadAs(p8) \cup ReadAs(p9)
  BY <1>10 DEF ReadAs
<1>12. SecretsUsed(API!Uses(x)) = SecretsUsed(p1) \cup SecretsUsed(p2) \cup SecretsUsed(p3)
        \cup SecretsUsed(p4) \cup SecretsUsed(p5) \cup SecretsUsed(p6) \cup SecretsUsed(p7)
                \cup SecretsUsed(p8) \cup SecretsUsed(p9)
  BY <1>10 DEF SecretsUsed
<1>13. ReadAs(API!Uses(x)) = APIServerReads(x)
  BY <1>1, <1>2, <1>3, <1>4, <1>5, <1>6, <1>7, <1>8, <1>9, <1>11 DEF APIServerReads
<1>14. API!Requests(x) =
        Part(x.keySecret, x.keySecret.name)
        \cup Part(x.signingKeySecret, x.signingKeySecret.name)
        \cup Part(x.secureServing, x.secureServing)
        \cup Part(x.token, x.token.name)
        \cup Part(x.clientCA, x.clientCA.name)
        \cup Part(x.etcdCA, x.etcdCA.name)
        \cup Part(x.etcdKey, x.etcdKey.name)
  BY APIServerTyped, Selected DEF Part, API!Requests, API!Given
<1>15. SecretsUsed(API!Uses(x)) = API!Requests(x)
  BY <1>1, <1>2, <1>3, <1>4, <1>5, <1>6, <1>7, <1>8, <1>9, <1>12, <1>14
<1> DEFINE i1 == Part(x.keySecret, Volume("service-account-key", x.keySecret.name))
           i2 == Part(x.signingKeySecret, Volume("service-account-skey", x.signingKeySecret.name))
           i3 == Part(x.secureServing, Volume("tls", x.secureServing))
           i4 == Part(x.token, Volume("token", x.token.name))
           i5 == Part(x.clientCA, Volume("client-ca", x.clientCA.name))
           i6 == Part(x.etcdCA, Volume("etcd-ca", x.etcdCA.name))
           i7 == Part(x.etcdKey, Volume("etcd-key", x.etcdKey.name))
<1>16. /\ SecretsOf(i1) = Part(x.keySecret, x.keySecret.name)
      /\ SecretsOf(i2) = Part(x.signingKeySecret, x.signingKeySecret.name)
      /\ SecretsOf(i3) = Part(x.secureServing, x.secureServing)
      /\ SecretsOf(i4) = Part(x.token, x.token.name)
      /\ SecretsOf(i5) = Part(x.clientCA, x.clientCA.name)
      /\ SecretsOf(i6) = Part(x.etcdCA, x.etcdCA.name)
      /\ SecretsOf(i7) = Part(x.etcdKey, x.etcdKey.name)
  BY PartSecretsOf
<1> HIDE DEF i1, i2, i3, i4, i5, i6, i7
<1>17. APIServerItems(x) = i1 \cup i2 \cup i3 \cup i4 \cup i5 \cup i6 \cup i7
  BY DEF APIServerItems, i1, i2, i3, i4, i5, i6, i7
<1>18. SecretsOf(APIServerItems(x)) = SecretsOf(i1) \cup SecretsOf(i2) \cup SecretsOf(i3)
        \cup SecretsOf(i4) \cup SecretsOf(i5) \cup SecretsOf(i6) \cup SecretsOf(i7)
  BY <1>17 DEF SecretsOf
<1>19. SecretsOf(APIServerItems(x)) = API!Requests(x)
  BY <1>14, <1>16, <1>18
<1> QED
  BY <1>13, <1>15, <1>19

-----------------------------------------------------------------------------
(* The KubeControllerManager                                               *)

LEMMA ControllerManagerTyped ==
    ASSUME NEW x \in KCM!ControllerManagerSpec
    PROVE  /\ x.kubeconfig \in SecretSelector
           /\ x.serviceAccount.privateKey # Nil => x.serviceAccount.privateKey \in SecretSelector
           /\ x.serviceAccount.rootCA # Nil => x.serviceAccount.rootCA \in SecretSelector
           /\ x.csrSigning.clusterSigning # Nil => x.csrSigning.clusterSigning \in Secret
           /\ x.authentication # Nil => x.authentication \in SecretSelector
           /\ x.authorization # Nil => x.authorization \in SecretSelector
           /\ x.overlay \in Overlay
           /\ x.selector # Nil => x.selector = UserSelector
<1> DEFINE Sel == SecretSelector
           O == Overlay
           U == UserSelector
           SA == KCM!ServiceAccountController
           CSR == KCM!CSRSigningController
<1>1. x \in [kubeconfig: Sel, serviceAccount: SA, csrSigning: CSR, authentication: Sel \cup {Nil},
             authorization: Sel \cup {Nil}, selector: {U} \cup {Nil}, overlay: O]
  BY SameTypes DEF KCM!ControllerManagerSpec, KCM!Optional
<1>2. /\ \A sa \in SA : sa.privateKey \in Sel \cup {Nil} /\ sa.rootCA \in Sel \cup {Nil}
      /\ \A csr \in CSR : csr.clusterSigning \in Secret \cup {Nil}
  <2> HIDE DEF Sel
  <2>1. KCM!SecretSelector = Sel
    BY SameTypes DEF Sel
  <2> QED
    BY <2>1 DEF KCM!ServiceAccountController, KCM!CSRSigningController, KCM!Optional
<1> HIDE DEF Sel, O, U, SA, CSR
<1>3. /\ x.kubeconfig \in Sel /\ x.serviceAccount \in SA /\ x.csrSigning \in CSR
      /\ x.authentication \in Sel \cup {Nil} /\ x.authorization \in Sel \cup {Nil}
      /\ x.selector \in {U} \cup {Nil} /\ x.overlay \in O
  BY <1>1
<1> QED
  BY <1>2, <1>3 DEF Sel, O, U

ControllerManagerItems(x) ==
    Part(x.kubeconfig, Volume("kubeconfig", x.kubeconfig.name))
    \cup Part(x.serviceAccount.privateKey, Volume("service-account-private-key",
            x.serviceAccount.privateKey.name))
    \cup Part(x.serviceAccount.rootCA, Volume("service-account-root-ca", x.serviceAccount.rootCA.name))
    \cup Part(x.csrSigning.clusterSigning, Volume("cluster-signing", x.csrSigning.clusterSigning))
    \cup Part(x.authentication, Volume("authentication-kubeconfig", x.authentication.name))
    \cup Part(x.authorization, Volume("authorization-kubeconfig", x.authorization.name))

LEMMA ControllerManagerVolumes ==
    ASSUME NEW x \in KCM!ControllerManagerSpec
    PROVE  Fits(KCM!Volumes(x), KCM!VolumeMounts(x), ControllerManagerItems(x))
<1> DEFINE v0 == <<Volume("kubeconfig", x.kubeconfig.name)>>
           v1 == v0 \o If(x.serviceAccount.privateKey, Volume("service-account-private-key",
                   x.serviceAccount.privateKey.name))
           v2 == v1 \o If(x.serviceAccount.rootCA, Volume("service-account-root-ca",
                   x.serviceAccount.rootCA.name))
           v3 == v2 \o If(x.csrSigning.clusterSigning, Volume("cluster-signing",
                   x.csrSigning.clusterSigning))
           v4 == v3 \o If(x.authentication, Volume("authentication-kubeconfig", x.authentication.name))
           v5 == v4 \o If(x.authorization, Volume("authorization-kubeconfig", x.authorization.name))
           m0 == <<Mount("kubeconfig", "kubeconfig")>>
           m1 == m0 \o If(x.serviceAccount.privateKey, Mount("service-account-private-key",
                   "service-account-private-key"))
           m2 == m1 \o If(x.serviceAccount.rootCA, Mount("service-account-root-ca",
                   "service-account-root-ca"))
           m3 == m2 \o If(x.csrSigning.clusterSigning, Mount("cluster-signing", "cluster-signing"))
           m4 == m3 \o If(x.authentication, Mount("authentication-kubeconfig",
                   "authentication-kubeconfig"))
           m5 == m4 \o If(x.authorization, Mount("authorization-kubeconfig",
                   "authorization-kubeconfig"))
           i0 == Part(x.kubeconfig, Volume("kubeconfig", x.kubeconfig.name))
           i1 == i0 \cup Part(x.serviceAccount.privateKey, Volume("service-account-private-key",
                   x.serviceAccount.privateKey.name))
           i2 == i1 \cup Part(x.serviceAccount.rootCA, Volume("service-account-root-ca",
                   x.serviceAccount.rootCA.name))
           i3 == i2 \cup Part(x.csrSigning.clusterSigning, Volume("cluster-signing",
                   x.csrSigning.clusterSigning))
           i4 == i3 \cup Part(x.authentication, Volume("authentication-kubeconfig",
                   x.authentication.name))
           i5 == i4 \cup Part(x.authorization, Volume("authorization-kubeconfig",
                   x.authorization.name))
<1>1. KCM!Volumes(x) = v5 /\ KCM!VolumeMounts(x) = m5
  BY DEF KCM!Volumes, KCM!VolumeMounts, KCM!Volume, KCM!Mount, KCM!If, Volume, Mount, If
<1>2. /\ x.kubeconfig.name \in Secret /\ x.kubeconfig # Nil
      /\ x.serviceAccount.privateKey # Nil => x.serviceAccount.privateKey.name \in Secret
      /\ x.serviceAccount.rootCA # Nil => x.serviceAccount.rootCA.name \in Secret
      /\ x.csrSigning.clusterSigning # Nil => x.csrSigning.clusterSigning \in Secret
      /\ x.authentication # Nil => x.authentication.name \in Secret
      /\ x.authorization # Nil => x.authorization.name \in Secret
  BY ControllerManagerTyped, Selected
<1>3. /\ "kubeconfig" \in AnyName
      /\ "service-account-private-key" \in AnyName
      /\ "service-account-root-ca" \in AnyName
      /\ "cluster-signing" \in AnyName
      /\ "authentication-kubeconfig" \in AnyName
      /\ "authorization-kubeconfig" \in AnyName
  BY DEF AnyName, OwnName
<1>4. Fits(v0, m0, i0)
  <2>1. i0 = {Volume("kubeconfig", x.kubeconfig.name)}
    BY <1>2 DEF Part
  <2> HIDE DEF i0
  <2> QED
    BY <1>2, <1>3, <2>1, FirstVolumes
<1>5. \A a \in i0 : a.name \notin {"service-account-private-key", "service-account-root-ca",
        "cluster-signing", "authentication-kubeconfig", "authorization-kubeconfig"}
  BY DEF Part, Volume
<1> HIDE DEF v0, m0, i0
<1>6. Fits(v1, m1, i1)
  BY <1>2, <1>3, <1>4, <1>5, NextVolume
<1>7. \A a \in i1 : a.name \notin {"service-account-root-ca", "cluster-signing",
        "authentication-kubeconfig", "authorization-kubeconfig"}
  BY <1>5 DEF Part, Volume
<1> HIDE DEF v1, m1, i1
<1>8. Fits(v2, m2, i2)
  BY <1>2, <1>3, <1>6, <1>7, NextVolume
<1>9. \A a \in i2 : a.name \notin {"cluster-signing", "authentication-kubeconfig",
        "authorization-kubeconfig"}
  BY <1>7 DEF Part, Volume
<1> HIDE DEF v2, m2, i2
<1>10. Fits(v3, m3, i3)
  BY <1>2, <1>3, <1>8, <1>9, NextVolume
<1>11. \A a \in i3 : a.name \notin {"authentication-kubeconfig", "authorization-kubeconfig"}
  BY <1>9 DEF Part, Volume
<1> HIDE DEF v3, m3, i3
<1>12. Fits(v4, m4, i4)
  BY <1>2, <1>3, <1>10, <1>11, NextVolume
<1>13. \A a \in i4 : a.name \notin {"authorization-kubeconfig"}
  BY <1>11 DEF Part, Volume
<1> HIDE DEF v4, m4, i4
<1>14. Fits(v5, m5, i5)
  BY <1>2, <1>3, <1>12, <1>13, NextVolume
<1> HIDE DEF v5, m5, i5
<1> QED
  BY <1>1, <1>14 DEF ControllerManagerItems, i0, i1, i2, i3, i4, i5

ControllerManagerReads(x) ==
    Part(x.kubeconfig, Use("kubeconfig", x.kubeconfig.name, StringOrDefault(x.kubeconfig.key,
            "kubeconfig")))
    \cup Part(x.serviceAccount.privateKey, Use("service-account-private-key-file",
            x.serviceAccount.privateKey.name, StringOrDefault(x.serviceAccount.privateKey.key,
                    "tls.key")))
    \cup Part(x.serviceAccount.rootCA, Use("root-ca-file", x.serviceAccount.rootCA.name,
            StringOrDefault(x.serviceAccount.rootCA.key, "tls.crt")))
    \cup Part(x.csrSigning.clusterSigning, Use("cluster-signing-cert-file",
            x.csrSigning.clusterSigning, "ca.crt"))
    \cup Part(x.csrSigning.clusterSigning, Use("cluster-signing-key-file",
            x.csrSigning.clusterSigning, "tls.key"))
    \cup Part(x.authentication, Use("authentication-kubeconfig", x.authentication.name,
            StringOrDefault(x.authentication.key, "kubeconfig")))
    \cup Part(x.authorization, Use("authorization-kubeconfig", x.authorization.name,
            StringOrDefault(x.authorization.key, "kubeconfig")))

LEMMA ControllerManagerCommand ==
    ASSUME NEW x \in KCM!ControllerManagerSpec
    PROVE  Provides(KCM!Command(x), ControllerManagerItems(x), ControllerManagerReads(x))
<1> DEFINE V == ControllerManagerItems(x)
           s0 == <<File("kubeconfig", "kubeconfig", StringOrDefault(x.kubeconfig.key, "kubeconfig"))>>
           s1 == s0 \o If(x.serviceAccount.privateKey, File("service-account-private-key-file",
                   "service-account-private-key", StringOrDefault(x.serviceAccount.privateKey.key,
                    "tls.key")))
           s2 == s1 \o If(x.serviceAccount.rootCA, File("root-ca-file", "service-account-root-ca",
                   StringOrDefault(x.serviceAccount.rootCA.key, "tls.crt")))
           s3 == s2 \o If(x.csrSigning.clusterSigning, File("cluster-signing-cert-file",
                   "cluster-signing", "ca.crt"))
           s4 == s3 \o If(x.csrSigning.clusterSigning, File("cluster-signing-key-file",
                   "cluster-signing", "tls.key"))
           s5 == s4 \o If(x.authentication, File("authentication-kubeconfig",
                   "authentication-kubeconfig", StringOrDefault(x.authentication.key, "kubeconfig")))
           s6 == s5 \o If(x.authorization, File("authorization-kubeconfig",
                   "authorization-kubeconfig", StringOrDefault(x.authorization.key, "kubeconfig")))
           u0 == Part(x.kubeconfig, Use("kubeconfig", x.kubeconfig.name,
                   StringOrDefault(x.kubeconfig.key, "kubeconfig")))
           u1 == u0 \cup Part(x.serviceAccount.privateKey, Use("service-account-private-key-file",
                   x.serviceAccount.privateKey.name,
                    StringOrDefault(x.serviceAccount.privateKey.key, "tls.key")))
           u2 == u1 \cup Part(x.serviceAccount.rootCA, Use("root-ca-file",
                   x.serviceAccount.rootCA.name, StringOrDefault(x.serviceAccount.rootCA.key,
                    "tls.crt")))
           u3 == u2 \cup Part(x.csrSigning.clusterSigning, Use("cluster-signing-cert-file",
                   x.csrSigning.clusterSigning, "ca.crt"))
           u4 == u3 \cup Part(x.csrSigning.clusterSigning, Use("cluster-signing-key-file",
                   x.csrSigning.clusterSigning, "tls.key"))
           u5 == u4 \cup Part(x.authentication, Use("authentication-kubeconfig",
                   x.authentication.name, StringOrDefault(x.authentication.key, "kubeconfig")))
           u6 == u5 \cup Part(x.authorization, Use("authorization-kubeconfig",
                   x.authorization.name, StringOrDefault(x.authorization.key, "kubeconfig")))
<1>1. /\ At(V, "kubeconfig") = Part(x.kubeconfig, Volume("kubeconfig", x.kubeconfig.name))
      /\ At(V, "service-account-private-key") = Part(x.serviceAccount.privateKey,
              Volume("service-account-private-key", x.serviceAccount.privateKey.name))
      /\ At(V, "service-account-root-ca") = Part(x.serviceAccount.rootCA,
              Volume("service-account-root-ca", x.serviceAccount.rootCA.name))
      /\ At(V, "cluster-signing") = Part(x.csrSigning.clusterSigning, Volume("cluster-signing",
              x.csrSigning.clusterSigning))
      /\ At(V, "authentication-kubeconfig") = Part(x.authentication,
              Volume("authentication-kubeconfig", x.authentication.name))
      /\ At(V, "authorization-kubeconfig") = Part(x.authorization,
              Volume("authorization-kubeconfig", x.authorization.name))
  <2>1. At(V, "kubeconfig") = Part(x.kubeconfig, Volume("kubeconfig", x.kubeconfig.name))
    BY DEF At, ControllerManagerItems, Part, Volume
  <2>2. At(V, "service-account-private-key") = Part(x.serviceAccount.privateKey,
          Volume("service-account-private-key", x.serviceAccount.privateKey.name))
    BY DEF At, ControllerManagerItems, Part, Volume
  <2>3. At(V, "service-account-root-ca") = Part(x.serviceAccount.rootCA,
          Volume("service-account-root-ca", x.serviceAccount.rootCA.name))
    BY DEF At, ControllerManagerItems, Part, Volume
  <2>4. At(V, "cluster-signing") = Part(x.csrSigning.clusterSigning, Volume("cluster-signing",
          x.csrSigning.clusterSigning))
    BY DEF At, ControllerManagerItems, Part, Volume
  <2>5. At(V, "authentication-kubeconfig") = Part(x.authentication,
          Volume("authentication-kubeconfig", x.authentication.name))
    BY DEF At, ControllerManagerItems, Part, Volume
  <2>6. At(V, "authorization-kubeconfig") = Part(x.authorization,
          Volume("authorization-kubeconfig", x.authorization.name))
    BY DEF At, ControllerManagerItems, Part, Volume
  <2> QED
    BY <2>1, <2>2, <2>3, <2>4, <2>5, <2>6
<1>2. /\ StringOrDefault(x.kubeconfig.key, "kubeconfig") \in AnyKey
      /\ x.serviceAccount.privateKey # Nil => StringOrDefault(x.serviceAccount.privateKey.key,
              "tls.key") \in AnyKey
      /\ x.serviceAccount.rootCA # Nil => StringOrDefault(x.serviceAccount.rootCA.key,
              "tls.crt") \in AnyKey
      /\ x.authentication # Nil => StringOrDefault(x.authentication.key, "kubeconfig") \in AnyKey
      /\ x.authorization # Nil => StringOrDefault(x.authorization.key, "kubeconfig") \in AnyKey
      /\ x.kubeconfig # Nil
  BY ControllerManagerTyped, Selected DEF DefaultKey
<1>3. /\ "kubeconfig" \in AnyName
      /\ "service-account-private-key" \in AnyName
      /\ "service-account-root-ca" \in AnyName
      /\ "cluster-signing" \in AnyName
      /\ "authentication-kubeconfig" \in AnyName
      /\ "authorization-kubeconfig" \in AnyName
      /\ "kubeconfig" \in Flag
      /\ "service-account-private-key-file" \in Flag
      /\ "root-ca-file" \in Flag
      /\ "cluster-signing-cert-file" \in Flag
      /\ "cluster-signing-key-file" \in Flag
      /\ "authentication-kubeconfig" \in Flag
      /\ "authorization-kubeconfig" \in Flag
      /\ "ca.crt" \in AnyKey
      /\ "tls.key" \in AnyKey
  BY DEF AnyName, OwnName, Flag, AnyKey, DefaultKey
<1> HIDE DEF V
<1>4. Provides(s0, V, u0)
  <2>1. u0 = {Use("kubeconfig", x.kubeconfig.name, StringOrDefault(x.kubeconfig.key, "kubeconfig"))}
    BY <1>2 DEF Part
  <2>2. At(V, "kubeconfig") = {Volume("kubeconfig", x.kubeconfig.name)}
    BY <1>1, <1>2 DEF Part
  <2> HIDE DEF u0
  <2> QED
    BY <1>2, <1>3, <2>1, <2>2, FirstFile
<1> HIDE DEF s0, u0
<1>5. Provides(s1, V, u1)
  BY <1>1, <1>2, <1>3, <1>4, NextFile
<1> HIDE DEF s1, u1
<1>6. Provides(s2, V, u2)
  BY <1>1, <1>2, <1>3, <1>5, NextFile
<1> HIDE DEF s2, u2
<1>7. Provides(s3, V, u3)
  BY <1>1, <1>2, <1>3, <1>6, NextFile
<1> HIDE DEF s3, u3
<1>8. Provides(s4, V, u4)
  BY <1>1, <1>2, <1>3, <1>7, NextFile
<1> HIDE DEF s4, u4
<1>9. Provides(s5, V, u5)
  BY <1>1, <1>2, <1>3, <1>8, NextFile
<1> HIDE DEF s5, u5
<1>10. Provides(s6, V, u6)
  BY <1>1, <1>2, <1>3, <1>9, NextFile
<1> HIDE DEF s6, u6
<1>11. KCM!Command(x) = s6
  BY DEF KCM!Command, KCM!File, KCM!If, KCM!StringOrDefault, File, If, StringOrDefault,
     s0, s1, s2, s3, s4, s5, s6
<1>12. ControllerManagerReads(x) = u6
  BY DEF ControllerManagerReads, u0, u1, u2, u3, u4, u5, u6
<1> QED
  BY <1>10, <1>11, <1>12 DEF V

LEMMA ControllerManagerUses ==
    ASSUME NEW x \in KCM!ControllerManagerSpec
    PROVE  KCM!Uses(x) =
             Part(x.kubeconfig, Use("kubeconfig", x.kubeconfig.name,
                    StringOrDefault(x.kubeconfig.key, "kubeconfig")))
             \cup Part(x.serviceAccount.privateKey, Use("service-account-private-key-file",
                    x.serviceAccount.privateKey.name,
                    StringOrDefault(x.serviceAccount.privateKey.key, "tls.key")))
             \cup Part(x.serviceAccount.rootCA, Use("root-ca-file", x.serviceAccount.rootCA.name,
                    StringOrDefault(x.serviceAccount.rootCA.key, "tls.crt")))
             \cup Part(x.csrSigning.clusterSigning, Use("cluster-signing-cert-file",
                    x.csrSigning.clusterSigning, "ca.crt"))
             \cup Part(x.csrSigning.clusterSigning, Use("cluster-signing-key-file",
                    x.csrSigning.clusterSigning, "tls.key"))
             \cup Part(x.authentication, Use("authentication-kubeconfig", x.authentication.name,
                    StringOrDefault(x.authentication.key, "kubeconfig")))
             \cup Part(x.authorization, Use("authorization-kubeconfig", x.authorization.name,
                    StringOrDefault(x.authorization.key, "kubeconfig")))
<1> DEFINE c1 == {Use("kubeconfig", ref.name, StringOrDefault(ref.key,
        "kubeconfig")) : ref \in {x.kubeconfig} \ {Nil}}
           c2 == {Use("service-account-private-key-file", ref.name, StringOrDefault(ref.key,
                   "tls.key")) : ref \in {x.serviceAccount.privateKey} \ {Nil}}
           c3 == {Use("root-ca-file", ref.name, StringOrDefault(ref.key,
                   "tls.crt")) : ref \in {x.serviceAccount.rootCA} \ {Nil}}
           c4 == UNION {{Use("cluster-signing-cert-file", q, "ca.crt"),
                   Use("cluster-signing-key-file", q,
                    "tls.key")} : q \in {x.csrSigning.clusterSigning} \ {Nil}}
           c5 == {Use("authentication-kubeconfig", ref.name, StringOrDefault(ref.key,
                   "kubeconfig")) : ref \in {x.authentication} \ {Nil}}
           c6 == {Use("authorization-kubeconfig", ref.name, StringOrDefault(ref.key,
                   "kubeconfig")) : ref \in {x.authorization} \ {Nil}}
<1>1. KCM!Uses(x) = c1 \cup c2 \cup c3 \cup c4 \cup c5 \cup c6
  BY DEF KCM!Uses, KCM!Use, KCM!UseOf, KCM!Given, KCM!StringOrDefault, Use, StringOrDefault
<1>2. c1 = Part(x.kubeconfig, Use("kubeconfig", x.kubeconfig.name,
        StringOrDefault(x.kubeconfig.key, "kubeconfig")))
  BY GivenUses
<1>3. c2 = Part(x.serviceAccount.privateKey, Use("service-account-private-key-file",
        x.serviceAccount.privateKey.name, StringOrDefault(x.serviceAccount.privateKey.key, "tls.key")))
  BY GivenUses
<1>4. c3 = Part(x.serviceAccount.rootCA, Use("root-ca-file", x.serviceAccount.rootCA.name,
        StringOrDefault(x.serviceAccount.rootCA.key, "tls.crt")))
  BY GivenUses
<1>5. c4 = Part(x.csrSigning.clusterSigning, Use("cluster-signing-cert-file",
        x.csrSigning.clusterSigning, "ca.crt"))
               \cup Part(x.csrSigning.clusterSigning, Use("cluster-signing-key-file",
                    x.csrSigning.clusterSigning, "tls.key"))
  BY GivenPair
<1>6. c5 = Part(x.authentication, Use("authentication-kubeconfig", x.authentication.name,
        StringOrDefault(x.authentication.key, "kubeconfig")))
  BY GivenUses
<1>7. c6 = Part(x.authorization, Use("authorization-kubeconfig", x.authorization.name,
        StringOrDefault(x.authorization.key, "kubeconfig")))
  BY GivenUses
<1> HIDE DEF c1, c2, c3, c4, c5, c6
<1> QED
  BY <1>1, <1>2, <1>3, <1>4, <1>5, <1>6, <1>7

LEMMA ControllerManagerAgrees ==
    ASSUME NEW x \in KCM!ControllerManagerSpec
    PROVE  /\ ReadAs(KCM!Uses(x)) = ControllerManagerReads(x)
           /\ SecretsUsed(KCM!Uses(x)) = KCM!Requests(x)
           /\ SecretsOf(ControllerManagerItems(x)) = KCM!Requests(x)
<1> DEFINE p1 == Part(x.kubeconfig, Use("kubeconfig", x.kubeconfig.name,
        StringOrDefault(x.kubeconfig.key, "kubeconfig")))
           p2 == Part(x.serviceAccount.privateKey, Use("service-account-private-key-file",
                   x.serviceAccount.privateKey.name,
                    StringOrDefault(x.serviceAccount.privateKey.key, "tls.key")))
           p3 == Part(x.serviceAccount.rootCA, Use("root-ca-file", x.serviceAccount.rootCA.name,
                   StringOrDefault(x.serviceAccount.rootCA.key, "tls.crt")))
           p4 == Part(x.csrSigning.clusterSigning, Use("cluster-signing-cert-file",
                   x.csrSigning.clusterSigning, "ca.crt"))
           p5 == Part(x.csrSigning.clusterSigning, Use("cluster-signing-key-file",
                   x.csrSigning.clusterSigning, "tls.key"))
           p6 == Part(x.authentication, Use("authentication-kubeconfig", x.authentication.name,
                   StringOrDefault(x.authentication.key, "kubeconfig")))
           p7 == Part(x.authorization, Use("authorization-kubeconfig", x.authorization.name,
                   StringOrDefault(x.authorization.key, "kubeconfig")))
<1>1. /\ ReadAs(p1) = Part(x.kubeconfig, Use("kubeconfig", x.kubeconfig.name,
        StringOrDefault(x.kubeconfig.key, "kubeconfig")))
      /\ SecretsUsed(p1) = Part(x.kubeconfig, x.kubeconfig.name)
  <2>1. "kubeconfig" \notin API!KeyIgnored
    BY DEF API!KeyIgnored
  <2> QED
    BY <2>1, PartReadAs, PartSecretsUsed
<1>2. /\ ReadAs(p2) = Part(x.serviceAccount.privateKey, Use("service-account-private-key-file",
        x.serviceAccount.privateKey.name, StringOrDefault(x.serviceAccount.privateKey.key, "tls.key")))
      /\ SecretsUsed(p2) = Part(x.serviceAccount.privateKey, x.serviceAccount.privateKey.name)
  <2>1. "service-account-private-key-file" \notin API!KeyIgnored
    BY DEF API!KeyIgnored
  <2> QED
    BY <2>1, PartReadAs, PartSecretsUsed
<1>3. /\ ReadAs(p3) = Part(x.serviceAccount.rootCA, Use("root-ca-file",
        x.serviceAccount.rootCA.name, StringOrDefault(x.serviceAccount.rootCA.key, "tls.crt")))
      /\ SecretsUsed(p3) = Part(x.serviceAccount.rootCA, x.serviceAccount.rootCA.name)
  <2>1. "root-ca-file" \notin API!KeyIgnored
    BY DEF API!KeyIgnored
  <2> QED
    BY <2>1, PartReadAs, PartSecretsUsed
<1>4. /\ ReadAs(p4) = Part(x.csrSigning.clusterSigning, Use("cluster-signing-cert-file",
        x.csrSigning.clusterSigning, "ca.crt"))
      /\ SecretsUsed(p4) = Part(x.csrSigning.clusterSigning, x.csrSigning.clusterSigning)
  <2>1. "cluster-signing-cert-file" \notin API!KeyIgnored
    BY DEF API!KeyIgnored
  <2> QED
    BY <2>1, PartReadAs, PartSecretsUsed
<1>5. /\ ReadAs(p5) = Part(x.csrSigning.clusterSigning, Use("cluster-signing-key-file",
        x.csrSigning.clusterSigning, "tls.key"))
      /\ SecretsUsed(p5) = Part(x.csrSigning.clusterSigning, x.csrSigning.clusterSigning)
  <2>1. "cluster-signing-key-file" \notin API!KeyIgnored
    BY DEF API!KeyIgnored
  <2> QED
    BY <2>1, PartReadAs, PartSecretsUsed
<1>6. /\ ReadAs(p6) = Part(x.authentication, Use("authentication-kubeconfig",
        x.authentication.name, StringOrDefault(x.authentication.key, "kubeconfig")))
      /\ SecretsUsed(p6) = Part(x.authentication, x.authentication.name)
  <2>1. "authentication-kubeconfig" \notin API!KeyIgnored
    BY DEF API!KeyIgnored
  <2> QED
    BY <2>1, PartReadAs, PartSecretsUsed
<1>7. /\ ReadAs(p7) = Part(x.authorization, Use("authorization-kubeconfig", x.authorization.name,
        StringOrDefault(x.authorization.key, "kubeconfig")))
      /\ SecretsUsed(p7) = Part(x.authorization, x.authorization.name)
  <2>1. "authorization-kubeconfig" \notin API!KeyIgnored
    BY DEF API!KeyIgnored
  <2> QED
    BY <2>1, PartReadAs, PartSecretsUsed
<1> HIDE DEF p1, p2, p3, p4, p5, p6, p7
<1>8. KCM!Uses(x) = p1 \cup p2 \cup p3 \cup p4 \cup p5 \cup p6 \cup p7
  BY ControllerManagerUses DEF p1, p2, p3, p4, p5, p6, p7
<1>9. ReadAs(KCM!Uses(x)) = ReadAs(p1) \cup ReadAs(p2) \cup ReadAs(p3) \cup ReadAs(p4)
        \cup ReadAs(p5) \cup ReadAs(p6) \cup ReadAs(p7)
  BY <1>8 DEF ReadAs
<1>10. SecretsUsed(KCM!Uses(x)) = SecretsUsed(p1) \cup SecretsUsed(p2) \cup SecretsUsed(p3)
        \cup SecretsUsed(p4) \cup SecretsUsed(p5) \cup SecretsUsed(p6) \cup SecretsUsed(p7)
  BY <1>8 DEF SecretsUsed
<1>11. ReadAs(KCM!Uses(x)) = ControllerManagerReads(x)
  BY <1>1, <1>2, <1>3, <1>4, <1>5, <1>6, <1>7, <1>9 DEF ControllerManagerReads
<1>12. KCM!Requests(x) =
        Part(x.kubeconfig, x.kubeconfig.name)
        \cup Part(x.serviceAccount.privateKey, x.serviceAccount.privateKey.name)
        \cup Part(x.serviceAccount.rootCA, x.serviceAccount.rootCA.name)
        \cup Part(x.csrSigning.clusterSigning, x.csrSigning.clusterSigning)
        \cup Part(x.authentication, x.authentication.name)
        \cup Part(x.authorization, x.authorization.name)
  BY ControllerManagerTyped, Selected DEF Part, KCM!Requests, KCM!Given
<1>13. SecretsUsed(KCM!Uses(x)) = KCM!Requests(x)
  BY <1>1, <1>2, <1>3, <1>4, <1>5, <1>6, <1>7, <1>10, <1>12
<1> DEFINE i1 == Part(x.kubeconfig, Volume("kubeconfig", x.kubeconfig.name))
           i2 == Part(x.serviceAccount.privateKey, Volume("service-account-private-key",
                   x.serviceAccount.privateKey.name))
           i3 == Part(x.serviceAccount.rootCA, Volume("service-account-root-ca",
                   x.serviceAccount.rootCA.name))
           i4 == Part(x.csrSigning.clusterSigning, Volume("cluster-signing",
                   x.csrSigning.clusterSigning))
           i5 == Part(x.authentication, Volume("authentication-kubeconfig", x.authentication.name))
           i6 == Part(x.authorization, Volume("authorization-kubeconfig", x.authorization.name))
<1>14. /\ SecretsOf(i1) = Part(x.kubeconfig, x.kubeconfig.name)
      /\ SecretsOf(i2) = Part(x.serviceAccount.privateKey, x.serviceAccount.privateKey.name)
      /\ SecretsOf(i3) = Part(x.serviceAccount.rootCA, x.serviceAccount.rootCA.name)
      /\ SecretsOf(i4) = Part(x.csrSigning.clusterSigning, x.csrSigning.clusterSigning)
      /\ SecretsOf(i5) = Part(x.authentication, x.authentication.name)
      /\ SecretsOf(i6) = Part(x.authorization, x.authorization.name)
  BY PartSecretsOf
<1> HIDE DEF i1, i2, i3, i4, i5, i6
<1>15. ControllerManagerItems(x) = i1 \cup i2 \cup i3 \cup i4 \cup i5 \cup i6
  BY DEF ControllerManagerItems, i1, i2, i3, i4, i5, i6
<1>16. SecretsOf(ControllerManagerItems(x)) = SecretsOf(i1) \cup SecretsOf(i2)
        \cup SecretsOf(i3) \cup SecretsOf(i4) \cup SecretsOf(i5) \cup SecretsOf(i6)
  BY <1>15 DEF SecretsOf
<1>17. SecretsOf(ControllerManagerItems(x)) = KCM!Requests(x)
  BY <1>12, <1>14, <1>16
<1> QED
  BY <1>11, <1>13, <1>17

-----------------------------------------------------------------------------
(* The KubeScheduler                                                       *)

LEMMA SchedulerTyped ==
    ASSUME NEW x \in KS!SchedulerSpec
    PROVE  /\ x.kubeconfig \in SecretSelector
           /\ x.authentication # Nil => x.authentication \in SecretSelector
           /\ x.authorization # Nil => x.authorization \in SecretSelector
           /\ x.overlay \in Overlay
           /\ x.selector # Nil => x.selector = UserSelector
<1> DEFINE Sel == SecretSelector
           O == Overlay
           U == UserSelector
<1>1. x \in [kubeconfig: Sel, authentication: Sel \cup {Nil}, authorization: Sel \cup {Nil},
             selector: {U} \cup {Nil}, overlay: O]
  BY SameTypes DEF KS!SchedulerSpec, KS!Optional
<1> HIDE DEF Sel, O, U
<1>2. /\ x.kubeconfig \in Sel /\ x.authentication \in Sel \cup {Nil}
      /\ x.authorization \in Sel \cup {Nil} /\ x.selector \in {U} \cup {Nil} /\ x.overlay \in O
  BY <1>1
<1> QED
  BY <1>2 DEF Sel, O, U

SchedulerItems(x) ==
    Part(x.kubeconfig, Volume("kubeconfig", x.kubeconfig.name))
    \cup Part(x.authentication, Volume("authentication-kubeconfig", x.authentication.name))
    \cup Part(x.authorization, Volume("authorization-kubeconfig", x.authorization.name))

LEMMA SchedulerVolumes ==
    ASSUME NEW x \in KS!SchedulerSpec
    PROVE  Fits(KS!Volumes(x), KS!VolumeMounts(x), SchedulerItems(x))
<1> DEFINE v0 == <<Volume("kubeconfig", x.kubeconfig.name)>>
           v1 == v0 \o If(x.authentication, Volume("authentication-kubeconfig", x.authentication.name))
           v2 == v1 \o If(x.authorization, Volume("authorization-kubeconfig", x.authorization.name))
           m0 == <<Mount("kubeconfig", "kubeconfig")>>
           m1 == m0 \o If(x.authentication, Mount("authentication-kubeconfig",
                   "authentication-kubeconfig"))
           m2 == m1 \o If(x.authorization, Mount("authorization-kubeconfig",
                   "authorization-kubeconfig"))
           i0 == Part(x.kubeconfig, Volume("kubeconfig", x.kubeconfig.name))
           i1 == i0 \cup Part(x.authentication, Volume("authentication-kubeconfig",
                   x.authentication.name))
           i2 == i1 \cup Part(x.authorization, Volume("authorization-kubeconfig",
                   x.authorization.name))
<1>1. KS!Volumes(x) = v2 /\ KS!VolumeMounts(x) = m2
  BY DEF KS!Volumes, KS!VolumeMounts, KS!Volume, KS!Mount, KS!If, Volume, Mount, If
<1>2. /\ x.kubeconfig.name \in Secret /\ x.kubeconfig # Nil
      /\ x.authentication # Nil => x.authentication.name \in Secret
      /\ x.authorization # Nil => x.authorization.name \in Secret
  BY SchedulerTyped, Selected
<1>3. /\ "kubeconfig" \in AnyName
      /\ "authentication-kubeconfig" \in AnyName
      /\ "authorization-kubeconfig" \in AnyName
  BY DEF AnyName, OwnName
<1>4. Fits(v0, m0, i0)
  <2>1. i0 = {Volume("kubeconfig", x.kubeconfig.name)}
    BY <1>2 DEF Part
  <2> HIDE DEF i0
  <2> QED
    BY <1>2, <1>3, <2>1, FirstVolumes
<1>5. \A a \in i0 : a.name \notin {"authentication-kubeconfig", "authorization-kubeconfig"}
  BY DEF Part, Volume
<1> HIDE DEF v0, m0, i0
<1>6. Fits(v1, m1, i1)
  BY <1>2, <1>3, <1>4, <1>5, NextVolume
<1>7. \A a \in i1 : a.name \notin {"authorization-kubeconfig"}
  BY <1>5 DEF Part, Volume
<1> HIDE DEF v1, m1, i1
<1>8. Fits(v2, m2, i2)
  BY <1>2, <1>3, <1>6, <1>7, NextVolume
<1> HIDE DEF v2, m2, i2
<1> QED
  BY <1>1, <1>8 DEF SchedulerItems, i0, i1, i2

SchedulerReads(x) ==
    Part(x.kubeconfig, Use("kubeconfig", x.kubeconfig.name, StringOrDefault(x.kubeconfig.key,
            "kubeconfig")))
    \cup Part(x.authentication, Use("authentication-kubeconfig", x.authentication.name,
            StringOrDefault(x.authentication.key, "kubeconfig")))
    \cup Part(x.authorization, Use("authorization-kubeconfig", x.authorization.name,
            StringOrDefault(x.authorization.key, "kubeconfig")))

LEMMA SchedulerCommand ==
    ASSUME NEW x \in KS!SchedulerSpec
    PROVE  Provides(KS!Command(x), SchedulerItems(x), SchedulerReads(x))
<1> DEFINE V == SchedulerItems(x)
           s0 == <<File("kubeconfig", "kubeconfig", StringOrDefault(x.kubeconfig.key, "kubeconfig"))>>
           s1 == s0 \o If(x.authentication, File("authentication-kubeconfig",
                   "authentication-kubeconfig", StringOrDefault(x.authentication.key, "kubeconfig")))
           s2 == s1 \o If(x.authorization, File("authorization-kubeconfig",
                   "authorization-kubeconfig", StringOrDefault(x.authorization.key, "kubeconfig")))
           u0 == Part(x.kubeconfig, Use("kubeconfig", x.kubeconfig.name,
                   StringOrDefault(x.kubeconfig.key, "kubeconfig")))
           u1 == u0 \cup Part(x.authentication, Use("authentication-kubeconfig",
                   x.authentication.name, StringOrDefault(x.authentication.key, "kubeconfig")))
           u2 == u1 \cup Part(x.authorization, Use("authorization-kubeconfig",
                   x.authorization.name, StringOrDefault(x.authorization.key, "kubeconfig")))
<1>1. /\ At(V, "kubeconfig") = Part(x.kubeconfig, Volume("kubeconfig", x.kubeconfig.name))
      /\ At(V, "authentication-kubeconfig") = Part(x.authentication,
              Volume("authentication-kubeconfig", x.authentication.name))
      /\ At(V, "authorization-kubeconfig") = Part(x.authorization,
              Volume("authorization-kubeconfig", x.authorization.name))
  <2>1. At(V, "kubeconfig") = Part(x.kubeconfig, Volume("kubeconfig", x.kubeconfig.name))
    BY DEF At, SchedulerItems, Part, Volume
  <2>2. At(V, "authentication-kubeconfig") = Part(x.authentication,
          Volume("authentication-kubeconfig", x.authentication.name))
    BY DEF At, SchedulerItems, Part, Volume
  <2>3. At(V, "authorization-kubeconfig") = Part(x.authorization,
          Volume("authorization-kubeconfig", x.authorization.name))
    BY DEF At, SchedulerItems, Part, Volume
  <2> QED
    BY <2>1, <2>2, <2>3
<1>2. /\ StringOrDefault(x.kubeconfig.key, "kubeconfig") \in AnyKey
      /\ x.authentication # Nil => StringOrDefault(x.authentication.key, "kubeconfig") \in AnyKey
      /\ x.authorization # Nil => StringOrDefault(x.authorization.key, "kubeconfig") \in AnyKey
      /\ x.kubeconfig # Nil
  BY SchedulerTyped, Selected DEF DefaultKey
<1>3. /\ "kubeconfig" \in AnyName
      /\ "authentication-kubeconfig" \in AnyName
      /\ "authorization-kubeconfig" \in AnyName
      /\ "kubeconfig" \in Flag
      /\ "authentication-kubeconfig" \in Flag
      /\ "authorization-kubeconfig" \in Flag
  BY DEF AnyName, OwnName, Flag, AnyKey, DefaultKey
<1> HIDE DEF V
<1>4. Provides(s0, V, u0)
  <2>1. u0 = {Use("kubeconfig", x.kubeconfig.name, StringOrDefault(x.kubeconfig.key, "kubeconfig"))}
    BY <1>2 DEF Part
  <2>2. At(V, "kubeconfig") = {Volume("kubeconfig", x.kubeconfig.name)}
    BY <1>1, <1>2 DEF Part
  <2> HIDE DEF u0
  <2> QED
    BY <1>2, <1>3, <2>1, <2>2, FirstFile
<1> HIDE DEF s0, u0
<1>5. Provides(s1, V, u1)
  BY <1>1, <1>2, <1>3, <1>4, NextFile
<1> HIDE DEF s1, u1
<1>6. Provides(s2, V, u2)
  BY <1>1, <1>2, <1>3, <1>5, NextFile
<1> HIDE DEF s2, u2
<1>7. KS!Command(x) = s2
  BY DEF KS!Command, KS!File, KS!If, KS!StringOrDefault, File, If, StringOrDefault,
     s0, s1, s2
<1>8. SchedulerReads(x) = u2
  BY DEF SchedulerReads, u0, u1, u2
<1> QED
  BY <1>6, <1>7, <1>8 DEF V

LEMMA SchedulerUses ==
    ASSUME NEW x \in KS!SchedulerSpec
    PROVE  KS!Uses(x) =
             Part(x.kubeconfig, Use("kubeconfig", x.kubeconfig.name,
                    StringOrDefault(x.kubeconfig.key, "kubeconfig")))
             \cup Part(x.authentication, Use("authentication-kubeconfig", x.authentication.name,
                    StringOrDefault(x.authentication.key, "kubeconfig")))
             \cup Part(x.authorization, Use("authorization-kubeconfig", x.authorization.name,
                    StringOrDefault(x.authorization.key, "kubeconfig")))
<1> DEFINE c1 == {Use("kubeconfig", ref.name, StringOrDefault(ref.key,
        "kubeconfig")) : ref \in {x.kubeconfig} \ {Nil}}
           c2 == {Use("authentication-kubeconfig", ref.name, StringOrDefault(ref.key,
                   "kubeconfig")) : ref \in {x.authentication} \ {Nil}}
           c3 == {Use("authorization-kubeconfig", ref.name, StringOrDefault(ref.key,
                   "kubeconfig")) : ref \in {x.authorization} \ {Nil}}
<1>1. KS!Uses(x) = c1 \cup c2 \cup c3
  BY DEF KS!Uses, KS!Use, KS!UseOf, KS!Given, KS!StringOrDefault, Use, StringOrDefault
<1>2. c1 = Part(x.kubeconfig, Use("kubeconfig", x.kubeconfig.name,
        StringOrDefault(x.kubeconfig.key, "kubeconfig")))
  BY GivenUses
<1>3. c2 = Part(x.authentication, Use("authentication-kubeconfig", x.authentication.name,
        StringOrDefault(x.authentication.key, "kubeconfig")))
  BY GivenUses
<1>4. c3 = Part(x.authorization, Use("authorization-kubeconfig", x.authorization.name,
        StringOrDefault(x.authorization.key, "kubeconfig")))
  BY GivenUses
<1> HIDE DEF c1, c2, c3
<1> QED
  BY <1>1, <1>2, <1>3, <1>4

LEMMA SchedulerAgrees ==
    ASSUME NEW x \in KS!SchedulerSpec
    PROVE  /\ ReadAs(KS!Uses(x)) = SchedulerReads(x)
           /\ SecretsUsed(KS!Uses(x)) = KS!Requests(x)
           /\ SecretsOf(SchedulerItems(x)) = KS!Requests(x)
<1> DEFINE p1 == Part(x.kubeconfig, Use("kubeconfig", x.kubeconfig.name,
        StringOrDefault(x.kubeconfig.key, "kubeconfig")))
           p2 == Part(x.authentication, Use("authentication-kubeconfig", x.authentication.name,
                   StringOrDefault(x.authentication.key, "kubeconfig")))
           p3 == Part(x.authorization, Use("authorization-kubeconfig", x.authorization.name,
                   StringOrDefault(x.authorization.key, "kubeconfig")))
<1>1. /\ ReadAs(p1) = Part(x.kubeconfig, Use("kubeconfig", x.kubeconfig.name,
        StringOrDefault(x.kubeconfig.key, "kubeconfig")))
      /\ SecretsUsed(p1) = Part(x.kubeconfig, x.kubeconfig.name)
  <2>1. "kubeconfig" \notin API!KeyIgnored
    BY DEF API!KeyIgnored
  <2> QED
    BY <2>1, PartReadAs, PartSecretsUsed
<1>2. /\ ReadAs(p2) = Part(x.authentication, Use("authentication-kubeconfig",
        x.authentication.name, StringOrDefault(x.authentication.key, "kubeconfig")))
      /\ SecretsUsed(p2) = Part(x.authentication, x.authentication.name)
  <2>1. "authentication-kubeconfig" \notin API!KeyIgnored
    BY DEF API!KeyIgnored
  <2> QED
    BY <2>1, PartReadAs, PartSecretsUsed
<1>3. /\ ReadAs(p3) = Part(x.authorization, Use("authorization-kubeconfig", x.authorization.name,
        StringOrDefault(x.authorization.key, "kubeconfig")))
      /\ SecretsUsed(p3) = Part(x.authorization, x.authorization.name)
  <2>1. "authorization-kubeconfig" \notin API!KeyIgnored
    BY DEF API!KeyIgnored
  <2> QED
    BY <2>1, PartReadAs, PartSecretsUsed
<1> HIDE DEF p1, p2, p3
<1>4. KS!Uses(x) = p1 \cup p2 \cup p3
  BY SchedulerUses DEF p1, p2, p3
<1>5. ReadAs(KS!Uses(x)) = ReadAs(p1) \cup ReadAs(p2) \cup ReadAs(p3)
  BY <1>4 DEF ReadAs
<1>6. SecretsUsed(KS!Uses(x)) = SecretsUsed(p1) \cup SecretsUsed(p2) \cup SecretsUsed(p3)
  BY <1>4 DEF SecretsUsed
<1>7. ReadAs(KS!Uses(x)) = SchedulerReads(x)
  BY <1>1, <1>2, <1>3, <1>5 DEF SchedulerReads
<1>8. KS!Requests(x) =
        Part(x.kubeconfig, x.kubeconfig.name)
        \cup Part(x.authentication, x.authentication.name)
        \cup Part(x.authorization, x.authorization.name)
  BY SchedulerTyped, Selected DEF Part, KS!Requests, KS!Given
<1>9. SecretsUsed(KS!Uses(x)) = KS!Requests(x)
  BY <1>1, <1>2, <1>3, <1>6, <1>8
<1> DEFINE i1 == Part(x.kubeconfig, Volume("kubeconfig", x.kubeconfig.name))
           i2 == Part(x.authentication, Volume("authentication-kubeconfig", x.authentication.name))
           i3 == Part(x.authorization, Volume("authorization-kubeconfig", x.authorization.name))
<1>10. /\ SecretsOf(i1) = Part(x.kubeconfig, x.kubeconfig.name)
      /\ SecretsOf(i2) = Part(x.authentication, x.authentication.name)
      /\ SecretsOf(i3) = Part(x.authorization, x.authorization.name)
  BY PartSecretsOf
<1> HIDE DEF i1, i2, i3
<1>11. SchedulerItems(x) = i1 \cup i2 \cup i3
  BY DEF SchedulerItems, i1, i2, i3
<1>12. SecretsOf(SchedulerItems(x)) = SecretsOf(i1) \cup SecretsOf(i2) \cup SecretsOf(i3)
  BY <1>11 DEF SecretsOf
<1>13. SecretsOf(SchedulerItems(x)) = KS!Requests(x)
  BY <1>8, <1>10, <1>12
<1> QED
  BY <1>7, <1>9, <1>13
-----------------------------------------------------------------------------
(* Pods and their overlays                                                 *)

\* What users may add has its type.
LEMMA OverlayTyped ==
    ASSUME NEW o \in Overlay
    PROVE  /\ o.labels \in Labels
           /\ o.volumes \in Seq(AnyVolume) /\ o.mounts \in Seq(AnyMount)
           /\ o.env \in Seq(AnyEnvVar) /\ o.envFrom \in Seq(Secret)
           /\ o.containers \in Seq(UserContainer) /\ o.initContainers \in Seq(UserContainer)
<1> DEFINE L == Labels
           V == Seq(AnyVolume)
           M == Seq(AnyMount)
           E == Seq(AnyEnvVar)
           F == Seq(Secret)
           C == Seq(UserContainer)
<1>1. o \in [labels: L, volumes: V, mounts: M, env: E, envFrom: F, containers: C, initContainers: C]
  BY DEF Overlay
<1> HIDE DEF L, V, M, E, F, C
<1>2. /\ o.labels \in L /\ o.volumes \in V /\ o.mounts \in M /\ o.env \in E /\ o.envFrom \in F
      /\ o.containers \in C /\ o.initContainers \in C
  BY <1>1
<1> QED
  BY <1>2 DEF L, V, M, E, F, C

\* A container of the user's is a container, with no file and no probe of the
\* resolver's.
LEMMA UserContainerTyped ==
    /\ \A c \in UserContainer :
         /\ c \in AnyContainer
         /\ c.files = <<>> /\ c.probeToken = FALSE
    /\ Seq(UserContainer) \subseteq Seq(AnyContainer)
<1> DEFINE F == Seq(AnyFile)
           M == Seq(AnyMount)
           E == Seq(AnyEnvVar)
           S == Seq(Secret)
<1>1. <<>> \in F
  OBVIOUS
<1>2. /\ UserContainer = [files: {<<>>}, mounts: M, env: E, envFrom: S, probeToken: {FALSE}]
      /\ AnyContainer = [files: F, mounts: M, env: E, envFrom: S, probeToken: BOOLEAN]
  BY DEF UserContainer, AnyContainer
<1> HIDE DEF F, M, E, S
<1>3. \A c \in UserContainer : c \in AnyContainer /\ c.files = <<>> /\ c.probeToken = FALSE
  BY <1>1, <1>2
<1>4. Seq(UserContainer) \subseteq Seq(AnyContainer)
  BY <1>3
<1> QED
  BY <1>3, <1>4

\* The environment of a container takes its secrets from single variables and
\* from whole secrets.
EnvironmentOf(env) == {e.secret : e \in Items(env)}

\* What a container is after its overlay.
LEMMA ContainerWithOverlay ==
    ASSUME NEW o \in Overlay, NEW a \in AnyContainer, a.envFrom = <<>>
    PROVE  /\ ApplyContainerOverlay(a, o) \in AnyContainer
           /\ ApplyContainerOverlay(a, o).files = a.files
           /\ ApplyContainerOverlay(a, o).mounts = a.mounts \o o.mounts
           /\ ApplyContainerOverlay(a, o).env = a.env \o o.env
           /\ ApplyContainerOverlay(a, o).envFrom = o.envFrom
           /\ ApplyContainerOverlay(a, o).probeToken = a.probeToken
<1> DEFINE F == Seq(AnyFile)
           M == Seq(AnyMount)
           E == Seq(AnyEnvVar)
           S == Seq(Secret)
           m == a.mounts \o o.mounts
           e == a.env \o o.env
           s == o.envFrom
           c == ApplyContainerOverlay(a, o)
<1>1. /\ o.mounts \in M /\ o.env \in E /\ o.envFrom \in S
  BY OverlayTyped
<1>2. AnyContainer = [files: F, mounts: M, env: E, envFrom: S, probeToken: BOOLEAN]
  BY DEF AnyContainer
<1>3. c = [a EXCEPT !.envFrom = s, !.env = e, !.mounts = m]
  <2>1. <<>> \o o.envFrom = s
    BY <1>1
  <2> QED
    BY <2>1 DEF ApplyContainerOverlay
<1>4. m \in M /\ e \in E
  <2>1. a.mounts \in M /\ a.env \in E
    <3> HIDE DEF M, E, F, S
    <3> QED
      BY <1>2
  <2> QED
    BY <1>1, <2>1
<1> HIDE DEF F, M, E, S, m, e, s, c
<1>5. s \in S
  BY <1>1 DEF s
<1>6. /\ c \in AnyContainer
      /\ c.files = a.files /\ c.mounts = m /\ c.env = e /\ c.envFrom = s
      /\ c.probeToken = a.probeToken
  BY <1>2, <1>3, <1>4, <1>5
<1> QED
  BY <1>6 DEF m, e, s, c

\* The container of a component itself: all volumes V of the resolver are mounted.
Main(c, o, V, uses) ==
    /\ c \in AnyContainer
    /\ c.mounts = MountsOf(V) \o o.mounts
    /\ Provides(c.files, Items(V), uses)
    /\ c.env = o.env /\ c.envFrom = o.envFrom
    /\ c.probeToken = FALSE

\* A container beside it: no file, no mount of its own, and perhaps variables.
Beside(c, o, V, uses) ==
    /\ c \in AnyContainer
    /\ c.files = <<>> /\ c.mounts = o.mounts /\ c.envFrom = o.envFrom
    /\ \E env \in Seq(AnyEnvVar) :
          /\ c.env = env \o o.env
          /\ EnvironmentOf(env) \subseteq SecretsOf(Items(V)) /\ Nil \notin EnvironmentOf(env)
          /\ c.probeToken =>
                \E e : /\ Items(env) = {e} /\ e.name = "AUTH_TOKEN"
                       /\ Use("token-auth-file", e.secret, e.key) \in uses

\* The container of a component, and one beside it, with their overlays.
LEMMA MainContainer ==
    ASSUME NEW o \in Overlay, NEW V \in Seq(AnyVolume), NEW files, NEW uses,
           Provides(files, Items(V), uses),
           NEW c, c = ApplyContainerOverlay(Container(files, MountsOf(V), <<>>, FALSE), o)
    PROVE  Main(c, o, V, uses)
<1> DEFINE a == Container(files, MountsOf(V), <<>>, FALSE)
<1>1. a \in AnyContainer
  <2> DEFINE F == Seq(AnyFile)
             M == Seq(AnyMount)
             E == Seq(AnyEnvVar)
             S == Seq(Secret)
             m == MountsOf(V)
             e == <<>>
  <2>1. files \in F /\ m \in M /\ e \in E /\ e \in S
    BY MountsOfTyped DEF Provides
  <2>2. a = [files |-> files, mounts |-> m, env |-> e, envFrom |-> e, probeToken |-> FALSE]
    BY DEF Container
  <2>3. AnyContainer = [files: F, mounts: M, env: E, envFrom: S, probeToken: BOOLEAN]
    BY DEF AnyContainer
  <2> HIDE DEF F, M, E, S, m, e, a
  <2> QED
    BY <2>1, <2>2, <2>3
<1>2. /\ a.files = files /\ a.mounts = MountsOf(V) /\ a.env = <<>> /\ a.envFrom = <<>>
      /\ a.probeToken = FALSE
  BY DEF Container
<1> HIDE DEF a
<1>3. /\ c \in AnyContainer
      /\ c.files = files /\ c.mounts = MountsOf(V) \o o.mounts /\ c.env = <<>> \o o.env
      /\ c.envFrom = o.envFrom /\ c.probeToken = FALSE
  BY <1>1, <1>2, ContainerWithOverlay DEF a
<1>4. <<>> \o o.env = o.env
  BY OverlayTyped
<1> QED
  BY <1>3, <1>4 DEF Main

LEMMA SidecarContainer ==
    ASSUME NEW o \in Overlay, NEW V \in Seq(AnyVolume), NEW uses, NEW sel, NEW probeToken \in BOOLEAN,
           sel # Nil => /\ sel \in SecretSelector
                        /\ sel.name \in SecretsOf(Items(V))
                        /\ Use("token-auth-file", sel.name, StringOrDefault(sel.key, "token.csv")) \in uses,
           probeToken => sel # Nil,
           NEW c, c = ApplyContainerOverlay(
                        Container(<<>>, <<>>, If(sel, EnvVar("AUTH_TOKEN", sel, "token.csv")), probeToken), o)
    PROVE  Beside(c, o, V, uses)
<1> DEFINE e == EnvVar("AUTH_TOKEN", sel, "token.csv")
           env == If(sel, e)
           key == StringOrDefault(sel.key, "token.csv")
<1>1. sel # Nil => sel.name \in Secret /\ key \in AnyKey
  BY Selected DEF DefaultKey
<1>2. /\ e = [name |-> "AUTH_TOKEN", secret |-> sel.name, key |-> key]
      /\ "AUTH_TOKEN" \in AnyName
  BY DEF EnvVar, AnyName, OwnName
<1> HIDE DEF key
<1>3. sel # Nil => e \in AnyEnvVar
  BY <1>1, <1>2 DEF AnyEnvVar, Optional
<1>4. e.name = "AUTH_TOKEN" /\ e.secret = sel.name /\ e.key = key
  BY <1>2
<1> HIDE DEF e
<1>5. env \in Seq(AnyEnvVar) /\ Items(env) = Part(sel, e)
  <2>1. CASE sel = Nil
    BY <2>1 DEF If, Part, Items
  <2>2. CASE sel # Nil
    <3>1. env = <<e>> /\ Part(sel, e) = {e}
      BY <2>2 DEF If, Part
    <3>2. <<e>> \in Seq(AnyEnvVar)
      BY <1>3, <2>2
    <3>3. Items(<<e>>) = {e}
      BY DEF Items
    <3> HIDE DEF env
    <3> QED
      BY <3>1, <3>2, <3>3
  <2> QED
    BY <2>1, <2>2
<1> HIDE DEF env
<1> DEFINE a == Container(<<>>, <<>>, env, probeToken)
<1>6. /\ c \in AnyContainer
      /\ c.files = <<>> /\ c.mounts = <<>> \o o.mounts /\ c.env = env \o o.env
      /\ c.envFrom = o.envFrom /\ c.probeToken = probeToken
  <2>1. a \in AnyContainer
    <3> DEFINE F == Seq(AnyFile)
               M == Seq(AnyMount)
               E == Seq(AnyEnvVar)
               S == Seq(Secret)
               m == <<>>
    <3>1. m \in F /\ m \in M /\ m \in S /\ env \in E
      BY <1>5
    <3>2. a = [files |-> m, mounts |-> m, env |-> env, envFrom |-> m, probeToken |-> probeToken]
      BY DEF Container
    <3>3. AnyContainer = [files: F, mounts: M, env: E, envFrom: S, probeToken: BOOLEAN]
      BY DEF AnyContainer
    <3> HIDE DEF F, M, E, S, m, a
    <3> QED
      BY <3>1, <3>2, <3>3
  <2>2. /\ a.files = <<>> /\ a.mounts = <<>> /\ a.env = env /\ a.envFrom = <<>>
    BY DEF Container
  <2>3. c = ApplyContainerOverlay(a, o)
    BY DEF env, e
  <2> HIDE DEF a
  <2>4. /\ c \in AnyContainer
        /\ c.files = a.files /\ c.mounts = a.mounts \o o.mounts /\ c.env = a.env \o o.env
        /\ c.envFrom = o.envFrom /\ c.probeToken = a.probeToken
    <3>1. a.envFrom = <<>>
      BY <2>2
    <3> QED
      BY <2>1, <2>3, <3>1, ContainerWithOverlay, ZenonT(30)
  <2>5. a.probeToken = probeToken
    BY DEF Container, a
  <2> QED
    BY <2>2, <2>4, <2>5, Zenon
<1>7. <<>> \o o.mounts = o.mounts
  BY OverlayTyped
<1>8. /\ EnvironmentOf(env) \subseteq SecretsOf(Items(V))
      /\ Nil \notin EnvironmentOf(env)
  BY <1>1, <1>4, <1>5, NilAssumption DEF EnvironmentOf, Part
<1>9. probeToken => /\ Items(env) = {e} /\ e.name = "AUTH_TOKEN"
                    /\ Use("token-auth-file", e.secret, e.key) \in uses
  BY <1>4, <1>5 DEF Part, key
<1> QED
  BY <1>5, <1>6, <1>7, <1>8, <1>9 DEF Beside

\* What a Deployment is of own containers and volumes and an overlay.
BuiltFrom(d, x, app, V, own, S) ==
    /\ d.pod.volumes = V \o x.overlay.volumes
    /\ d.pod.containers = own \o x.overlay.containers
    /\ d.pod.initContainers = x.overlay.initContainers
    /\ d.checksums = S
    /\ x.selector = Nil => d.selector = [app |-> app]
    /\ x.selector # Nil => d.selector = x.selector
    /\ d.labels = MergeStringStringMaps(x.overlay.labels, [app |-> app])
    /\ d = [selector |-> d.selector, labels |-> d.labels, checksums |-> d.checksums, pod |-> d.pod]
    /\ d.pod = [containers |-> d.pod.containers, initContainers |-> d.pod.initContainers,
                volumes |-> d.pod.volumes]

\* What the Deployments of all components have in common: the resolver's own
\* volumes V and own containers, a main one and others beside it, with what the
\* overlay adds to them.
Built(d, x, app, V, uses, S) ==
    /\ V \in Seq(AnyVolume) /\ DistinctNames(V)
    /\ \E own \in Seq(AnyContainer) :
          /\ BuiltFrom(d, x, app, V, own, S)
          /\ \E main \in Items(own) :
                /\ Main(main, x.overlay, V, uses)
                /\ \A c \in Items(own) : c = main \/ Beside(c, x.overlay, V, uses)

\* So is every Deployment of the resolvers.
LEMMA DeploymentFields ==
    ASSUME NEW x, NEW app, NEW V, NEW own, NEW S, x.overlay \in Overlay
    PROVE  BuiltFrom(DeploymentOf(x, [app |-> app], ApplyPodOverlay(Pod(own, V), x.overlay), S),
                     x, app, V, own, S)
<1> DEFINE d == DeploymentOf(x, [app |-> app], ApplyPodOverlay(Pod(own, V), x.overlay), S)
           o == x.overlay
           p == ApplyPodOverlay(Pod(own, V), o)
           b == [app |-> app]
<1>1. p = [containers |-> own \o o.containers, initContainers |-> <<>> \o o.initContainers,
           volumes |-> V \o o.volumes]
  <2> DEFINE q == Pod(own, V)
             ic == <<>>
  <2>1. q = [containers |-> own, initContainers |-> ic, volumes |-> V]
    BY DEF Pod
  <2> HIDE DEF ic, q
  <2>2. p = [q EXCEPT !.volumes = q.volumes \o o.volumes,
                      !.initContainers = q.initContainers \o o.initContainers,
                      !.containers = q.containers \o o.containers]
    BY DEF ApplyPodOverlay, q
  <2>3. q.containers = own /\ q.initContainers = ic /\ q.volumes = V
    BY <2>1
  <2> HIDE DEF p
  <2>4. p = [containers |-> own \o o.containers, initContainers |-> ic \o o.initContainers,
             volumes |-> V \o o.volumes]
    <3> DEFINE a1 == own \o o.containers
               a2 == ic \o o.initContainers
               a3 == V \o o.volumes
    <3>1. p = [q EXCEPT !.volumes = a3, !.initContainers = a2, !.containers = a1]
      BY <2>2, <2>3
    <3> HIDE DEF a1, a2, a3
    <3>2. p = [containers |-> a1, initContainers |-> a2, volumes |-> a3]
      BY <2>1, <3>1
    <3> QED
      BY <3>2 DEF a1, a2, a3
  <2> QED
    BY <2>4 DEF ic
<1>2. <<>> \o o.initContainers = o.initContainers
  BY OverlayTyped
<1> HIDE DEF d, p, b, o
<1>3. d = [selector |-> IF x.selector = Nil THEN b ELSE x.selector,
           labels |-> MergeStringStringMaps(o.labels, b), pod |-> p, checksums |-> S]
  BY DEF DeploymentOf, ComputeMountableChecksum, d, p, b, o
<1>4. /\ d.pod = p /\ d.checksums = S
      /\ x.selector = Nil => d.selector = b
      /\ x.selector # Nil => d.selector = x.selector
      /\ d.labels = MergeStringStringMaps(o.labels, b)
      /\ d = [selector |-> d.selector, labels |-> d.labels, checksums |-> d.checksums, pod |-> d.pod]
  BY <1>3
<1>5. /\ p.containers = own \o o.containers /\ p.initContainers = o.initContainers
      /\ p.volumes = V \o o.volumes
      /\ p = [containers |-> p.containers, initContainers |-> p.initContainers, volumes |-> p.volumes]
  BY <1>1, <1>2
<1> QED
  BY <1>4, <1>5 DEF BuiltFrom, b, o, d
-----------------------------------------------------------------------------
(* What each kind of component is turned into                              *)

\* In each kind, the volumes, mounts and command line are those of one Built.
LEMMA APIServerBuilt ==
    ASSUME NEW x \in API!APIServerSpec, NEW S
    PROVE  Built(API!Resolved(x, S), x, "kubeapiserver", API!Volumes(x), ReadAs(API!Uses(x)), S)
<1> DEFINE V == API!Volumes(x)
           uses == ReadAs(API!Uses(x))
           o == x.overlay
           c1 == API!APIServerContainer(x)
           c2 == API!APIServerSidecar(x)
<1>1. o \in Overlay
  BY APIServerTyped
<1>2. /\ V \in Seq(AnyVolume) /\ DistinctNames(V) /\ API!VolumeMounts(x) = MountsOf(V)
      /\ Items(V) = APIServerItems(x)
  BY APIServerVolumes DEF Fits
<1>3. Provides(API!Command(x), Items(V), uses)
  BY <1>2, APIServerCommand, APIServerAgrees
<1>4. API!Resolved(x, S)
        = DeploymentOf(x, [app |-> "kubeapiserver"], ApplyPodOverlay(Pod(<<c1, c2>>, V), o), S)
  BY DEF API!Resolved, API!PodSpec, API!DeploymentOf, DeploymentOf, API!ApplyPodOverlay, ApplyPodOverlay,
         API!Pod, Pod, API!MergeStringStringMaps, MergeStringStringMaps,
         API!ComputeMountableChecksum, ComputeMountableChecksum
<1>5. c1 = ApplyContainerOverlay(Container(API!Command(x), API!VolumeMounts(x), <<>>, FALSE), o)
  BY DEF API!APIServerContainer, API!ApplyContainerOverlay, ApplyContainerOverlay, API!Container, Container
<1>6. c2 = ApplyContainerOverlay(
              Container(<<>>, <<>>, If(x.token, EnvVar("AUTH_TOKEN", x.token, "token.csv")),
                        API!ProbeToken(x)), o)
  BY DEF API!APIServerSidecar, API!ApplyContainerOverlay, ApplyContainerOverlay, API!Container, Container,
         API!If, If, API!EnvVar, EnvVar, API!StringOrDefault, StringOrDefault
<1>7. API!ProbeToken(x) \in BOOLEAN /\ (API!ProbeToken(x) => x.token # Nil)
  BY DEF API!ProbeToken
<1>8. x.token # Nil => /\ x.token \in SecretSelector
                       /\ x.token.name \in SecretsOf(Items(V))
                       /\ Use("token-auth-file", x.token.name,
                              StringOrDefault(x.token.key, "token.csv")) \in uses
  <2>1. x.token # Nil => x.token \in SecretSelector
    BY APIServerTyped
  <2>2. x.token # Nil => x.token.name \in API!Requests(x)
    BY DEF API!Requests, API!Given
  <2>3. x.token # Nil => Use("token-auth-file", x.token.name,
                             StringOrDefault(x.token.key, "token.csv")) \in APIServerReads(x)
    BY DEF APIServerReads, Part
  <2> QED
    BY <1>2, <2>1, <2>2, <2>3, APIServerAgrees
<1> HIDE DEF V, uses, o, c1, c2
<1>9. Main(c1, o, V, uses)
  BY <1>1, <1>2, <1>3, <1>5, MainContainer
<1>10. Beside(c2, o, V, uses)
  BY <1>1, <1>2, <1>6, <1>7, <1>8, SidecarContainer
<1>11. <<c1, c2>> \in Seq(AnyContainer) /\ Items(<<c1, c2>>) = {c1, c2}
  <2>1. c1 \in AnyContainer /\ c2 \in AnyContainer
    BY <1>9, <1>10 DEF Main, Beside
  <2> QED
    BY <2>1, Short
<1>12. Built(API!Resolved(x, S), x, "kubeapiserver", V, uses, S)
  BY <1>1, <1>2, <1>4, <1>9, <1>10, <1>11, DeploymentFields DEF Built, o
<1> QED
  BY <1>12 DEF V, uses

LEMMA ControllerManagerBuilt ==
    ASSUME NEW x \in KCM!ControllerManagerSpec, NEW S
    PROVE  Built(KCM!Resolved(x, S), x, "kubecontrollermanager", KCM!Volumes(x), ReadAs(KCM!Uses(x)), S)
<1> DEFINE V == KCM!Volumes(x)
           uses == ReadAs(KCM!Uses(x))
           o == x.overlay
           c == ApplyContainerOverlay(Container(KCM!Command(x), KCM!VolumeMounts(x), <<>>, FALSE), o)
<1>1. o \in Overlay
  BY ControllerManagerTyped
<1>2. /\ V \in Seq(AnyVolume) /\ DistinctNames(V) /\ KCM!VolumeMounts(x) = MountsOf(V)
      /\ Items(V) = ControllerManagerItems(x)
  BY ControllerManagerVolumes DEF Fits
<1>3. Provides(KCM!Command(x), Items(V), uses)
  BY <1>2, ControllerManagerCommand, ControllerManagerAgrees
<1>4. KCM!Resolved(x, S)
        = DeploymentOf(x, [app |-> "kubecontrollermanager"], ApplyPodOverlay(Pod(<<c>>, V), o), S)
  BY DEF KCM!Resolved, KCM!PodSpec, KCM!DeploymentOf, DeploymentOf, KCM!ApplyPodOverlay, ApplyPodOverlay,
         KCM!Pod, Pod, KCM!MergeStringStringMaps, MergeStringStringMaps,
         KCM!ComputeMountableChecksum, ComputeMountableChecksum,
         KCM!ApplyContainerOverlay, ApplyContainerOverlay, KCM!Container, Container
<1>5. Main(c, o, V, uses)
  BY <1>1, <1>2, <1>3, MainContainer
<1> HIDE DEF V, uses, o, c
<1>6. <<c>> \in Seq(AnyContainer) /\ Items(<<c>>) = {c}
  BY <1>5, Short DEF Main
<1>7. Built(KCM!Resolved(x, S), x, "kubecontrollermanager", V, uses, S)
  BY <1>1, <1>2, <1>4, <1>5, <1>6, DeploymentFields DEF Built, o
<1> QED
  BY <1>7 DEF V, uses

LEMMA SchedulerBuilt ==
    ASSUME NEW x \in KS!SchedulerSpec, NEW S
    PROVE  Built(KS!Resolved(x, S), x, "kubescheduler", KS!Volumes(x), ReadAs(KS!Uses(x)), S)
<1> DEFINE V == KS!Volumes(x)
           uses == ReadAs(KS!Uses(x))
           o == x.overlay
           c == ApplyContainerOverlay(Container(KS!Command(x), KS!VolumeMounts(x), <<>>, FALSE), o)
<1>1. o \in Overlay
  BY SchedulerTyped
<1>2. /\ V \in Seq(AnyVolume) /\ DistinctNames(V) /\ KS!VolumeMounts(x) = MountsOf(V)
      /\ Items(V) = SchedulerItems(x)
  BY SchedulerVolumes DEF Fits
<1>3. Provides(KS!Command(x), Items(V), uses)
  BY <1>2, SchedulerCommand, SchedulerAgrees
<1>4. KS!Resolved(x, S)
        = DeploymentOf(x, [app |-> "kubescheduler"], ApplyPodOverlay(Pod(<<c>>, V), o), S)
  BY DEF KS!Resolved, KS!PodSpec, KS!DeploymentOf, DeploymentOf, KS!ApplyPodOverlay, ApplyPodOverlay,
         KS!Pod, Pod, KS!MergeStringStringMaps, MergeStringStringMaps,
         KS!ComputeMountableChecksum, ComputeMountableChecksum,
         KS!ApplyContainerOverlay, ApplyContainerOverlay, KS!Container, Container
<1>5. Main(c, o, V, uses)
  BY <1>1, <1>2, <1>3, MainContainer
<1> HIDE DEF V, uses, o, c
<1>6. <<c>> \in Seq(AnyContainer) /\ Items(<<c>>) = {c}
  BY <1>5, Short DEF Main
<1>7. Built(KS!Resolved(x, S), x, "kubescheduler", V, uses, S)
  BY <1>1, <1>2, <1>4, <1>5, <1>6, DeploymentFields DEF Built, o
<1> QED
  BY <1>7 DEF V, uses

\* An object is of one of four kinds.
LEMMA Kinds ==
    ASSUME NEW o \in Objects
    PROVE  \/ o.kind = "KubeAPIServer" /\ o.spec \in API!APIServerSpec
           \/ o.kind = "KubeControllerManager" /\ o.spec \in KCM!ControllerManagerSpec
           \/ o.kind = "KubeScheduler" /\ o.spec \in KS!SchedulerSpec
           \/ o.kind = "Kubeconfig" /\ o.spec \in KC!KubeconfigSpec
  BY ObjectsAssumption

\* Every Deployment is built that way, from whatever secrets S; and the secrets of
\* the resolver's own volumes, those the spec uses and those requested agree.
LEMMA WhatIsBuilt ==
    ASSUME NEW o \in Objects, o.kind # "Kubeconfig", NEW S
    PROVE  /\ o.spec.overlay \in Overlay
           /\ o.spec.selector # Nil => o.spec.selector = UserSelector
           /\ \E app \in App : \E V :
                /\ Built(Resolved(o, S), o.spec, app, V, ReadAs(Uses(o)), S)
                /\ Generated(o) = {v.name : v \in Items(V)}
                /\ SecretsOf(Items(V)) = Requests(o)
           /\ SecretsUsed(Uses(o)) = Requests(o)
<1> DEFINE x == o.spec
<1>1. CASE o.kind = "KubeAPIServer" /\ x \in API!APIServerSpec
  <2>1. /\ Resolved(o, S) = API!Resolved(x, S) /\ Uses(o) = API!Uses(x) /\ Requests(o) = API!Requests(x)
        /\ Generated(o) = {v.name : v \in Items(API!Volumes(x))}
    BY <1>1 DEF Resolved, Requests, Uses, Generated
  <2>2. Items(API!Volumes(x)) = APIServerItems(x)
    BY <1>1, APIServerVolumes DEF Fits
  <2>3. "kubeapiserver" \in App
    BY DEF App
  <2> QED
    BY <1>1, <2>1, <2>2, <2>3, APIServerBuilt, APIServerAgrees, APIServerTyped
<1>2. CASE o.kind = "KubeControllerManager" /\ x \in KCM!ControllerManagerSpec
  <2>1. /\ Resolved(o, S) = KCM!Resolved(x, S) /\ Uses(o) = KCM!Uses(x) /\ Requests(o) = KCM!Requests(x)
        /\ Generated(o) = {v.name : v \in Items(KCM!Volumes(x))}
    BY <1>2 DEF Resolved, Requests, Uses, Generated
  <2>2. Items(KCM!Volumes(x)) = ControllerManagerItems(x)
    BY <1>2, ControllerManagerVolumes DEF Fits
  <2>3. "kubecontrollermanager" \in App
    BY DEF App
  <2> QED
    BY <1>2, <2>1, <2>2, <2>3, ControllerManagerBuilt, ControllerManagerAgrees, ControllerManagerTyped
<1>3. CASE o.kind = "KubeScheduler" /\ x \in KS!SchedulerSpec
  <2>1. /\ Resolved(o, S) = KS!Resolved(x, S) /\ Uses(o) = KS!Uses(x) /\ Requests(o) = KS!Requests(x)
        /\ Generated(o) = {v.name : v \in Items(KS!Volumes(x))}
    BY <1>3 DEF Resolved, Requests, Uses, Generated
  <2>2. Items(KS!Volumes(x)) = SchedulerItems(x)
    BY <1>3, SchedulerVolumes DEF Fits
  <2>3. "kubescheduler" \in App
    BY DEF App
  <2> QED
    BY <1>3, <2>1, <2>2, <2>3, SchedulerBuilt, SchedulerAgrees, SchedulerTyped
<1> QED
  BY <1>1, <1>2, <1>3, Kinds

-----------------------------------------------------------------------------
(* A Kubeconfig                                                            *)

\* The selectors of a Kubeconfig.
LEMMA KubeconfigTyped ==
    ASSUME NEW x \in KC!KubeconfigSpec
    PROVE  /\ x.users \in Seq(KC!AuthInfo)
           /\ x.clusters \in Seq([ca: SecretSelector \cup {Nil}])
           /\ \A a \in Items(x.users) :
                /\ a.clientCertificate \in SecretSelector \cup {Nil}
                /\ a.clientKey \in SecretSelector \cup {Nil}
                /\ a.token \in SecretSelector \cup {Nil}
                /\ a.password \in SecretSelector \cup {Nil}
           /\ \A c \in Items(x.clusters) : c.ca \in SecretSelector \cup {Nil}
<1> DEFINE Sel == SecretSelector
           A == KC!AuthInfo
           C == [ca: Sel \cup {Nil}]
<1>1. x \in [users: Seq(A), clusters: Seq(C)]
  BY DEF KC!KubeconfigSpec, KC!Optional, KC!SecretSelector, SecretSelector, Optional
<1>2. \A a \in A : /\ a.clientCertificate \in Sel \cup {Nil} /\ a.clientKey \in Sel \cup {Nil}
                   /\ a.token \in Sel \cup {Nil} /\ a.password \in Sel \cup {Nil}
  <2>1. A = [clientCertificate: Sel \cup {Nil}, clientKey: Sel \cup {Nil},
             token: Sel \cup {Nil}, password: Sel \cup {Nil}]
    BY DEF KC!AuthInfo, KC!Optional, KC!SecretSelector, SecretSelector, Optional
  <2> HIDE DEF Sel, A
  <2> QED
    BY <2>1
<1>3. \A c \in C : c.ca \in Sel \cup {Nil}
  <2> HIDE DEF Sel
  <2> QED
    OBVIOUS
<1> HIDE DEF Sel, A, C
<1>4. x.users \in Seq(A) /\ x.clusters \in Seq(C)
  BY <1>1
<1>5. (\A a \in Items(x.users) : a \in A) /\ \A c \in Items(x.clusters) : c \in C
  BY <1>4 DEF Items
<1> QED
  BY <1>2, <1>3, <1>4, <1>5 DEF Sel, A, C

-----------------------------------------------------------------------------
(* Types                                                                   *)

\* The labels of a template are labels.
LEMMA LabelsTyped ==
    ASSUME NEW app \in App
    PROVE  /\ [app |-> app] \in Labels
           /\ UserSelector \in Labels
           /\ \A l \in Labels : MergeStringStringMaps(l, [app |-> app]) \in Labels
<1> DEFINE R == App \cup {"user"}
           D == {"app", "tier"}
<1>1. \A f : f \in Labels <=> \E keys \in SUBSET D : f \in [keys -> R]
  BY DEF Labels
<1>2. [app |-> app] \in [{"app"} -> R] /\ DOMAIN [app |-> app] = {"app"}
  OBVIOUS
<1>3. UserSelector \in [{"tier"} -> R]
  BY DEF UserSelector
<1>4. {"app"} \in SUBSET D /\ {"tier"} \in SUBSET D
  OBVIOUS
<1> DEFINE base == [app |-> app]
<1> HIDE DEF R, D, base
<1>5. ASSUME NEW l \in Labels
      PROVE  MergeStringStringMaps(l, base) \in Labels
  <2>1. PICK keys \in SUBSET D : l \in [keys -> R]
    BY <1>1
  <2>2. base \in [{"app"} -> R] /\ DOMAIN base = {"app"}
    BY <1>2 DEF base
  <2>3. MergeStringStringMaps(l, base)
          = [key \in keys \cup {"app"} |-> IF key \in {"app"} THEN base[key] ELSE l[key]]
    BY <2>1, <2>2 DEF MergeStringStringMaps
  <2>4. MergeStringStringMaps(l, base) \in [keys \cup {"app"} -> R]
    BY <2>1, <2>2, <2>3
  <2>5. keys \cup {"app"} \in SUBSET D
    BY <1>4
  <2> QED
    BY <1>1, <2>4, <2>5
<1> QED
  BY <1>1, <1>2, <1>3, <1>4, <1>5 DEF base

\* What is built has its type, whatever the overlay adds.
LEMMA BuiltTyped ==
    ASSUME NEW d, NEW x, NEW app \in App, NEW V, NEW uses, NEW S \in SUBSET Secret,
           Built(d, x, app, V, uses, S), x.overlay \in Overlay,
           x.selector # Nil => x.selector = UserSelector
    PROVE  d \in DeploymentType
<1>1. V \in Seq(AnyVolume)
  BY DEF Built
<1>2. PICK own \in Seq(AnyContainer) : BuiltFrom(d, x, app, V, own, S)
  BY DEF Built
<1>3. /\ d.pod.volumes = V \o x.overlay.volumes
      /\ d.pod.containers = own \o x.overlay.containers
      /\ d.pod.initContainers = x.overlay.initContainers
      /\ d.checksums = S
      /\ x.selector = Nil => d.selector = [app |-> app]
      /\ x.selector # Nil => d.selector = x.selector
      /\ d.labels = MergeStringStringMaps(x.overlay.labels, [app |-> app])
      /\ d = [selector |-> d.selector, labels |-> d.labels, checksums |-> d.checksums, pod |-> d.pod]
      /\ d.pod = [containers |-> d.pod.containers, initContainers |-> d.pod.initContainers,
                  volumes |-> d.pod.volumes]
  BY <1>2 DEF BuiltFrom
<1>4. /\ x.overlay.volumes \in Seq(AnyVolume)
      /\ x.overlay.containers \in Seq(AnyContainer) /\ x.overlay.initContainers \in Seq(AnyContainer)
      /\ x.overlay.labels \in Labels
  BY OverlayTyped, UserContainerTyped
<1>5. /\ d.selector \in Labels /\ d.labels \in Labels
  BY <1>3, <1>4, LabelsTyped
<1> DEFINE vs == Seq(AnyVolume)
           cs == Seq(AnyContainer)
           l == Labels
<1>6. d.pod.volumes \in vs
  BY <1>1, <1>3, <1>4, Concatenation
<1>7. d.pod.containers \in cs
  <2>1. own \o x.overlay.containers \in Seq(AnyContainer)
    BY <1>4, Concatenation
  <2> QED
    BY <1>3, <2>1
<1>8. d.pod.initContainers \in cs
  BY <1>3, <1>4
<1> HIDE DEF vs, cs, l
<1>9. d.pod \in [containers: cs, initContainers: cs, volumes: vs]
  BY <1>3, <1>6, <1>7, <1>8
<1> DEFINE pods == [containers: cs, initContainers: cs, volumes: vs]
           sels == Optional(Labels)
<1>10. d.selector \in sels /\ d.labels \in l /\ d.checksums \in SUBSET Secret /\ d.pod \in pods
  BY <1>3, <1>5, <1>9 DEF Optional, l
<1>11. DeploymentType = [selector: sels, labels: l, checksums: SUBSET Secret, pod: pods]
  BY DEF DeploymentType, l, cs, vs
<1> HIDE DEF sels, pods
<1> QED
  BY <1>3, <1>10, <1>11

LEMMA DeploymentTyped ==
    ASSUME NEW o \in Objects, o.kind # "Kubeconfig", NEW S \in SUBSET Secret
    PROVE  Resolved(o, S) \in DeploymentType
  BY WhatIsBuilt, BuiltTyped

\* A credential is where its selector points, or Nil if there is none.
LEMMA CredentialTyped ==
    ASSUME NEW sel \in SecretSelector \cup {Nil}, NEW default \in DefaultKey
    PROVE  /\ KC!Credential(sel, default) \in KC!Optional(KC!CredentialType)
           /\ sel = Nil => KC!Credential(sel, default) = Nil
           /\ sel # Nil => /\ KC!Credential(sel, default) # Nil
                           /\ KC!Credential(sel, default).secret = sel.name
                           /\ KC!Credential(sel, default)
                                = [secret |-> sel.name, key |-> StringOrDefault(sel.key, default)]
<1>1. CASE sel = Nil
  BY <1>1 DEF KC!Credential, KC!Optional
<1>2. CASE sel # Nil
  <2> DEFINE key == StringOrDefault(sel.key, default)
  <2>1. KC!Credential(sel, default) = [secret |-> sel.name, key |-> key]
    BY <1>2 DEF KC!Credential, KC!StringOrDefault, StringOrDefault
  <2>2. sel.name \in Secret /\ key \in AnyKey
    BY <1>2, Selected
  <2>3. KC!CredentialType = [secret: Secret, key: AnyKey]
    BY DEF KC!CredentialType, KC!AnyKey, AnyKey, KC!DefaultKey, DefaultKey
  <2> HIDE DEF key
  <2>4. [secret |-> sel.name, key |-> key] \in KC!CredentialType
    BY <2>2, <2>3
  <2>5. KC!Credential(sel, default) # Nil
    BY <2>1, <2>4, NoCredentialAssumption
  <2>6. KC!Credential(sel, default) \in KC!Optional(KC!CredentialType)
    BY <2>1, <2>4 DEF KC!Optional
  <2>7. KC!Credential(sel, default).secret = sel.name
    BY <2>1
  <2> QED
    BY <1>2, <2>1, <2>5, <2>6, <2>7 DEF key
<1> QED
  BY <1>1, <1>2

\* A client config has its type.
LEMMA ConfigTyped ==
    ASSUME NEW x \in KC!KubeconfigSpec
    PROVE  KC!ResolvedConfig(x) \in KC!ClientConfig
<1> DEFINE C == KC!Optional(KC!CredentialType)
           U == [clientCertificate: C, clientKey: C, token: C, password: C]
           B == [ca: C]
<1>1. "tls.crt" \in DefaultKey /\ "tls.key" \in DefaultKey /\ "token" \in DefaultKey
      /\ "password" \in DefaultKey /\ "ca.crt" \in DefaultKey
  BY DEF DefaultKey
<1>2. ASSUME NEW a \in Items(x.users)
      PROVE  KC!ResolvedAuthInfo(a) \in U
  <2> DEFINE c1 == KC!Credential(a.clientCertificate, "tls.crt")
             c2 == KC!Credential(a.clientKey, "tls.key")
             c3 == KC!Credential(a.token, "token")
             c4 == KC!Credential(a.password, "password")
  <2>1. c1 \in C /\ c2 \in C /\ c3 \in C /\ c4 \in C
    BY <1>1, KubeconfigTyped, CredentialTyped
  <2>2. KC!ResolvedAuthInfo(a) = [clientCertificate |-> c1, clientKey |-> c2, token |-> c3, password |-> c4]
    BY DEF KC!ResolvedAuthInfo
  <2> HIDE DEF C, c1, c2, c3, c4
  <2> QED
    BY <2>1, <2>2
<1>3. ASSUME NEW c \in Items(x.clusters)
      PROVE  KC!ResolvedCluster(c) \in B
  <2> DEFINE d == KC!Credential(c.ca, "ca.crt")
  <2>1. d \in C
    BY <1>1, KubeconfigTyped, CredentialTyped
  <2>2. KC!ResolvedCluster(c) = [ca |-> d]
    BY DEF KC!ResolvedCluster
  <2> HIDE DEF C, d
  <2> QED
    BY <2>1, <2>2
<1> HIDE DEF C
<1> DEFINE us == [i \in DOMAIN x.users |-> KC!ResolvedAuthInfo(x.users[i])]
           bs == [i \in DOMAIN x.clusters |-> KC!ResolvedCluster(x.clusters[i])]
<1>4. us \in Seq(U)
  <2> HIDE DEF U
  <2>1. x.users \in Seq(KC!AuthInfo)
    BY KubeconfigTyped
  <2>2. Len(x.users) \in Nat /\ DOMAIN x.users = 1..Len(x.users)
    BY <2>1
  <2>3. \A i \in DOMAIN x.users : KC!ResolvedAuthInfo(x.users[i]) \in U
    BY <1>2 DEF Items
  <2> QED
    BY <2>2, <2>3
<1>5. bs \in Seq(B)
  <2> HIDE DEF B
  <2>1. x.clusters \in Seq([ca: SecretSelector \cup {Nil}])
    BY KubeconfigTyped
  <2>2. Len(x.clusters) \in Nat /\ DOMAIN x.clusters = 1..Len(x.clusters)
    BY <2>1
  <2>3. \A i \in DOMAIN x.clusters : KC!ResolvedCluster(x.clusters[i]) \in B
    BY <1>3 DEF Items
  <2> QED
    BY <2>2, <2>3
<1> DEFINE SU == Seq(U)
           SB == Seq(B)
<1>6. KC!ClientConfig = [users: SU, clusters: SB]
  BY DEF KC!ClientConfig, C
<1>7. KC!ResolvedConfig(x) = [users |-> us, clusters |-> bs]
  BY DEF KC!ResolvedConfig
<1> HIDE DEF us, bs, SU, SB, U, B
<1>8. us \in SU /\ bs \in SB
  BY <1>4, <1>5 DEF SU, SB
<1> QED
  BY <1>6, <1>7, <1>8

\* What the variables are before anything is resolved.
LEMMA NothingTyped ==
    NoDeployment \in DeploymentType /\ NoConfig \in KC!ClientConfig
<1> DEFINE vs == Seq(AnyVolume)
           cs == Seq(AnyContainer)
           pods == [containers: cs, initContainers: cs, volumes: vs]
           sels == Optional(Labels)
           l == Labels
           e == <<>>
<1>1. e \in vs /\ e \in cs
  OBVIOUS
<1>2. Pod(e, e) \in pods
  <2> HIDE DEF vs, cs
  <2>1. Pod(e, e) = [containers |-> e, initContainers |-> e, volumes |-> e]
    BY DEF Pod
  <2> HIDE DEF e
  <2> QED
    BY <1>1, <2>1
<1>3. Nil \in sels /\ e \in l
  <2>1. e \in [{} -> App \cup {"user"}]
    OBVIOUS
  <2>2. [{} -> App \cup {"user"}] \subseteq Labels
    BY DEF Labels
  <2> QED
    BY <2>1, <2>2 DEF Optional
<1>4. NoDeployment = [selector |-> Nil, labels |-> e, checksums |-> {}, pod |-> Pod(e, e)]
  BY DEF NoDeployment
<1>5. DeploymentType = [selector: sels, labels: l, checksums: SUBSET Secret, pod: pods]
  BY DEF DeploymentType
<1> DEFINE p == Pod(e, e)
<1>6. NoDeployment \in DeploymentType
  <2>1. p \in pods /\ NoDeployment = [selector |-> Nil, labels |-> e, checksums |-> {}, pod |-> p]
    BY <1>2, <1>4
  <2> HIDE DEF pods, p, e, sels, l
  <2> QED
    BY <1>3, <1>5, <2>1
<1> DEFINE SU == Seq([clientCertificate: KC!Optional(KC!CredentialType),
                      clientKey: KC!Optional(KC!CredentialType),
                      token: KC!Optional(KC!CredentialType), password: KC!Optional(KC!CredentialType)])
           SB == Seq([ca: KC!Optional(KC!CredentialType)])
<1>7. KC!ClientConfig = [users: SU, clusters: SB] /\ e \in SU /\ e \in SB
  BY DEF KC!ClientConfig
<1>8. NoConfig = [users |-> e, clusters |-> e]
  BY DEF NoConfig
<1> HIDE DEF SU, SB, e
<1>9. NoConfig \in KC!ClientConfig
  BY <1>7, <1>8
<1> QED
  BY <1>6, <1>9

-----------------------------------------------------------------------------
(* The invariant                                                           *)

\* Every request is one for a secret, whatever the kind (getRequests).
LEMMA RequestsTyped ==
    ASSUME NEW o \in Objects
    PROVE  Requests(o) \subseteq Secret
<1> DEFINE x == o.spec
<1>1. CASE o.kind = "KubeAPIServer" /\ x \in API!APIServerSpec
  <2>1. API!Requests(x) =
          {x.keySecret.name, x.signingKeySecret.name}
          \cup {ref.name : ref \in {x.etcdKey, x.etcdCA, x.token, x.clientCA} \ {Nil}}
          \cup ({x.secureServing} \ {Nil})
    BY DEF API!Requests, API!Given
  <2>2. API!Requests(x) \subseteq Secret
    BY <1>1, <2>1, APIServerTyped, Selected
  <2> QED
    BY <1>1, <2>2 DEF Requests
<1>2. CASE o.kind = "KubeControllerManager" /\ x \in KCM!ControllerManagerSpec
  <2>1. KCM!Requests(x) =
          {x.kubeconfig.name}
          \cup {ref.name : ref \in {x.serviceAccount.privateKey, x.serviceAccount.rootCA,
                                    x.authentication, x.authorization} \ {Nil}}
          \cup ({x.csrSigning.clusterSigning} \ {Nil})
    BY DEF KCM!Requests, KCM!Given
  <2>2. KCM!Requests(x) \subseteq Secret
    BY <1>2, <2>1, ControllerManagerTyped, Selected
  <2> QED
    BY <1>2, <2>2 DEF Requests
<1>3. CASE o.kind = "KubeScheduler" /\ x \in KS!SchedulerSpec
  <2>1. KS!Requests(x) = {ref.name : ref \in {x.kubeconfig, x.authentication, x.authorization} \ {Nil}}
    BY DEF KS!Requests, KS!Given
  <2>2. KS!Requests(x) \subseteq Secret
    BY <1>3, <2>1, SchedulerTyped, Selected
  <2> QED
    BY <1>3, <2>2 DEF Requests
<1>4. CASE o.kind = "Kubeconfig" /\ x \in KC!KubeconfigSpec
  <2>1. \A a \in Items(x.users) : KC!AuthInfoRequests(a) \subseteq Secret
    <3> SUFFICES ASSUME NEW a \in Items(x.users)
                 PROVE  KC!AuthInfoRequests(a) \subseteq Secret
      OBVIOUS
    <3>1. KC!AuthInfoRequests(a) =
            {ref.name : ref \in {a.clientCertificate, a.clientKey, a.token, a.password} \ {Nil}}
      BY DEF KC!AuthInfoRequests, KC!Given
    <3> QED
      BY <1>4, <3>1, KubeconfigTyped, Selected
  <2>2. \A c \in Items(x.clusters) : {ref.name : ref \in {c.ca} \ {Nil}} \subseteq Secret
    BY <1>4, KubeconfigTyped, Selected
  <2>3. KC!Requests(x) = (UNION {KC!AuthInfoRequests(a) : a \in Items(x.users)})
                         \cup (UNION {{ref.name : ref \in {c.ca} \ {Nil}} : c \in Items(x.clusters)})
    BY DEF KC!Requests, KC!Given, KC!Items, Items
  <2>4. KC!Requests(x) \subseteq Secret
    BY <2>1, <2>2, <2>3
  <2> QED
    BY <1>4, <2>4 DEF Requests
<1> QED
  BY <1>1, <1>2, <1>3, <1>4, Kinds
\* A store holds what is asked for and no longer pending; what is built is
\* built from a store with every request, and from no key that is missing.
ResolverInv ==
    /\ pc = "retrieve" => pending \cup store = Requests(object)
    /\ deployment # NoDeployment =>
          object.kind # "Kubeconfig" /\ deployment = Resolved(object, Requests(object))
    /\ config # NoConfig =>
          /\ object.kind = "Kubeconfig" /\ config = KC!ResolvedConfig(object.spec)
          /\ \A c \in KC!Credentials(config) : <<c.secret, c.key>> \notin Lacks

\* Every variable of the resolvers keeps its type: the Deployment and the client
\* config too, whatever the spec and its overlay ask for.
THEOREM TypeCorrect == ResolverSpec => []TypeOK
<1>1. Init => TypeOK
  BY NothingTyped DEF Init, TypeOK
<1>2. TypeOK /\ [Next]_vars => TypeOK'
  <2> SUFFICES ASSUME TypeOK, [Next]_vars
               PROVE  TypeOK'
    OBVIOUS
  <2> USE DEF TypeOK
  <2>1. CASE GetRequests
    BY <2>1, RequestsTyped DEF GetRequests
  <2>2. CASE Panic
    BY <2>2 DEF Panic
  <2>3. CASE Restart
    BY <2>3 DEF Restart
  <2>4. CASE RetrieveFails
    BY <2>4 DEF RetrieveFails
  <2>5. CASE Build
    <3>1. deployment' \in DeploymentType
      BY <2>5, DeploymentTyped DEF Build
    <3> QED
      BY <2>5, <3>1 DEF Build, Return
  <2>6. CASE BuildConfig
    <3>1. object.spec \in KC!KubeconfigSpec
      BY <2>6, Kinds DEF BuildConfig
    <3>2. config' \in KC!ClientConfig
      BY <2>6, <3>1, ConfigTyped DEF BuildConfig
    <3> QED
      BY <2>6, <3>2 DEF BuildConfig, Return
  <2>7. CASE LookupFails
    BY <2>7 DEF LookupFails, Return
  <2>8. CASE \E r \in Secret : Retrieve(r)
    BY <2>8 DEF Retrieve
  <2>9. CASE \E r \in Secret : SetSecret(r)
    BY <2>9 DEF SetSecret
  <2>10. CASE UNCHANGED vars
    BY <2>10 DEF vars
  <2> QED
    BY <2>1, <2>2, <2>3, <2>4, <2>5, <2>6, <2>7, <2>8, <2>9, <2>10 DEF Next
<1> QED
  BY <1>1, <1>2, PTL DEF ResolverSpec

\* What Resolve returns, and what it holds on the way, is what the object alone
\* and the secrets retrieved for it determine, in every reachable state.
THEOREM ResolverCorrect == ResolverSpec => []ResolverInv
<1>1. Init => ResolverInv
  BY DEF Init, ResolverInv
<1>2. TypeOK /\ ResolverInv /\ [Next]_vars => ResolverInv'
  <2> SUFFICES ASSUME TypeOK, ResolverInv, [Next]_vars
               PROVE  ResolverInv'
    OBVIOUS
  <2>1. CASE GetRequests
    BY <2>1 DEF ResolverInv, GetRequests
  <2>2. CASE Panic
    BY <2>2 DEF ResolverInv, Panic
  <2>3. CASE Restart
    BY <2>3 DEF ResolverInv, Restart
  <2>4. CASE RetrieveFails
    BY <2>4 DEF ResolverInv, RetrieveFails
  <2>5. CASE Build
    BY <2>5 DEF ResolverInv, Build, Return, Retrieved
  <2>6. CASE BuildConfig
    BY <2>6 DEF ResolverInv, BuildConfig, Return, Retrieved, Has
  <2>7. CASE LookupFails
    BY <2>7 DEF ResolverInv, LookupFails, Return
  <2>8. CASE \E r \in Secret : Retrieve(r)
    BY <2>8 DEF ResolverInv, Retrieve
  <2>9. CASE \E r \in Secret : SetSecret(r)
    BY <2>9 DEF ResolverInv, SetSecret
  <2>10. CASE UNCHANGED vars
    BY <2>10 DEF ResolverInv, vars
  <2> QED
    BY <2>1, <2>2, <2>3, <2>4, <2>5, <2>6, <2>7, <2>8, <2>9, <2>10 DEF Next
<1> QED
  BY <1>1, <1>2, TypeCorrect, PTL DEF ResolverSpec

-----------------------------------------------------------------------------
(* What follows for every Deployment                                       *)

\* V are the resolver's own volumes, own its containers, main the first of them.
Made(app, V, own, main) ==
    /\ V \in Seq(AnyVolume) /\ DistinctNames(V)
    /\ own \in Seq(AnyContainer) /\ main \in Items(own)
    /\ BuiltFrom(deployment, object.spec, app, V, own, Requests(object))
    /\ Main(main, object.spec.overlay, V, ReadAs(Uses(object)))
    /\ \A c \in Items(own) :
          c = main \/ Beside(c, object.spec.overlay, V, ReadAs(Uses(object)))
    /\ Generated(object) = {v.name : v \in Items(V)}
    /\ SecretsOf(Items(V)) = Requests(object)

\* What the invariant says of the Deployment that Resolve returned last.
LEMMA WhatIsMade ==
    ASSUME TypeOK, ResolverInv, Resolves
    PROVE  /\ object.spec.overlay \in Overlay
           /\ \E app, V, own, main : Made(app, V, own, main)
           /\ SecretsUsed(Uses(object)) = Requests(object)
<1>1. object \in Objects /\ object.kind # "Kubeconfig"
  BY DEF TypeOK, ResolverInv, Resolves
<1>2. deployment = Resolved(object, Requests(object))
  BY DEF ResolverInv, Resolves
<1>3. PICK app, V :
          /\ Built(deployment, object.spec, app, V, ReadAs(Uses(object)), Requests(object))
          /\ Generated(object) = {v.name : v \in Items(V)}
          /\ SecretsOf(Items(V)) = Requests(object)
  BY <1>1, <1>2, WhatIsBuilt
<1>4. PICK own \in Seq(AnyContainer) :
          /\ BuiltFrom(deployment, object.spec, app, V, own, Requests(object))
          /\ \E main \in Items(own) :
                /\ Main(main, object.spec.overlay, V, ReadAs(Uses(object)))
                /\ \A c \in Items(own) :
                      c = main \/ Beside(c, object.spec.overlay, V, ReadAs(Uses(object)))
  BY <1>3 DEF Built
<1>5. PICK main \in Items(own) :
          /\ Main(main, object.spec.overlay, V, ReadAs(Uses(object)))
          /\ \A c \in Items(own) :
                c = main \/ Beside(c, object.spec.overlay, V, ReadAs(Uses(object)))
  BY <1>4
<1>6. V \in Seq(AnyVolume) /\ DistinctNames(V)
  BY <1>3 DEF Built
<1>7. Made(app, V, own, main)
  BY <1>3, <1>4, <1>5, <1>6 DEF Made
<1>8. object.spec.overlay \in Overlay /\ SecretsUsed(Uses(object)) = Requests(object)
  BY <1>1, WhatIsBuilt
<1> QED
  BY <1>7, <1>8

\* What the pod is made of: the resolver's part and the user's.
LEMMA Parts ==
    ASSUME NEW app, NEW V, NEW own, NEW main, Made(app, V, own, main),
           object.spec.overlay \in Overlay
    PROVE  /\ deployment.pod.volumes = V \o object.spec.overlay.volumes
           /\ Volumes = Items(V) \cup Items(object.spec.overlay.volumes)
           /\ Containers = Items(own) \cup Items(object.spec.overlay.containers)
           /\ Items(deployment.pod.initContainers) = Items(object.spec.overlay.initContainers)
           /\ \A c \in UserContainers(object.spec.overlay) : c.files = <<>> /\ c.probeToken = FALSE
<1> DEFINE o == object.spec.overlay
<1>1. /\ deployment.pod.volumes = V \o o.volumes
      /\ deployment.pod.containers = own \o o.containers
      /\ deployment.pod.initContainers = o.initContainers
  BY DEF Made, BuiltFrom
<1>2. /\ o.volumes \in Seq(AnyVolume) /\ o.containers \in Seq(UserContainer)
      /\ o.initContainers \in Seq(UserContainer)
  BY OverlayTyped
<1>3. V \in Seq(AnyVolume) /\ own \in Seq(AnyContainer)
  BY DEF Made
<1> HIDE DEF o
<1>4. Items(V \o o.volumes) = Items(V) \cup Items(o.volumes)
  BY <1>2, <1>3, Concatenation
<1>5. Items(own \o o.containers) = Items(own) \cup Items(o.containers)
  <2>1. o.containers \in Seq(AnyContainer)
    BY <1>2, UserContainerTyped
  <2> QED
    BY <1>3, <2>1, Concatenation
<1>6. \A c \in UserContainers(o) : c \in UserContainer
  BY <1>2 DEF UserContainers, Items
<1>7. \A c \in UserContainers(o) : c.files = <<>> /\ c.probeToken = FALSE
  BY <1>6, UserContainerTyped
<1>8. /\ Volumes = Items(V) \cup Items(o.volumes)
      /\ Containers = Items(own) \cup Items(o.containers)
      /\ Items(deployment.pod.initContainers) = Items(o.initContainers)
  BY <1>1, <1>4, <1>5 DEF Volumes, Containers
<1> QED
  BY <1>1, <1>7, <1>8 DEF o

\* Of the resolver's own containers only the main one has files.
LEMMA OwnContainers ==
    ASSUME NEW app, NEW V, NEW own, NEW main, Made(app, V, own, main)
    PROVE  /\ main \in Items(own)
           /\ \A c \in Items(own) :
                 c = main \/ (c.files = <<>> /\ c.mounts = object.spec.overlay.mounts)
  BY DEF Made, Beside

\* A container is sound that mounts nothing at a path twice, and only volumes of
\* these names.
Sound(c, names) == DistinctPaths(c.mounts) /\ \A m \in Items(c.mounts) : m.name \in names

\* The pod is accepted exactly if the overlay fits.
LEMMA ResolvesMounts ==
    ASSUME TypeOK, ResolverInv
    PROVE  MountsResolve
<1> SUFFICES ASSUME Resolves
             PROVE  Accepted(deployment.pod) <=> OverlayFits(object)
  BY DEF MountsResolve
<1> DEFINE o == object.spec.overlay
           added == {v.name : v \in Items(o.volumes)}
           G == Generated(object)
           pod == deployment.pod
<1>1. o \in Overlay /\ \E app, V, own, main : Made(app, V, own, main)
  BY WhatIsMade
<1>2. PICK app, V, own, main : Made(app, V, own, main)
  BY <1>1
<1>3. /\ pod.volumes = V \o o.volumes
      /\ Items(pod.volumes) = Items(V) \cup Items(o.volumes)
      /\ Items(pod.containers) = Items(own) \cup Items(o.containers)
      /\ Items(pod.initContainers) = Items(o.initContainers)
      /\ \A c \in Items(own) : c = main \/ c.mounts = o.mounts
  <2>1. /\ pod.volumes = V \o o.volumes
        /\ Volumes = Items(V) \cup Items(o.volumes)
        /\ Containers = Items(own) \cup Items(o.containers)
        /\ Items(pod.initContainers) = Items(o.initContainers)
    BY <1>1, <1>2, Parts
  <2>2. \A c \in Items(own) : c = main \/ c.mounts = o.mounts
    BY <1>2, OwnContainers
  <2> QED
    BY <2>1, <2>2 DEF Volumes, Containers
<1>4. /\ V \in Seq(AnyVolume) /\ DistinctNames(V) /\ main \in Items(own)
      /\ main.mounts = MountsOf(V) \o o.mounts
      /\ G = {v.name : v \in Items(V)}
  BY <1>2 DEF Made, Main
<1>5. o.volumes \in Seq(AnyVolume) /\ o.mounts \in Seq(AnyMount)
  BY <1>1, OverlayTyped
<1> HIDE DEF o, G, pod
<1>6. DistinctNames(pod.volumes) <=> DistinctNames(o.volumes) /\ added \cap G = {}
  <2>1. DistinctNames(V \o o.volumes) <=>
           /\ DistinctNames(V) /\ DistinctNames(o.volumes)
           /\ \A a \in Items(V), b \in Items(o.volumes) : a.name # b.name
    BY <1>4, <1>5, DistinctConcatenation
  <2>2. (\A a \in Items(V), b \in Items(o.volumes) : a.name # b.name) <=> added \cap G = {}
    BY <1>4
  <2> QED
    BY <1>3, <1>4, <2>1, <2>2
<1>7. \A m : (\E v \in Items(pod.volumes) : v.name = m.name) <=> m.name \in added \cup G
  BY <1>3, <1>4
<1> DEFINE mounts == MountsOf(V)
<1>8. /\ mounts \in Seq(AnyMount) /\ Items(mounts) = {Mount(v.name, v.name) : v \in Items(V)}
      /\ DistinctPaths(mounts)
  BY <1>4, MountsOfTyped
<1> HIDE DEF mounts
<1>9. {m.path : m \in Items(mounts)} = G /\ {m.name : m \in Items(mounts)} = G
  <2>1. \A n : Mount(n, n).path = n /\ Mount(n, n).name = n
    BY DEF Mount
  <2>2. \A m \in Items(mounts) : m.path \in G /\ m.name \in G
    BY <1>4, <1>8, <2>1
  <2>3. \A g \in G : Mount(g, g) \in Items(mounts)
    BY <1>4, <1>8
  <2> QED
    BY <2>1, <2>2, <2>3
<1>10. DistinctPaths(main.mounts) <=>
          DistinctPaths(o.mounts) /\ {m.path : m \in Items(o.mounts)} \cap G = {}
  <2>1. DistinctPaths(mounts \o o.mounts) <=>
           /\ DistinctPaths(mounts) /\ DistinctPaths(o.mounts)
           /\ \A a \in Items(mounts), b \in Items(o.mounts) : a.path # b.path
    BY <1>5, <1>8, DistinctPathsConcatenation
  <2>2. (\A a \in Items(mounts), b \in Items(o.mounts) : a.path # b.path)
          <=> {m.path : m \in Items(o.mounts)} \cap G = {}
    BY <1>9
  <2> QED
    BY <1>4, <1>8, <2>1, <2>2 DEF mounts
<1>11. (\A m \in Items(main.mounts) : m.name \in added \cup G)
          <=> \A m \in Items(o.mounts) : m.name \in added \cup G
  <2>1. Items(main.mounts) = Items(mounts) \cup Items(o.mounts)
    BY <1>4, <1>5, <1>8, Concatenation DEF mounts
  <2> QED
    BY <1>9, <2>1
<1> DEFINE names == added \cup G
<1>12. Accepted(pod) <=>
          /\ DistinctNames(pod.volumes)
          /\ \A c \in Items(own) \cup UserContainers(o) : Sound(c, names)
  BY <1>3, <1>7 DEF Accepted, UserContainers, Sound
<1>13. (\A c \in Items(own) : Sound(c, names)) <=>
          /\ DistinctPaths(o.mounts)
          /\ {m.path : m \in Items(o.mounts)} \cap G = {}
          /\ \A m \in Items(o.mounts) : m.name \in names
  <2> HIDE DEF names, added
  <2>1. (\A c \in Items(own) : Sound(c, names)) <=> Sound(main, names)
    <3>1. Sound(main, names) => DistinctPaths(o.mounts) /\ \A m \in Items(o.mounts) : m.name \in names
      BY <1>10, <1>11 DEF Sound, names
    <3> QED
      BY <1>3, <1>4, <3>1 DEF Sound
  <2> QED
    BY <1>10, <1>11, <2>1 DEF Sound, names
<1>14. OverlayFits(object) <=>
          /\ DistinctNames(o.volumes) /\ added \cap G = {}
          /\ DistinctPaths(o.mounts)
          /\ {m.path : m \in Items(o.mounts)} \cap G = {}
          /\ \A m \in Items(o.mounts) : m.name \in names
          /\ \A c \in UserContainers(o) : Sound(c, names)
  BY DEF OverlayFits, Sound, o, G
<1> HIDE DEF added, names
<1> QED
  BY <1>6, <1>12, <1>13, <1>14 DEF pod

\* With an overlay that fits, the files of the main container lie in the volumes
\* of the resolver that are named like their directories.
LEMMA FoundOfMain ==
    ASSUME NEW app, NEW V, NEW own, NEW main, Made(app, V, own, main),
           object.spec.overlay \in Overlay, OverlayFits(object)
    PROVE  Found(main) = ReadAs(Uses(object))
<1> DEFINE o == object.spec.overlay
           G == Generated(object)
           mounts == MountsOf(V)
<1>1. Volumes = Items(V) \cup Items(o.volumes)
  BY Parts
<1>2. /\ V \in Seq(AnyVolume) /\ main.mounts = mounts \o o.mounts
      /\ G = {v.name : v \in Items(V)}
      /\ Provides(main.files, Items(V), ReadAs(Uses(object)))
  BY DEF Made, Main
<1>3. /\ \A v \in Items(o.volumes) : v.name \notin G
      /\ \A m \in Items(o.mounts) : m.path \notin G
  BY DEF OverlayFits
<1>4. o.mounts \in Seq(AnyMount) /\ mounts \in Seq(AnyMount)
  BY <1>2, OverlayTyped, MountsOfTyped
<1>5. Items(main.mounts) = {Mount(v.name, v.name) : v \in Items(V)} \cup Items(o.mounts)
  BY <1>2, <1>4, MountsOfTyped, Concatenation
<1> HIDE DEF o, G, mounts
<1>6. \A n : Mount(n, n).path = n /\ Mount(n, n).name = n
  BY DEF Mount
<1>7. ASSUME NEW f \in Items(main.files)
      PROVE  {u \in Volumes : \E m \in Items(main.mounts) : m.path = f.dir /\ m.name = u.name}
               = At(Items(V), f.dir)
  <2>1. f.dir \in G
    BY <1>2 DEF Provides
  <2>2. \A u \in Volumes :
           (\E m \in Items(main.mounts) : m.path = f.dir /\ m.name = u.name)
             <=> u.name = f.dir /\ u \in Items(V)
    BY <1>1, <1>2, <1>3, <1>5, <1>6, <2>1
  <2> QED
    BY <1>1, <2>2 DEF At
<1>8. Found(main) = FoundIn(Items(main.files), Items(V))
  BY <1>7 DEF Found, FoundIn
<1> QED
  BY <1>2, <1>8 DEF Provides

\* All containers together find what the spec gives.
LEMMA FoundAltogether ==
    ASSUME TypeOK, ResolverInv, Resolves, OverlayFits(object)
    PROVE  AllFound = ReadAs(Uses(object))
<1>1. object.spec.overlay \in Overlay /\ \E app, V, own, main : Made(app, V, own, main)
  BY WhatIsMade
<1>2. PICK app, V, own, main : Made(app, V, own, main)
  BY <1>1
<1>3. Found(main) = ReadAs(Uses(object))
  BY <1>1, <1>2, FoundOfMain
<1>4. main \in Containers /\ \A c \in Containers : c = main \/ c.files = <<>>
  <2>1. Containers = Items(own) \cup Items(object.spec.overlay.containers) /\ main \in Items(own)
    BY <1>1, <1>2, Parts, OwnContainers
  <2>2. \A c \in Items(own) : c = main \/ c.files = <<>>
    BY <1>2, OwnContainers
  <2>3. \A c \in Items(object.spec.overlay.containers) : c.files = <<>>
    BY <1>1, <1>2, Parts DEF UserContainers
  <2> QED
    BY <2>1, <2>2, <2>3
<1>5. \A c : c.files = <<>> => Found(c) = {}
  <2>1. Items(<<>>) = {}
    BY DEF Items
  <2> QED
    BY <2>1 DEF Found
<1> QED
  BY <1>3, <1>4, <1>5 DEF AllFound

LEMMA MountsFiles ==
    ASSUME TypeOK, ResolverInv
    PROVE  FilesMounted
  BY FoundAltogether DEF FilesMounted, ReadAs

\* Checksums are of the requested secrets, which are those of the own volumes.
LEMMA ChecksumsPodSecrets ==
    ASSUME TypeOK, ResolverInv
    PROVE  PodSecretsChecksummed
<1> SUFFICES ASSUME Resolves
             PROVE  /\ deployment.checksums = {u.secret : u \in Uses(object)}
                    /\ PodSecrets = deployment.checksums \cup OverlaySecrets(object.spec.overlay)
  BY DEF PodSecretsChecksummed
<1> DEFINE o == object.spec.overlay
           R == Requests(object)
<1>1. o \in Overlay /\ (\E app, V, own, main : Made(app, V, own, main)) /\ SecretsUsed(Uses(object)) = R
  BY WhatIsMade
<1>2. PICK app, V, own, main : Made(app, V, own, main)
  BY <1>1
<1>3. deployment.checksums = R /\ SecretsOf(Items(V)) = R
  BY <1>2 DEF Made, BuiltFrom
<1>4. /\ Volumes = Items(V) \cup Items(o.volumes)
      /\ Containers = Items(own) \cup Items(o.containers)
      /\ Items(deployment.pod.initContainers) = Items(o.initContainers)
  BY <1>1, <1>2, Parts
<1>5. UNION {v.secrets : v \in Volumes} = R \cup UNION {v.secrets : v \in Items(o.volumes)}
  BY <1>3, <1>4 DEF SecretsOf
<1>6. main \in Items(own) /\ EnvSecrets(main) = EnvSecrets(o)
  BY <1>2 DEF Made, Main, EnvSecrets
<1>7. ASSUME NEW c \in Items(own)
      PROVE  EnvSecrets(c) \subseteq R \cup EnvSecrets(o)
  <2>1. CASE c = main
    BY <1>6, <2>1
  <2>2. CASE Beside(c, o, V, ReadAs(Uses(object)))
    <3>1. PICK env \in Seq(AnyEnvVar) : c.env = env \o o.env /\ EnvironmentOf(env) \subseteq R
      BY <1>3, <2>2 DEF Beside
    <3>2. c.envFrom = o.envFrom
      BY <2>2 DEF Beside
    <3>3. o.env \in Seq(AnyEnvVar)
      BY <1>1, OverlayTyped
    <3>4. Items(c.env) = Items(env) \cup Items(o.env)
      BY <3>1, <3>3, Concatenation
    <3> HIDE DEF o, R
    <3> QED
      BY <3>1, <3>2, <3>4 DEF EnvSecrets, EnvironmentOf, Given
  <2> QED
    BY <1>2, <2>1, <2>2 DEF Made
<1> HIDE DEF o, R
<1> DEFINE all == Containers \cup Items(deployment.pod.initContainers)
<1>8. all = Items(own) \cup UserContainers(o)
  BY <1>4 DEF UserContainers
<1> HIDE DEF all
<1>9. R \cup UNION {EnvSecrets(c) : c \in all}
        = R \cup EnvSecrets(o) \cup UNION {EnvSecrets(c) : c \in UserContainers(o)}
  BY <1>6, <1>7, <1>8
<1>10. PodSecrets = R \cup OverlaySecrets(o)
  <2>1. PodSecrets = (R \cup UNION {v.secrets : v \in Items(o.volumes)})
                     \cup UNION {EnvSecrets(c) : c \in all}
    BY <1>5 DEF PodSecrets, all
  <2> QED
    BY <1>9, <2>1 DEF OverlaySecrets
<1> QED
  BY <1>1, <1>3, <1>10 DEF SecretsUsed, o

\* The base labels win over those of the overlay.
LEMMA SelectsPods ==
    ASSUME TypeOK, ResolverInv
    PROVE  SelectsOwnPods
<1> SUFFICES ASSUME Resolves, object.spec.selector = Nil,
                    NEW key \in DOMAIN deployment.selector
             PROVE  key \in DOMAIN deployment.labels /\ deployment.labels[key] = deployment.selector[key]
  BY DEF SelectsOwnPods
<1>1. PICK app, V, own, main : Made(app, V, own, main)
  BY WhatIsMade
<1> DEFINE base == [app |-> app]
<1>2. /\ deployment.selector = base
      /\ deployment.labels = MergeStringStringMaps(object.spec.overlay.labels, base)
  BY <1>1 DEF Made, BuiltFrom
<1>3. key \in DOMAIN base
  BY <1>2
<1> HIDE DEF base
<1>4. /\ key \in DOMAIN MergeStringStringMaps(object.spec.overlay.labels, base)
      /\ MergeStringStringMaps(object.spec.overlay.labels, base)[key] = base[key]
  BY <1>3 DEF MergeStringStringMaps
<1> QED
  BY <1>2, <1>4

\* Only the sidecar has a probe with a token, and a variable for it.
LEMMA ProbesAuthenticate ==
    ASSUME TypeOK, ResolverInv
    PROVE  ProbeCanAuthenticate
<1> DEFINE o == object.spec.overlay
           uses == ReadAs(Uses(object))
<1> SUFFICES ASSUME Resolves, OverlayFits(object), \A e \in Items(o.env) : e.name # "AUTH_TOKEN",
                    NEW c \in Containers, c.probeToken
             PROVE  \E token \in Items(c.env) :
                      /\ \A e \in Items(c.env) : e.name = "AUTH_TOKEN" <=> e = token
                      /\ Use("token-auth-file", token.secret, token.key) \in AllFound
  BY DEF ProbeCanAuthenticate
<1>1. o \in Overlay /\ \E app, V, own, main : Made(app, V, own, main)
  BY WhatIsMade
<1>2. PICK app, V, own, main : Made(app, V, own, main)
  BY <1>1
<1>3. AllFound = uses
  BY FoundAltogether
<1>4. c \in Items(own) /\ c # main
  <2>1. \A d \in Items(o.containers) : d.probeToken = FALSE
    BY <1>1, <1>2, Parts DEF UserContainers
  <2>2. main.probeToken = FALSE
    BY <1>2 DEF Made, Main
  <2> QED
    BY <1>1, <1>2, <2>1, <2>2, Parts
<1>5. Beside(c, o, V, uses)
  BY <1>2, <1>4 DEF Made
<1>6. PICK env \in Seq(AnyEnvVar) :
          /\ c.env = env \o o.env
          /\ \E e : /\ Items(env) = {e} /\ e.name = "AUTH_TOKEN"
                    /\ Use("token-auth-file", e.secret, e.key) \in uses
  BY <1>5 DEF Beside
<1>7. PICK token : /\ Items(env) = {token} /\ token.name = "AUTH_TOKEN"
                   /\ Use("token-auth-file", token.secret, token.key) \in uses
  BY <1>6
<1>8. Items(c.env) = {token} \cup Items(o.env)
  <2>1. o.env \in Seq(AnyEnvVar)
    BY <1>1, OverlayTyped
  <2> QED
    BY <1>6, <1>7, <2>1, Concatenation
<1> QED
  BY <1>3, <1>7, <1>8

-----------------------------------------------------------------------------
(* What follows for every client config                                    *)

\* The credentials of one user are read from the secrets requested for it.
UserCredentials(a) ==
    {KC!Credential(a.clientCertificate, "tls.crt"), KC!Credential(a.clientKey, "tls.key"),
     KC!Credential(a.token, "token"), KC!Credential(a.password, "password")}

LEMMA CredentialsOfUser ==
    ASSUME NEW a,
           a.clientCertificate \in SecretSelector \cup {Nil}, a.clientKey \in SecretSelector \cup {Nil},
           a.token \in SecretSelector \cup {Nil}, a.password \in SecretSelector \cup {Nil}
    PROVE  {c.secret : c \in UserCredentials(a) \ {Nil}} = KC!AuthInfoRequests(a)
<1>1. /\ "tls.crt" \in DefaultKey /\ "tls.key" \in DefaultKey
      /\ "token" \in DefaultKey /\ "password" \in DefaultKey
  BY DEF DefaultKey
<1>2. KC!AuthInfoRequests(a) =
        {ref.name : ref \in {a.clientCertificate, a.clientKey, a.token, a.password} \ {Nil}}
  BY DEF KC!AuthInfoRequests, KC!Given
<1> DEFINE c1 == KC!Credential(a.clientCertificate, "tls.crt")
           c2 == KC!Credential(a.clientKey, "tls.key")
           c3 == KC!Credential(a.token, "token")
           c4 == KC!Credential(a.password, "password")
<1>3. /\ IF a.clientCertificate = Nil THEN c1 = Nil ELSE c1 # Nil /\ c1.secret
             = a.clientCertificate.name
      /\ IF a.clientKey = Nil THEN c2 = Nil ELSE c2 # Nil /\ c2.secret = a.clientKey.name
      /\ IF a.token = Nil THEN c3 = Nil ELSE c3 # Nil /\ c3.secret = a.token.name
      /\ IF a.password = Nil THEN c4 = Nil ELSE c4 # Nil /\ c4.secret = a.password.name
  BY <1>1, CredentialTyped
<1>4. UserCredentials(a) = {c1, c2, c3, c4}
  BY DEF UserCredentials
<1> HIDE DEF c1, c2, c3, c4
<1> QED
  BY <1>2, <1>3, <1>4

\* The same of a cluster.
LEMMA CredentialsOfCluster ==
    ASSUME NEW ca \in SecretSelector \cup {Nil}
    PROVE  {c.secret : c \in {KC!Credential(ca, "ca.crt")} \ {Nil}} = {ref.name : ref \in {ca} \ {Nil}}
<1>1. "ca.crt" \in DefaultKey
  BY DEF DefaultKey
<1> DEFINE c1 == KC!Credential(ca, "ca.crt")
<1>2. IF ca = Nil THEN c1 = Nil ELSE c1 # Nil /\ c1.secret = ca.name
  BY <1>1, CredentialTyped
<1> HIDE DEF c1
<1>3. {c.secret : c \in {c1} \ {Nil}} = {ref.name : ref \in {ca} \ {Nil}}
  BY <1>2
<1> QED
  BY <1>3 DEF c1

\* The credentials of a config are those of its users and clusters.
LEMMA CredentialsOfConfig ==
    ASSUME NEW x \in KC!KubeconfigSpec
    PROVE  KC!Credentials(KC!ResolvedConfig(x)) =
             ((UNION {UserCredentials(a) : a \in Items(x.users)})
              \cup {KC!Credential(c.ca, "ca.crt") : c \in Items(x.clusters)}) \ {Nil}
<1> DEFINE config1 == KC!ResolvedConfig(x)
<1>1. /\ config1.users = [i \in DOMAIN x.users |-> KC!ResolvedAuthInfo(x.users[i])]
      /\ config1.clusters = [i \in DOMAIN x.clusters |-> KC!ResolvedCluster(x.clusters[i])]
  BY DEF KC!ResolvedConfig
<1> HIDE DEF config1
<1>2. KC!Items(config1.users) = {KC!ResolvedAuthInfo(a) : a \in Items(x.users)}
  BY <1>1 DEF KC!Items, Items
<1>3. KC!Items(config1.clusters) = {KC!ResolvedCluster(c) : c \in Items(x.clusters)}
  BY <1>1 DEF KC!Items, Items
<1>4. \A a : {KC!ResolvedAuthInfo(a).clientCertificate, KC!ResolvedAuthInfo(a).clientKey,
              KC!ResolvedAuthInfo(a).token, KC!ResolvedAuthInfo(a).password} = UserCredentials(a)
  BY DEF KC!ResolvedAuthInfo, UserCredentials
<1>5. \A c : KC!ResolvedCluster(c).ca = KC!Credential(c.ca, "ca.crt")
  BY DEF KC!ResolvedCluster
<1>6. UNION {{u.clientCertificate, u.clientKey, u.token, u.password} : u \in KC!Items(config1.users)}
        = UNION {UserCredentials(a) : a \in Items(x.users)}
  BY <1>2, <1>4
<1>7. {c.ca : c \in KC!Items(config1.clusters)}
          = {KC!Credential(c.ca, "ca.crt") : c \in Items(x.clusters)}
  BY <1>3, <1>5
<1>8. KC!Credentials(config1) =
        ((UNION {{u.clientCertificate, u.clientKey, u.token,
            u.password} : u \in KC!Items(config1.users)})
         \cup {c.ca : c \in KC!Items(config1.clusters)}) \ {Nil}
  BY DEF KC!Credentials, KC!Given
<1> QED
  BY <1>6, <1>7, <1>8 DEF config1

\* Keys are looked up in exactly the secrets that are requested: getRequests
\* and config agree on what a Kubeconfig refers to.
LEMMA CredentialsRequested ==
    ASSUME NEW x \in KC!KubeconfigSpec
    PROVE  {c.secret : c \in KC!Credentials(KC!ResolvedConfig(x))} = KC!Requests(x)
<1> DEFINE C == KC!Credentials(KC!ResolvedConfig(x))
           A == Items(x.users)
           B == Items(x.clusters)
<1>1. KC!Requests(x) = (UNION {KC!AuthInfoRequests(a) : a \in A})
                       \cup (UNION {{ref.name : ref \in {c.ca} \ {Nil}} : c \in B})
  BY DEF KC!Requests, KC!Given, KC!Items, Items
<1>2. C = ((UNION {UserCredentials(a) : a \in A})
          \cup {KC!Credential(c.ca, "ca.crt") : c \in B}) \ {Nil}
  BY CredentialsOfConfig
<1>3. \A a \in A : {c.secret : c \in UserCredentials(a) \ {Nil}} = KC!AuthInfoRequests(a)
  BY KubeconfigTyped, CredentialsOfUser
<1>4. \A c \in B : {d.secret : d \in {KC!Credential(c.ca, "ca.crt")} \ {Nil}}
          = {ref.name : ref \in {c.ca} \ {Nil}}
  BY KubeconfigTyped, CredentialsOfCluster
<1> HIDE DEF A, B, C
<1>5. ASSUME NEW c \in C PROVE c.secret \in KC!Requests(x)
  <2>1. CASE \E a \in A : c \in UserCredentials(a) \ {Nil}
    BY <1>1, <1>3, <2>1
  <2>2. CASE \E b \in B : c \in {KC!Credential(b.ca, "ca.crt")} \ {Nil}
    <3>1. PICK b \in B : c \in {KC!Credential(b.ca, "ca.crt")} \ {Nil}
      BY <2>2
    <3>2. c.secret \in {ref.name : ref \in {b.ca} \ {Nil}}
      BY <1>4, <3>1
    <3> QED
      BY <1>1, <3>2
  <2> QED
    BY <1>2, <2>1, <2>2
<1>6. ASSUME NEW r \in KC!Requests(x) PROVE \E c \in C : r = c.secret
  <2>1. CASE \E a \in A : r \in KC!AuthInfoRequests(a)
    <3>1. PICK a \in A : r \in {c.secret : c \in UserCredentials(a) \ {Nil}}
      BY <1>3, <2>1
    <3>2. PICK c \in UserCredentials(a) \ {Nil} : r = c.secret
      BY <3>1
    <3> QED
      BY <1>2, <3>2
  <2>2. CASE \E b \in B : r \in {ref.name : ref \in {b.ca} \ {Nil}}
    <3>1. PICK b \in B : r \in {d.secret : d \in {KC!Credential(b.ca, "ca.crt")} \ {Nil}}
      BY <1>4, <2>2
    <3>2. r = KC!Credential(b.ca, "ca.crt").secret /\ KC!Credential(b.ca, "ca.crt") # Nil
      BY <3>1
    <3>3. KC!Credential(b.ca, "ca.crt") \in C
      BY <1>2, <3>2
    <3> QED
      BY <3>2, <3>3
  <2> QED
    BY <1>1, <2>1, <2>2
<1>7. {c.secret : c \in C} = KC!Requests(x)
  BY <1>5, <1>6
<1> QED
  BY <1>7 DEF C

\* So what is looked up has been retrieved.
LEMMA RetrievesLookups ==
    ASSUME TypeOK, ResolverInv
    PROVE  LookupsRetrieved
<1> SUFFICES ASSUME object.kind = "Kubeconfig", Retrieved
             PROVE  \A c \in KC!Credentials(KC!ResolvedConfig(object.spec)) : c.secret \in store
  BY DEF LookupsRetrieved
<1>1. object.spec \in KC!KubeconfigSpec
  BY Kinds DEF TypeOK
<1>2. store = KC!Requests(object.spec)
  BY DEF Retrieved, ResolverInv, Requests
<1> QED
  BY <1>1, <1>2, CredentialsRequested

\* Each credential is read from the place its own selector gives.
LEMMA HasCredentials ==
    ASSUME TypeOK, ResolverInv
    PROVE  ConfigHasCredentials
<1> DEFINE x == object.spec
<1> SUFFICES ASSUME config # NoConfig
             PROVE  /\ DOMAIN config.users = DOMAIN x.users
                    /\ DOMAIN config.clusters = DOMAIN x.clusters
                    /\ \A i \in DOMAIN x.users : \A field \in DOMAIN DefaultKeys :
                          ReadFrom(config.users[i][field], x.users[i][field], DefaultKeys[field])
                    /\ \A i \in DOMAIN x.clusters :
                          ReadFrom(config.clusters[i].ca, x.clusters[i].ca, "ca.crt")
  BY DEF ConfigHasCredentials
<1>1. /\ object.kind = "Kubeconfig" /\ config = KC!ResolvedConfig(x)
      /\ \A c \in KC!Credentials(config) : <<c.secret, c.key>> \notin Lacks
  BY DEF ResolverInv
<1>2. x \in KC!KubeconfigSpec
  BY <1>1, Kinds DEF TypeOK
<1>3. /\ config.users = [i \in DOMAIN x.users |-> KC!ResolvedAuthInfo(x.users[i])]
      /\ config.clusters = [i \in DOMAIN x.clusters |-> KC!ResolvedCluster(x.clusters[i])]
  BY <1>1 DEF KC!ResolvedConfig
<1>4. /\ "tls.crt" \in DefaultKey /\ "tls.key" \in DefaultKey /\ "token" \in DefaultKey
      /\ "password" \in DefaultKey /\ "ca.crt" \in DefaultKey
  BY DEF DefaultKey
<1> HIDE DEF x
<1>5. ASSUME NEW sel \in SecretSelector \cup {Nil}, NEW default \in DefaultKey, NEW used,
             used = KC!Credential(sel, default), used # Nil => used \in KC!Credentials(config)
      PROVE  ReadFrom(used, sel, default)
  <2>1. CASE sel = Nil
    BY <1>5, <2>1, CredentialTyped DEF ReadFrom
  <2>2. CASE sel # Nil
    <3>1. used # Nil /\ used = [secret |-> sel.name, key |-> StringOrDefault(sel.key, default)]
      BY <1>5, <2>2, CredentialTyped
    <3>2. <<used.secret, used.key>> \notin Lacks
      BY <1>1, <1>5, <3>1
    <3> QED
      BY <2>2, <3>1, <3>2 DEF ReadFrom
  <2> QED
    BY <2>1, <2>2
<1>6. ASSUME NEW i \in DOMAIN x.users
      PROVE  \A field \in DOMAIN DefaultKeys :
                ReadFrom(config.users[i][field], x.users[i][field], DefaultKeys[field])
  <2> DEFINE a == x.users[i]
             u == config.users[i]
  <2>1. a \in Items(x.users)
    BY <1>6 DEF Items
  <2>2. /\ a.clientCertificate \in SecretSelector \cup {Nil}
        /\ a.clientKey \in SecretSelector \cup {Nil}
        /\ a.token \in SecretSelector \cup {Nil} /\ a.password \in SecretSelector \cup {Nil}
    BY <1>2, <2>1, KubeconfigTyped
  <2>3. u = KC!ResolvedAuthInfo(a)
    BY <1>3, <1>6
  <2>4. /\ u.clientCertificate = KC!Credential(a.clientCertificate, "tls.crt")
        /\ u.clientKey = KC!Credential(a.clientKey, "tls.key")
        /\ u.token = KC!Credential(a.token, "token")
        /\ u.password = KC!Credential(a.password, "password")
    BY <2>3 DEF KC!ResolvedAuthInfo
  <2>5. \A c \in UserCredentials(a) : c # Nil => c \in KC!Credentials(config)
    BY <1>1, <1>2, <2>1, CredentialsOfConfig
  <2>6. /\ u.clientCertificate \in UserCredentials(a) /\ u.clientKey \in UserCredentials(a)
        /\ u.token \in UserCredentials(a) /\ u.password \in UserCredentials(a)
    BY <2>4 DEF UserCredentials
  <2>7. /\ DOMAIN DefaultKeys = {"clientCertificate", "clientKey", "token", "password"}
        /\ DefaultKeys["clientCertificate"] = "tls.crt" /\ DefaultKeys["clientKey"] = "tls.key"
        /\ DefaultKeys["token"] = "token" /\ DefaultKeys["password"] = "password"
    BY DEF DefaultKeys
  <2> HIDE DEF a, u
  <2>8. ReadFrom(u.clientCertificate, a.clientCertificate, "tls.crt")
    BY <1>4, <1>5, <2>2, <2>4, <2>5, <2>6
  <2>9. ReadFrom(u.clientKey, a.clientKey, "tls.key")
    BY <1>4, <1>5, <2>2, <2>4, <2>5, <2>6
  <2>10. ReadFrom(u.token, a.token, "token")
    BY <1>4, <1>5, <2>2, <2>4, <2>5, <2>6
  <2>11. ReadFrom(u.password, a.password, "password")
    BY <1>4, <1>5, <2>2, <2>4, <2>5, <2>6
  <2>12. \A field \in DOMAIN DefaultKeys : ReadFrom(u[field], a[field], DefaultKeys[field])
    BY <2>7, <2>8, <2>9, <2>10, <2>11
  <2> QED
    BY <2>12 DEF a, u
<1>7. ASSUME NEW i \in DOMAIN x.clusters
      PROVE  ReadFrom(config.clusters[i].ca, x.clusters[i].ca, "ca.crt")
  <2> DEFINE c == x.clusters[i]
             d == config.clusters[i]
  <2>1. c \in Items(x.clusters)
    BY <1>7 DEF Items
  <2>2. c.ca \in SecretSelector \cup {Nil}
    BY <1>2, <2>1, KubeconfigTyped
  <2>3. d.ca = KC!Credential(c.ca, "ca.crt")
    BY <1>3, <1>7 DEF KC!ResolvedCluster
  <2>4. d.ca # Nil => d.ca \in KC!Credentials(config)
    BY <1>1, <1>2, <2>1, <2>3, CredentialsOfConfig
  <2> HIDE DEF c, d
  <2>5. ReadFrom(d.ca, c.ca, "ca.crt")
    BY <1>4, <1>5, <2>2, <2>3, <2>4
  <2> QED
    BY <2>5 DEF c, d
<1>8. DOMAIN config.users = DOMAIN x.users /\ DOMAIN config.clusters = DOMAIN x.clusters
  BY <1>3
<1> QED
  BY <1>6, <1>7, <1>8

-----------------------------------------------------------------------------
(* The theorems                                                            *)

\* For every spec of every kind, and every overlay: the volumes and mounts of the
\* Deployment are accepted exactly if the overlay fits, so nothing the resolver
\* makes is ever the reason for a refusal (volumes, volumeMounts, ApplyPodOverlay).
THEOREM MountsAlwaysResolve == ResolverSpec => []MountsResolve
<1>1. TypeOK /\ ResolverInv => MountsResolve
  BY ResolvesMounts
<1> QED
  BY <1>1, TypeCorrect, ResolverCorrect, PTL

\* Command line, mounts and volumes fit together, with any overlay that fits:
\* every file a command line names lies in the secret the spec gives for that
\* purpose, under the key of its selector or the default (but always under
\* tls.key for the service account keys and the etcd key), and none is unused.
THEOREM FilesAreMounted == ResolverSpec => []FilesMounted
<1>1. TypeOK /\ ResolverInv => FilesMounted
  BY MountsFiles
<1> QED
  BY <1>1, TypeCorrect, ResolverCorrect, PTL

\* The template has a checksum of every secret the spec references, and its pods
\* depend on no other secrets than these and those of the overlay.
THEOREM PodSecretsAreChecksummed == ResolverSpec => []PodSecretsChecksummed
<1>1. TypeOK /\ ResolverInv => PodSecretsChecksummed
  BY ChecksumsPodSecrets
<1> QED
  BY <1>1, TypeCorrect, ResolverCorrect, PTL

\* Without a selector of the user's the Deployment selects its own pods.
THEOREM OwnPodsAreSelected == ResolverSpec => []SelectsOwnPods
<1>1. TypeOK /\ ResolverInv => SelectsOwnPods
  BY SelectsPods
<1> QED
  BY <1>1, TypeCorrect, ResolverCorrect, PTL

\* A probe that sends a token has the one the API server authenticates with,
\* whatever else the overlay adds to the environment under other names.
THEOREM ProbesCanAuthenticate == ResolverSpec => []ProbeCanAuthenticate
<1>1. TypeOK /\ ResolverInv => ProbeCanAuthenticate
  BY ProbesAuthenticate
<1> QED
  BY <1>1, TypeCorrect, ResolverCorrect, PTL

\* A Kubeconfig looks up keys only in secrets that were retrieved.
THEOREM LookupsAreRetrieved == ResolverSpec => []LookupsRetrieved
<1>1. TypeOK /\ ResolverInv => LookupsRetrieved
  BY RetrievesLookups
<1> QED
  BY <1>1, TypeCorrect, ResolverCorrect, PTL

\* A client config has the credentials of every user and the authority of every
\* cluster, in the order of the spec: each from the secret its own selector
\* names, under the key given there or the documented default.
THEOREM ConfigsHaveCredentials == ResolverSpec => []ConfigHasCredentials
<1>1. TypeOK /\ ResolverInv => ConfigHasCredentials
  BY HasCredentials
<1> QED
  BY <1>1, TypeCorrect, ResolverCorrect, PTL
=============================================================================
