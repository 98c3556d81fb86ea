-------------------------- MODULE HelloNamesProofs --------------------------
(***************************************************************************)
(* For any names, specs and bounds: the objects of a cluster stay its own  *)
(* as long as no rival of it was created, and only rivals can do it harm.  *)
(***************************************************************************)
EXTENDS HelloNames, SequenceTheorems, TLAPS

\* The words of the name of a role group's objects.
LEMMA ObjectNameWords ==
    ASSUME NEW c \in Seq(Word), NEW g \in Seq(Word)
    PROVE  /\ ObjectName(c, g) \in Seq(Word)
           /\ Len(ObjectName(c, g)) = Len(c) + 1 + Len(g)
           /\ \A i \in 1..Len(c) : ObjectName(c, g)[i] = c[i]
           /\ ObjectName(c, g)[Len(c) + 1] = "server"
           /\ \A i \in 1..Len(g) : ObjectName(c, g)[Len(c) + 1 + i] = g[i]
<1> DEFINE s == <<"server">>
           cs == c \o s
<1>1. s \in Seq(Word)  BY NamesAssumption
<1>2. Len(s) = 1 /\ s[1] = "server"  OBVIOUS
<1>3. Len(c) \in Nat /\ Len(g) \in Nat  BY LenProperties
<1>4. ObjectName(c, g) = cs \o g  BY DEF ObjectName
<1> HIDE DEF s
<1>5. /\ cs \in Seq(Word)
      /\ Len(cs) = Len(c) + Len(s)
      /\ \A i \in 1..Len(c) + Len(s) : cs[i] = IF i <= Len(c) THEN c[i] ELSE s[i - Len(c)]
  BY <1>1, ConcatProperties
<1> HIDE DEF cs
<1>6. /\ cs \o g \in Seq(Word)
      /\ Len(cs \o g) = Len(cs) + Len(g)
      /\ \A i \in 1..Len(cs) + Len(g) :
           (cs \o g)[i] = IF i <= Len(cs) THEN cs[i] ELSE g[i - Len(cs)]
  <2>1. cs \in Seq(Word)  BY <1>5
  <2> QED  BY <2>1, ConcatProperties, Zenon
<1>7. Len(cs) = Len(c) + 1  BY <1>2, <1>5
<1>8. cs[Len(c) + 1] = "server"
  <2>1. cs[Len(c) + 1] = s[Len(c) + 1 - Len(c)]  BY <1>2, <1>3, <1>5
  <2>2. Len(c) + 1 - Len(c) = 1  BY <1>3
  <2> QED  BY <1>2, <2>1, <2>2
<1> DEFINE n == cs \o g
<1> HIDE DEF n
<1>9. \A i \in 1..Len(c) : n[i] = c[i]
  <2> TAKE i \in 1..Len(c)
  <2>1. n[i] = cs[i]  BY <1>3, <1>6, <1>7 DEF n
  <2>2. cs[i] = c[i]  BY <1>2, <1>3, <1>5
  <2> QED  BY <2>1, <2>2
<1>10. n[Len(c) + 1] = "server"
  <2>1. n[Len(c) + 1] = cs[Len(c) + 1]  BY <1>3, <1>6, <1>7 DEF n
  <2> QED  BY <1>8, <2>1
<1>11. \A i \in 1..Len(g) : n[Len(c) + 1 + i] = g[i]
  <2> TAKE i \in 1..Len(g)
  <2>1. n[Len(c) + 1 + i] = g[Len(c) + 1 + i - Len(cs)]  BY <1>3, <1>6, <1>7 DEF n
  <2>2. Len(c) + 1 + i - Len(cs) = i  BY <1>3, <1>7
  <2> QED  BY <2>1, <2>2
<1>12. n \in Seq(Word) /\ Len(n) = Len(c) + 1 + Len(g)  BY <1>6, <1>7 DEF n
<1> QED  BY <1>4, <1>9, <1>10, <1>11, <1>12 DEF n

\* What a role group may be called.
Words1 == {s \in Seq(Word) : Len(s) > 0}

LEMMA GroupNames == GroupName \subseteq Words1
BY NamesAssumption DEF Words1

\* No cluster is its own rival.
LEMMA NotItself == ASSUME NEW c \in Name PROVE ~Rivals(c, c)
<1>1. Len(c) \in Nat  BY NamesAssumption
<1> QED  BY <1>1 DEF Rivals, Continues

\* No cluster is called like the objects of a role group, unless of a rival.
LEMMA ClusterNameApart ==
    ASSUME NEW c \in Name, NEW d \in Name, NEW g \in Words1, ~Rivals(c, d)
    PROVE  c # ObjectName(d, g)
<1> SUFFICES ASSUME c = ObjectName(d, g) PROVE Continues(c, d)
  BY DEF Rivals
<1>1. d \in Seq(Word) /\ g \in Seq(Word) /\ Len(g) > 0
  BY NamesAssumption DEF Words1
<1>2. Len(d) \in Nat /\ Len(g) \in Nat  BY <1>1
<1>3. /\ Len(c) = Len(d) + 1 + Len(g)
      /\ \A i \in 1..Len(d) : c[i] = d[i]
      /\ c[Len(d) + 1] = "server"
  BY <1>1, ObjectNameWords
<1> QED  BY <1>1, <1>2, <1>3 DEF Continues

\* The objects of two role groups have different names, be it in one cluster
\* or in two that are no rivals.
LEMMA GroupNamesApart ==
    ASSUME NEW c \in Name, NEW d \in Name, NEW g \in Words1, NEW h \in Words1,
           ObjectName(c, g) = ObjectName(d, h), ~Rivals(c, d)
    PROVE  c = d /\ g = h
<1> DEFINE n == ObjectName(c, g)
<1>1. /\ c \in Seq(Word) /\ g \in Seq(Word) /\ d \in Seq(Word) /\ h \in Seq(Word)
      /\ Len(c) \in Nat /\ Len(d) \in Nat /\ Len(g) \in Nat /\ Len(h) \in Nat
  BY NamesAssumption DEF Words1
<1>2. /\ Len(n) = Len(c) + 1 + Len(g)
      /\ \A i \in 1..Len(c) : n[i] = c[i]
      /\ n[Len(c) + 1] = "server"
      /\ \A i \in 1..Len(g) : n[Len(c) + 1 + i] = g[i]
  BY <1>1, ObjectNameWords
<1>3. /\ Len(n) = Len(d) + 1 + Len(h)
      /\ \A i \in 1..Len(d) : n[i] = d[i]
      /\ n[Len(d) + 1] = "server"
      /\ \A i \in 1..Len(h) : n[Len(d) + 1 + i] = h[i]
  <2>1. n = ObjectName(d, h)  OBVIOUS
  <2> HIDE DEF n
  <2> QED  BY <1>1, <2>1, ObjectNameWords
<1> HIDE DEF n
<1>4. ~(Len(c) < Len(d))
  <2> SUFFICES ASSUME Len(c) < Len(d) PROVE Continues(d, c)
    BY DEF Rivals
  <2>1. \A i \in 1..Len(c) : d[i] = c[i]  BY <1>1, <1>2, <1>3
  <2>2. d[Len(c) + 1] = "server"
    <3>1. Len(c) + 1 \in 1..Len(d)  BY <1>1
    <3>2. n[Len(c) + 1] = d[Len(c) + 1]  BY <1>3, <3>1
    <3> QED  BY <1>2, <3>2
  <2> QED  BY <2>1, <2>2 DEF Continues
<1>5. ~(Len(d) < Len(c))
  <2> SUFFICES ASSUME Len(d) < Len(c) PROVE Continues(c, d)
    BY DEF Rivals
  <2>1. \A i \in 1..Len(d) : c[i] = d[i]  BY <1>1, <1>2, <1>3
  <2>2. c[Len(d) + 1] = "server"
    <3>1. Len(d) + 1 \in 1..Len(c)  BY <1>1
    <3>2. n[Len(d) + 1] = c[Len(d) + 1]  BY <1>2, <3>1
    <3> QED  BY <1>3, <3>2
  <2> QED  BY <2>1, <2>2 DEF Continues
<1>6. Len(c) = Len(d) /\ Len(g) = Len(h)  BY <1>1, <1>2, <1>3, <1>4, <1>5
<1>7. c = d
  <2>1. \A i \in 1..Len(c) : c[i] = d[i]  BY <1>2, <1>3, <1>6
  <2> QED  BY <1>1, <1>6, <2>1, SeqEqual
<1>8. g = h
  <2>1. \A i \in 1..Len(g) : g[i] = h[i]  BY <1>2, <1>3, <1>6
  <2> QED  BY <1>1, <1>6, <2>1, SeqEqual
<1> QED  BY <1>7, <1>8

-----------------------------------------------------------------------------
\* What objects of a cluster may be called, whatever its role groups.
ObjectNames(c) == {c} \cup {ObjectName(c, g) : g \in Words1}

\* A name that goes on from c with the role makes objects c may have as well.
LEMMA RivalsMeet ==
    ASSUME NEW c \in Name, NEW d \in Name, Continues(d, c)
    PROVE  ObjectNames(c) \cap ObjectNames(d) # {}
<1> DEFINE rest == SubSeq(d, Len(c) + 2, Len(d))
           h == <<"server">>
           g == ObjectName(rest, h)
<1>1. /\ c \in Seq(Word) /\ d \in Seq(Word)
      /\ Len(c) \in Nat /\ Len(d) \in Nat /\ Len(c) < Len(d)
      /\ \A i \in 1..Len(c) : d[i] = c[i]
      /\ d[Len(c) + 1] = "server"
  BY NamesAssumption DEF Continues
<1>2. h \in Seq(Word) /\ Len(h) = 1 /\ h[1] = "server"
  BY NamesAssumption
<1>3. /\ rest \in Seq(Word)
      /\ Len(rest) = Len(d) - Len(c) - 1
      /\ \A i \in 1..Len(rest) : rest[i] = d[Len(c) + 1 + i]
  <2>1. Len(c) + 2 \in Int /\ Len(d) \in Int /\ \A i \in (Len(c) + 2)..Len(d) : d[i] \in Word
    BY <1>1, ElementOfSeq
  <2>2. /\ rest \in Seq(Word)
        /\ Len(rest) = IF Len(c) + 2 <= Len(d) THEN Len(d) - (Len(c) + 2) + 1 ELSE 0
        /\ \A i \in 1..(Len(d) - (Len(c) + 2) + 1) : rest[i] = d[Len(c) + 2 + i - 1]
    BY <2>1, SubSeqProperties
  <2>3. Len(rest) = Len(d) - Len(c) - 1  BY <1>1, <2>2
  <2>4. \A i \in 1..Len(rest) : rest[i] = d[Len(c) + 1 + i]
    <3> TAKE i \in 1..Len(rest)
    <3>1. i \in 1..(Len(d) - (Len(c) + 2) + 1)  BY <1>1, <2>3
    <3>2. Len(c) + 2 + i - 1 = Len(c) + 1 + i  BY <1>1, <3>1
    <3> QED  BY <2>2, <3>1, <3>2
  <2> QED  BY <2>2, <2>3, <2>4
<1> HIDE DEF rest, h
<1>4. /\ g \in Seq(Word) /\ Len(g) = Len(rest) + 1 + Len(h)
      /\ \A i \in 1..Len(rest) : g[i] = rest[i]
      /\ g[Len(rest) + 1] = "server"
      /\ \A i \in 1..Len(h) : g[Len(rest) + 1 + i] = h[i]
  BY <1>2, <1>3, ObjectNameWords
<1> HIDE DEF g
<1> DEFINE n == ObjectName(c, g)
           m == ObjectName(d, h)
<1>5. /\ n \in Seq(Word) /\ Len(n) = Len(c) + 1 + Len(g)
      /\ \A i \in 1..Len(c) : n[i] = c[i]
      /\ n[Len(c) + 1] = "server"
      /\ \A i \in 1..Len(g) : n[Len(c) + 1 + i] = g[i]
  BY <1>1, <1>4, ObjectNameWords
<1>6. /\ m \in Seq(Word) /\ Len(m) = Len(d) + 1 + Len(h)
      /\ \A i \in 1..Len(d) : m[i] = d[i]
      /\ m[Len(d) + 1] = "server"
      /\ \A i \in 1..Len(h) : m[Len(d) + 1 + i] = h[i]
  BY <1>1, <1>2, ObjectNameWords
<1> HIDE DEF n, m
<1>7. Len(n) = Len(m)  BY <1>1, <1>2, <1>3, <1>4, <1>5, <1>6
<1>8. \A i \in 1..Len(n) : n[i] = m[i]
  <2> TAKE i \in 1..Len(n)
  <2>1. CASE i \in 1..Len(c)
    <3>1. i \in 1..Len(d)  BY <1>1, <2>1
    <3>2. n[i] = c[i]  BY <1>5, <2>1
    <3>3. m[i] = d[i]  BY <1>6, <3>1
    <3>4. d[i] = c[i]  BY <1>1, <2>1
    <3> QED  BY <3>2, <3>3, <3>4
  <2>2. CASE i = Len(c) + 1
    BY <1>1, <1>5, <1>6, <2>2
  <2>3. CASE i \in (Len(c) + 2)..Len(d)
    <3> DEFINE j == i - Len(c) - 1
    <3>1. j \in 1..Len(rest) /\ j \in 1..Len(g) /\ i = Len(c) + 1 + j
      BY <1>1, <1>2, <1>3, <1>4, <2>3
    <3>2. n[i] = g[j]  BY <1>5, <3>1
    <3>3. g[j] = d[i]  BY <1>3, <1>4, <3>1
    <3>4. m[i] = d[i]  BY <1>1, <1>6, <2>3
    <3> QED  BY <3>2, <3>3, <3>4
  <2>4. CASE i = Len(d) + 1
    <3>1. Len(rest) + 1 \in 1..Len(g) /\ i = Len(c) + 1 + (Len(rest) + 1)
      BY <1>1, <1>2, <1>3, <1>4, <2>4
    <3>2. n[i] = g[Len(rest) + 1]  BY <1>5, <3>1
    <3> QED  BY <1>4, <1>6, <2>4, <3>2
  <2>5. CASE i = Len(d) + 2
    <3>1. Len(rest) + 2 \in 1..Len(g) /\ i = Len(c) + 1 + (Len(rest) + 2)
      BY <1>1, <1>2, <1>3, <1>4, <2>5
    <3>2. n[i] = g[Len(rest) + 2]  BY <1>5, <3>1
    <3>3. g[Len(rest) + 2] = h[1]
      <4>1. 1 \in 1..Len(h) /\ Len(rest) + 2 = Len(rest) + 1 + 1  BY <1>1, <1>2, <1>3
      <4> QED  BY <1>4, <4>1
    <3>4. m[i] = h[1]
      <4>1. 1 \in 1..Len(h) /\ i = Len(d) + 1 + 1  BY <1>1, <1>2, <2>5
      <4> QED  BY <1>6, <4>1
    <3> QED  BY <3>2, <3>3, <3>4
  <2> QED  BY <1>1, <1>2, <1>6, <1>7, <2>1, <2>2, <2>3, <2>4, <2>5
<1>9. n = m  BY <1>5, <1>6, <1>7, <1>8, SeqEqual
<1>10. g \in Words1 /\ h \in Words1
  <2>1. Len(g) > 0 /\ Len(h) > 0  BY <1>1, <1>2, <1>3, <1>4
  <2> QED  BY <1>2, <1>4, <2>1 DEF Words1
<1>11. n \in ObjectNames(c) /\ m \in ObjectNames(d)  BY <1>10 DEF ObjectNames, n, m
<1> QED  BY <1>9, <1>11

(***************************************************************************)
(* Two clusters can have objects of one name, with suitable role groups,   *)
(* if and only if they are rivals: one is called like the other, the role  *)
(* and possibly more.  The theorems below except no other clusters.        *)
(***************************************************************************)
THEOREM RivalsExact ==
    ASSUME NEW c \in Name, NEW d \in Name, c # d
    PROVE  Rivals(c, d) <=> ObjectNames(c) \cap ObjectNames(d) # {}
<1>1. ASSUME Rivals(c, d) PROVE ObjectNames(c) \cap ObjectNames(d) # {}
  BY <1>1, RivalsMeet DEF Rivals
<1>2. ASSUME ~Rivals(c, d) PROVE ObjectNames(c) \cap ObjectNames(d) = {}
  <2>1. \A g \in Words1 : c # ObjectName(d, g)
    BY <1>2, ClusterNameApart
  <2>2. \A g \in Words1 : d # ObjectName(c, g)
    BY <1>2, ClusterNameApart DEF Rivals
  <2>3. \A g, h \in Words1 : ObjectName(c, g) # ObjectName(d, h)
    BY <1>2, GroupNamesApart
  <2> QED  BY <2>1, <2>2, <2>3 DEF ObjectNames
<1> QED  BY <1>1, <1>2

-----------------------------------------------------------------------------
\* What a HelloCluster may be, to a user and in the snapshot of a run.
SpecOK(s) ==
    /\ s.uid \in Nat
    /\ s.stopped \in BOOLEAN
    /\ DOMAIN s.groups \subseteq GroupName
    /\ \A g \in DOMAIN s.groups : s.groups[g] \in Nat \cup {None}

\* An object is named after the cluster and the role group on its labels.
Shaped(o) ==
    /\ o.kind \in Kind /\ o.instance \in Name
    /\ \/ o.kind = "Service" /\ o.name = o.instance
       \/ o.group \in GroupName /\ o.name = ObjectName(o.instance, o.group)

\* One object of a kind under one name.
Unique == \A o, p \in objects : SameObject(o, p) => o = p

\* What a run has applied stays while its cluster lives and has no rivals.
Present == \A c \in Name : Unrivalled(c) /\
    run[c] # None /\ clusters[c] # None /\ clusters[c].uid = run[c].spec.uid
        => run[c].applied \subseteq objects

TypeOK ==
    /\ created \in Nat
    /\ clusters = [c \in Name |-> clusters[c]] /\ run = [c \in Name |-> run[c]]
    /\ \A c \in Name : clusters[c] # None => SpecOK(clusters[c]) /\ clusters[c].uid < created
    /\ \A c \in Name : run[c] # None =>
         /\ run[c] = [spec |-> run[c].spec, applied |-> run[c].applied]
         /\ run[c].spec # None /\ SpecOK(run[c].spec) /\ run[c].spec.uid < created
         /\ run[c].applied \subseteq Objects(c, run[c].spec)
    /\ \A o \in objects : Shaped(o)

\* A settled cluster is there, and a run of it has seen its present spec.
Settled == \A c \in settled :
    c \in Name /\ clusters[c] # None /\ (run[c] # None => run[c].spec = clusters[c])

\* Whatever is there is of a cluster that was created.
Named ==
    /\ named \subseteq Name
    /\ \A c \in Name : clusters[c] # None \/ run[c] # None => c \in named
    /\ \A o \in objects : o.instance \in named

IInv == TypeOK /\ Named /\ Unique /\ Present /\ Settled /\ OwnObjects

-----------------------------------------------------------------------------
\* The objects of a run are named after its cluster.
LEMMA ObjectsShaped ==
    ASSUME NEW c \in Name, NEW s, SpecOK(s), NEW o \in Objects(c, s)
    PROVE  Shaped(o) /\ o.instance = c /\ o.owner = s.uid
<1>1. CASE o = RoleService(c, s)
  BY <1>1 DEF RoleService, Shaped, Kind
<1>2. CASE o # RoleService(c, s)
  <2>1. PICK k \in Kind, g \in DOMAIN s.groups : o = GroupObject(k, c, g, s)
    BY <1>2 DEF Objects
  <2>2. o.kind = k /\ o.name = ObjectName(c, g) /\ o.instance = c /\ o.group = g /\ o.owner = s.uid
    BY <2>1 DEF GroupObject
  <2> QED  BY <2>2 DEF Shaped, SpecOK
<1> QED  BY <1>1, <1>2

\* Objects of one name belong to one cluster, or to rivals.
LEMMA NameDecidesCluster ==
    ASSUME NEW o, NEW p, Shaped(o), Shaped(p), o.name = p.name,
           ~Rivals(o.instance, p.instance)
    PROVE  o.instance = p.instance
BY GroupNames, ClusterNameApart, GroupNamesApart DEF Shaped, Rivals

\* A cluster that has no rivals had none.
LEMMA NoneBefore ==
    ASSUME NEW c, named \subseteq named', Unrivalled(c)' PROVE Unrivalled(c)
BY DEF Unrivalled

\* A run applies one object of a kind under one name.
LEMMA ObjectsUnique ==
    ASSUME NEW c \in Name, NEW s, SpecOK(s), NEW o \in Objects(c, s), NEW p \in Objects(c, s),
           SameObject(o, p)
    PROVE  o = p
<1>1. \A q \in Objects(c, s) :
        \/ q = RoleService(c, s) /\ q.name = c
        \/ \E k \in Kind, g \in DOMAIN s.groups :
             q = GroupObject(k, c, g, s) /\ q.name = ObjectName(c, g) /\ q.kind = k
  BY DEF Objects, RoleService, GroupObject
<1>2. CASE o.name = c
  <2>1. \A g \in DOMAIN s.groups : ObjectName(c, g) # c
    BY GroupNames, ClusterNameApart, NotItself DEF SpecOK
  <2> QED  BY <1>1, <1>2, <2>1 DEF SameObject
<1>3. CASE o.name # c
  <2>1. PICK k \in Kind, g \in DOMAIN s.groups :
          o = GroupObject(k, c, g, s) /\ o.name = ObjectName(c, g) /\ o.kind = k
    BY <1>1, <1>3
  <2>2. PICK l \in Kind, h \in DOMAIN s.groups :
          p = GroupObject(l, c, h, s) /\ p.name = ObjectName(c, h) /\ p.kind = l
    BY <1>1, <1>3 DEF SameObject
  <2>3. k = l /\ g = h
    BY <2>1, <2>2, GroupNames, GroupNamesApart, NotItself DEF SameObject, SpecOK
  <2> QED  BY <2>1, <2>2, <2>3
<1> QED  BY <1>2, <1>3

-----------------------------------------------------------------------------
LEMMA InitIInv == ASSUME Init PROVE IInv
BY DEF Init, IInv, TypeOK, Named, Unique, Present, Settled, OwnObjects

\* A new cluster has a uid of its own; no run is about it yet.
LEMMA CreateIInv ==
    ASSUME IInv, NEW c \in Name, NEW w \in Wanted, Create(c, w) PROVE IInv'
<1> DEFINE s == [groups |-> w.groups, stopped |-> w.stopped, uid |-> created]
<1>1. /\ clusters[c] = None /\ clusters' = [clusters EXCEPT ![c] = s]
      /\ created' = created + 1 /\ named' = named \cup {c}
      /\ run' = run /\ settled' = settled /\ objects' = objects
  BY DEF Create
<1>2. created \in Nat  BY DEF IInv, TypeOK
<1>3. SpecOK(s) /\ s.uid < created' /\ s.uid = created
  BY <1>1, <1>2, NamesAssumption DEF SpecOK
<1> HIDE DEF s
<1>4. clusters'[c] = s /\ \A d \in Name \ {c} : clusters'[d] = clusters[d]
  BY <1>1 DEF IInv, TypeOK
<1>5. TypeOK'
  <2>1. clusters' = [d \in Name |-> clusters'[d]]  BY <1>1 DEF IInv, TypeOK
  <2>2. ASSUME NEW d \in Name, clusters'[d] # None
        PROVE  SpecOK(clusters'[d]) /\ clusters'[d].uid < created'
    BY <1>1, <1>2, <1>3, <1>4, <2>2 DEF IInv, TypeOK, SpecOK
  <2>3. ASSUME NEW d \in Name, run[d] # None PROVE run[d].spec.uid < created'
    BY <1>1, <1>2, <2>3 DEF IInv, TypeOK, SpecOK
  <2> QED  BY <1>1, <1>2, <2>1, <2>2, <2>3 DEF IInv, TypeOK
<1>6. Unique'  BY <1>1 DEF IInv, Unique, SameObject
<1>7. Present'
  <2> SUFFICES ASSUME NEW d \in Name, Unrivalled(d)', run[d] # None, clusters'[d] # None,
                      clusters'[d].uid = run[d].spec.uid
               PROVE  run[d].applied \subseteq objects
    BY <1>1 DEF Present
  <2>1. d # c
    BY <1>2, <1>3, <1>4 DEF IInv, TypeOK, SpecOK
  <2>2. Unrivalled(d)  BY <1>1, NoneBefore
  <2> QED  BY <1>4, <2>1, <2>2 DEF IInv, Present
<1>8. c \notin settled  BY <1>1 DEF IInv, Settled
<1>9. Settled'  BY <1>1, <1>4, <1>8 DEF IInv, Settled
<1>10. OwnObjects'
  <2>1. \A d \in settled : Unrivalled(d)' => Unrivalled(d)  BY <1>1, NoneBefore
  <2> QED  BY <1>1, <1>4, <1>8, <2>1 DEF IInv, Settled, OwnObjects
<1>11. Named'  BY <1>1, <1>4 DEF IInv, Named
<1> QED  BY <1>5, <1>6, <1>7, <1>9, <1>10, <1>11 DEF IInv

\* An edited cluster is not settled; its uid stays.
LEMMA EditIInv ==
    ASSUME IInv, NEW c \in Name, NEW w \in Wanted, Edit(c, w) PROVE IInv'
<1> DEFINE s == [groups |-> w.groups, stopped |-> w.stopped, uid |-> clusters[c].uid]
<1>1. /\ clusters[c] # None /\ clusters' = [clusters EXCEPT ![c] = s]
      /\ settled' = settled \ {c} /\ named' = named
      /\ run' = run /\ objects' = objects /\ created' = created
  BY DEF Edit
<1>2. SpecOK(clusters[c]) /\ clusters[c].uid < created  BY <1>1 DEF IInv, TypeOK
<1>3. SpecOK(s) /\ s.uid = clusters[c].uid
  BY <1>2, NamesAssumption DEF SpecOK
<1> HIDE DEF s
<1>4. clusters'[c] = s /\ \A d \in Name \ {c} : clusters'[d] = clusters[d]
  BY <1>1 DEF IInv, TypeOK
<1>5. TypeOK'
  <2>1. clusters' = [d \in Name |-> clusters'[d]]  BY <1>1 DEF IInv, TypeOK
  <2>2. ASSUME NEW d \in Name, clusters'[d] # None
        PROVE  SpecOK(clusters'[d]) /\ clusters'[d].uid < created'
    BY <1>1, <1>2, <1>3, <1>4, <2>2 DEF IInv, TypeOK
  <2> QED  BY <1>1, <2>1, <2>2 DEF IInv, TypeOK
<1>6. Unique'  BY <1>1 DEF IInv, Unique, SameObject
<1>7. Present'
  <2> SUFFICES ASSUME NEW d \in Name, Unrivalled(d), run[d] # None, clusters'[d] # None,
                      clusters'[d].uid = run[d].spec.uid
               PROVE  run[d].applied \subseteq objects
    BY <1>1 DEF Present, Unrivalled
  <2>1. clusters[d] # None /\ clusters[d].uid = run[d].spec.uid
    BY <1>1, <1>3, <1>4
  <2> QED  BY <2>1 DEF IInv, Present
<1>8. Settled'  BY <1>1, <1>4 DEF IInv, Settled
<1>9. OwnObjects'  BY <1>1, <1>4, <1>8 DEF IInv, Settled, OwnObjects, Unrivalled
<1>10. Named'  BY <1>1, <1>4 DEF IInv, Named
<1> QED  BY <1>5, <1>6, <1>7, <1>8, <1>9, <1>10 DEF IInv

\* Nor is a deleted one.
LEMMA DeleteIInv == ASSUME IInv, NEW c \in Name, Delete(c) PROVE IInv'
<1>1. /\ clusters' = [clusters EXCEPT ![c] = None]
      /\ settled' = settled \ {c} /\ named' = named
      /\ run' = run /\ objects' = objects /\ created' = created
  BY DEF Delete
<1>2. clusters'[c] = None /\ \A d \in Name \ {c} : clusters'[d] = clusters[d]
  BY <1>1 DEF IInv, TypeOK
<1>3. TypeOK'
  <2>1. clusters' = [d \in Name |-> clusters'[d]]  BY <1>1 DEF IInv, TypeOK
  <2> QED  BY <1>1, <1>2, <2>1 DEF IInv, TypeOK
<1>4. Unique'  BY <1>1 DEF IInv, Unique, SameObject
<1>5. Present'  BY <1>1, <1>2 DEF IInv, Present, Unrivalled
<1>6. Settled'  BY <1>1, <1>2 DEF IInv, Settled
<1>7. OwnObjects'  BY <1>1, <1>2, <1>6 DEF IInv, Settled, OwnObjects, Unrivalled
<1>8. Named'  BY <1>1, <1>2 DEF IInv, Named
<1> QED  BY <1>3, <1>4, <1>5, <1>6, <1>7, <1>8 DEF IInv

\* The objects of living clusters are not collected.
LEMMA CollectIInv == ASSUME IInv, CollectGarbage PROVE IInv'
<1>1. PICK o \in objects :
        /\ \A c \in Name : clusters[c] # None => clusters[c].uid # o.owner
        /\ objects' = {p \in objects : p.owner # o.owner}
  BY DEF CollectGarbage
<1>2. /\ clusters' = clusters /\ run' = run /\ settled' = settled /\ created' = created
      /\ named' = named
  BY DEF CollectGarbage
<1>3. TypeOK'  BY <1>1, <1>2 DEF IInv, TypeOK
<1>4. Unique'  BY <1>1 DEF IInv, Unique, SameObject
<1>5. Present'
  <2> SUFFICES ASSUME NEW c \in Name, Unrivalled(c), run[c] # None, clusters[c] # None,
                      clusters[c].uid = run[c].spec.uid, NEW p \in run[c].applied
               PROVE  p \in objects'
    BY <1>2 DEF Present, Unrivalled
  <2>1. p \in objects  BY DEF IInv, Present
  <2>2. p.owner = run[c].spec.uid  BY ObjectsShaped DEF IInv, TypeOK
  <2> QED  BY <1>1, <2>1, <2>2
<1>6. Settled'  BY <1>2 DEF IInv, Settled
<1>7. OwnObjects'
  <2> SUFFICES ASSUME NEW c \in settled, Unrivalled(c)
               PROVE  Objects(c, clusters[c]) = {p \in objects' : p.instance = c}
    BY <1>2 DEF OwnObjects, Unrivalled
  <2>1. c \in Name /\ clusters[c] # None /\ SpecOK(clusters[c])
    BY DEF IInv, Settled, TypeOK
  <2>2. Objects(c, clusters[c]) = {p \in objects : p.instance = c}
    BY DEF IInv, OwnObjects
  <2>3. \A p \in Objects(c, clusters[c]) : p.owner # o.owner
    BY <1>1, <2>1, ObjectsShaped
  <2> QED  BY <1>1, <2>2, <2>3
<1>8. Named'  BY <1>1, <1>2 DEF IInv, Named
<1> QED  BY <1>3, <1>4, <1>5, <1>6, <1>7, <1>8 DEF IInv

\* A run begins with the present spec.
LEMMA BeginIInv == ASSUME IInv, NEW c \in Name, Begin(c) PROVE IInv'
<1> DEFINE r == [spec |-> clusters[c], applied |-> {}]
<1>1. /\ clusters[c] # None /\ run' = [run EXCEPT ![c] = r]
      /\ clusters' = clusters /\ settled' = settled /\ objects' = objects /\ created' = created
      /\ named' = named
  BY DEF Begin
<1>2. r.spec = clusters[c] /\ r.applied = {} /\ r = [spec |-> r.spec, applied |-> r.applied]
  OBVIOUS
<1> HIDE DEF r
<1>3. run'[c] = r /\ \A d \in Name \ {c} : run'[d] = run[d]
  BY <1>1 DEF IInv, TypeOK
<1>4. TypeOK'
  <2>1. run' = [d \in Name |-> run'[d]]  BY <1>1 DEF IInv, TypeOK
  <2>2. SpecOK(clusters[c]) /\ clusters[c].uid < created  BY <1>1 DEF IInv, TypeOK
  <2> QED  BY <1>1, <1>2, <1>3, <2>1, <2>2 DEF IInv, TypeOK
<1>5. Unique'  BY <1>1 DEF IInv, Unique, SameObject
<1>6. Present'  BY <1>1, <1>2, <1>3 DEF IInv, Present, Unrivalled
<1>7. Settled'  BY <1>1, <1>2, <1>3 DEF IInv, Settled
<1>8. OwnObjects'  BY <1>1 DEF IInv, OwnObjects, Unrivalled
<1>9. Named'  BY <1>1, <1>3 DEF IInv, Named
<1> QED  BY <1>4, <1>5, <1>6, <1>7, <1>8, <1>9 DEF IInv

\* A run that fails or is refused an object leaves what it has applied.
LEMMA FailIInv == ASSUME IInv, NEW c \in Name, Fail(c) \/ Refuse(c) PROVE IInv'
<1>1. /\ run' = [run EXCEPT ![c] = None]
      /\ clusters' = clusters /\ settled' = settled /\ objects' = objects /\ created' = created
      /\ named' = named
  BY DEF Fail, Refuse
<1>2. run'[c] = None /\ \A d \in Name \ {c} : run'[d] = run[d]
  BY <1>1 DEF IInv, TypeOK
<1>3. TypeOK'
  <2>1. run' = [d \in Name |-> run'[d]]  BY <1>1 DEF IInv, TypeOK
  <2> QED  BY <1>1, <1>2, <2>1 DEF IInv, TypeOK
<1>4. Unique'  BY <1>1 DEF IInv, Unique, SameObject
<1>5. Present'  BY <1>1, <1>2 DEF IInv, Present, Unrivalled
<1>6. Settled'  BY <1>1, <1>2 DEF IInv, Settled
<1>7. OwnObjects'  BY <1>1 DEF IInv, OwnObjects, Unrivalled
<1>8. Named'  BY <1>1, <1>2 DEF IInv, Named
<1> QED  BY <1>3, <1>4, <1>5, <1>6, <1>7, <1>8 DEF IInv

(***************************************************************************)
(* An object is applied over one of the same cluster or of a rival at      *)
(* most: over none of another one, because of their names, over none of    *)
(* the same run, and in a settled cluster over its like.                   *)
(***************************************************************************)
LEMMA ApplyIInv == ASSUME IInv, NEW c \in Name, Apply(c) PROVE IInv'
<1> DEFINE s == run[c].spec
           a == run[c].applied
<1>1. PICK o \in Objects(c, s) \ a :
        /\ objects' = {p \in objects : ~SameObject(p, o)} \cup {o}
        /\ run' = [run EXCEPT ![c].applied = a \cup {o}]
  BY DEF Apply
<1>2. /\ run[c] # None /\ clusters' = clusters /\ settled' = settled /\ created' = created
      /\ named' = named
  BY DEF Apply
<1>3. s # None /\ SpecOK(s) /\ s.uid < created /\ a \subseteq Objects(c, s)
      /\ run[c] = [spec |-> s, applied |-> a]
  BY <1>2 DEF IInv, TypeOK
<1>4. Shaped(o) /\ o.instance = c  BY <1>1, <1>3, ObjectsShaped
<1>5. /\ run'[c] = [spec |-> s, applied |-> a \cup {o}]
      /\ \A d \in Name \ {c} : run'[d] = run[d]
  <2>1. run = [d \in Name |-> run[d]]  BY DEF IInv, TypeOK
  <2> HIDE DEF s, a
  <2>2. [run[c] EXCEPT !.applied = a \cup {o}] = [spec |-> s, applied |-> a \cup {o}]
    BY <1>3
  <2> QED  BY <1>1, <2>1, <2>2
<1>6. run'[c].spec = s /\ run'[c].applied = a \cup {o}  BY <1>5
<1> HIDE DEF s, a
<1>7. \A p \in objects : SameObject(p, o) /\ Unrivalled(p.instance) => p.instance = c
  <2>1. c \in named  BY <1>2 DEF IInv, Named
  <2> QED  BY <1>4, <2>1, NameDecidesCluster DEF IInv, TypeOK, SameObject, Unrivalled
<1>8. TypeOK'
  <2>1. run' = [d \in Name |-> run'[d]]  BY <1>1 DEF IInv, TypeOK
  <2>2. run'[c] = [spec |-> run'[c].spec, applied |-> run'[c].applied]  BY <1>5, <1>6
  <2>3. \A p \in objects' : Shaped(p)  BY <1>1, <1>4 DEF IInv, TypeOK
  <2>4. ASSUME NEW d \in Name, run'[d] # None
        PROVE  /\ run'[d] = [spec |-> run'[d].spec, applied |-> run'[d].applied]
               /\ run'[d].spec # None /\ SpecOK(run'[d].spec) /\ run'[d].spec.uid < created
               /\ run'[d].applied \subseteq Objects(d, run'[d].spec)
    <3>1. CASE d = c
      <4>1. run'[c].applied \subseteq Objects(c, run'[c].spec)  BY <1>1, <1>3, <1>6
      <4> QED  BY <1>3, <1>6, <2>2, <3>1, <4>1
    <3>2. CASE d # c  BY <1>5, <2>4, <3>2 DEF IInv, TypeOK
    <3> QED  BY <3>1, <3>2
  <2> QED  BY <1>2, <2>1, <2>3, <2>4 DEF IInv, TypeOK
<1>9. Unique'  BY <1>1 DEF IInv, Unique, SameObject
<1>10. Present'
  <2> SUFFICES ASSUME NEW d \in Name, Unrivalled(d), run'[d] # None, clusters[d] # None,
                      clusters[d].uid = run'[d].spec.uid, NEW p \in run'[d].applied
               PROVE  p \in objects'
    BY <1>2 DEF Present, Unrivalled
  <2>1. CASE d # c
    <3>1. run'[d] = run[d]  BY <1>5, <2>1
    <3>2. p \in objects /\ p.instance = d
      BY <3>1, ObjectsShaped DEF IInv, Present, TypeOK
    <3> QED  BY <1>1, <1>7, <2>1, <3>2
  <2>2. CASE d = c /\ p # o
    <3>1. p \in a /\ clusters[c].uid = s.uid  BY <1>6, <2>2
    <3>2. p \in objects  BY <1>2, <2>2, <3>1 DEF IInv, Present, s, a
    <3>3. ~SameObject(p, o)  BY <1>1, <1>3, <2>2, <3>1, ObjectsUnique
    <3> QED  BY <1>1, <3>2, <3>3
  <2>3. CASE p = o  BY <1>1, <2>3
  <2> QED  BY <2>1, <2>2, <2>3
<1>11. Settled'
  BY <1>2, <1>5, <1>6 DEF IInv, Settled, s
<1>12. OwnObjects'
  <2> SUFFICES ASSUME NEW d \in settled, Unrivalled(d)
               PROVE  Objects(d, clusters[d]) = {p \in objects' : p.instance = d}
    BY <1>2 DEF OwnObjects, Unrivalled
  <2>1. Objects(d, clusters[d]) = {p \in objects : p.instance = d}
    BY DEF IInv, OwnObjects
  <2>2. CASE d # c
    BY <1>1, <1>4, <1>7, <2>1, <2>2
  <2>3. CASE d = c
    <3>1. s = clusters[c]  BY <1>2, <2>3 DEF IInv, Settled, s
    <3>2. o \in objects  BY <1>1, <2>1, <2>3, <3>1
    <3>3. \A p \in objects : SameObject(p, o) => p = o  BY <3>2 DEF IInv, Unique
    <3> QED  BY <1>1, <2>1, <3>2, <3>3
  <2> QED  BY <2>2, <2>3
<1>13. Named'
  <2>1. \A d \in Name : run'[d] # None => run[d] # None  BY <1>2, <1>5
  <2> QED  BY <1>1, <1>2, <1>4, <2>1 DEF IInv, Named
<1> QED  BY <1>8, <1>9, <1>10, <1>11, <1>12, <1>13 DEF IInv

(***************************************************************************)
(* The orphans a run deletes carry the name of its cluster on their        *)
(* labels; of that cluster there remains what the run has applied.         *)
(***************************************************************************)
LEMMA DeleteOrphansIInv == ASSUME IInv, NEW c \in Name, DeleteOrphans(c) PROVE IInv'
<1> DEFINE s == run[c].spec
           a == run[c].applied
<1>1. /\ run[c] # None /\ a = Objects(c, s)
      /\ objects' = objects \ Orphans(c, a)
      /\ run' = [run EXCEPT ![c] = None]
      /\ settled' = IF clusters[c] = s THEN settled \cup {c} ELSE settled
      /\ clusters' = clusters /\ created' = created /\ named' = named
  BY DEF DeleteOrphans
<1>2. s # None /\ SpecOK(s)  BY <1>1 DEF IInv, TypeOK
<1> HIDE DEF s, a
<1>3. run'[c] = None /\ \A d \in Name \ {c} : run'[d] = run[d]
  BY <1>1 DEF IInv, TypeOK
<1>4. \A o \in Orphans(c, a) : o.instance = c  BY DEF Orphans
<1>5. \A o \in a : o \notin Orphans(c, a)  BY DEF Orphans, SameObject
<1>6. TypeOK'
  <2>1. run' = [d \in Name |-> run'[d]]  BY <1>1 DEF IInv, TypeOK
  <2> QED  BY <1>1, <1>3, <2>1 DEF IInv, TypeOK
<1>7. Unique'  BY <1>1 DEF IInv, Unique, SameObject
<1>8. Present'
  <2> SUFFICES ASSUME NEW d \in Name, Unrivalled(d), run'[d] # None, clusters[d] # None,
                      clusters[d].uid = run'[d].spec.uid, NEW o \in run'[d].applied
               PROVE  o \in objects'
    BY <1>1 DEF Present, Unrivalled
  <2>1. d # c /\ run'[d] = run[d]  BY <1>3
  <2>2. o \in objects  BY <2>1 DEF IInv, Present
  <2>3. o.instance = d  BY <2>1, ObjectsShaped DEF IInv, TypeOK
  <2> QED  BY <1>1, <1>4, <2>1, <2>2, <2>3
<1>9. Settled'  BY <1>1, <1>2, <1>3 DEF IInv, Settled
<1>10. ASSUME clusters[c] = s, Unrivalled(c)
       PROVE  Objects(c, s) = {o \in objects' : o.instance = c}
  <2>1. a \subseteq objects
    BY <1>1, <1>2, <1>10 DEF IInv, Present, s, a
  <2>2. \A o \in a : o.instance = c  BY <1>1, <1>2, ObjectsShaped
  <2>3. ASSUME NEW o \in objects', o.instance = c PROVE o \in a
    <3>1. o \in objects /\ o \notin Orphans(c, a)  BY <1>1
    <3>2. PICK p \in a : SameObject(o, p)  BY <2>3, <3>1 DEF Orphans
    <3>3. o = p  BY <2>1, <3>1, <3>2 DEF IInv, Unique
    <3> QED  BY <3>2, <3>3
  <2> QED  BY <1>1, <1>5, <2>1, <2>2, <2>3
<1>11. OwnObjects'
  <2> SUFFICES ASSUME NEW d \in settled', Unrivalled(d)
               PROVE  Objects(d, clusters[d]) = {o \in objects' : o.instance = d}
    BY <1>1 DEF OwnObjects, Unrivalled
  <2>1. CASE d = c
    <3>1. clusters[c] = s  BY <1>1, <2>1 DEF IInv, Settled, s
    <3> QED  BY <1>10, <2>1, <3>1
  <2>2. CASE d # c
    <3>1. d \in settled  BY <1>1, <2>2
    <3>2. Objects(d, clusters[d]) = {o \in objects : o.instance = d}
      BY <3>1 DEF IInv, OwnObjects
    <3> QED  BY <1>1, <1>4, <2>2, <3>2
  <2> QED  BY <2>1, <2>2
<1>12. Named'  BY <1>1, <1>3 DEF IInv, Named
<1> QED  BY <1>6, <1>7, <1>8, <1>9, <1>11, <1>12 DEF IInv

-----------------------------------------------------------------------------
LEMMA NextIInv == ASSUME IInv, [Next]_vars PROVE IInv'
<1>1. CASE UNCHANGED vars
  BY <1>1 DEF vars, IInv, TypeOK, Named, Unique, Present, Settled, OwnObjects, SameObject,
              Unrivalled
<1>2. CASE Next
  BY <1>2, CreateIInv, EditIInv, DeleteIInv, CollectIInv, BeginIInv, ApplyIInv,
     DeleteOrphansIInv, FailIInv DEF Next, User, Operator
<1> QED  BY <1>1, <1>2

LEMMA Inductive == Spec => []IInv
BY InitIInv, NextIInv, PTL DEF Spec

(***************************************************************************)
(* For any names: the objects of a settled cluster without rivals are what *)
(* its spec asks for, whatever the runs of other clusters do.              *)
(***************************************************************************)
THEOREM OwnObjectsHolds == Spec => []OwnObjects
BY Inductive, PTL DEF IInv

-----------------------------------------------------------------------------
\* The pods of an object are labelled like it and named after it.
LEMMA PodLabels ==
    ASSUME IInv, NEW p \in Pods
    PROVE  \E o \in objects : /\ o.kind = "StatefulSet" /\ p.instance = o.instance
                             /\ p.group = o.group /\ p.service = o.name
                             /\ o.instance \in named /\ o.group \in GroupName
                             /\ o.name = ObjectName(o.instance, o.group)
<1>1. PICK o \in objects : o.kind = "StatefulSet" /\ p \in PodsOf(o)
  BY DEF Pods
<1>2. p.instance = o.instance /\ p.group = o.group /\ p.service = o.name
  BY <1>1 DEF PodsOf
<1>3. Shaped(o) /\ o.instance \in named  BY DEF IInv, TypeOK, Named
<1> QED  BY <1>1, <1>2, <1>3 DEF Shaped

(***************************************************************************)
(* For any names: the Services of a settled cluster without rivals lead to *)
(* all pods of the cluster, or of the role group, and to no others.        *)
(***************************************************************************)
THEOREM PodsReachedHolds == Spec => []PodsReached
<1>1. ASSUME IInv PROVE PodsReached
  <2> SUFFICES ASSUME NEW c \in settled, Unrivalled(c), NEW s \in objects, s.kind = "Service"
               PROVE  /\ s.name = c => {p \in Pods : Selects(s, p)} = {p \in Pods : p.instance = c}
                      /\ \A g \in DOMAIN clusters[c].groups :
                           s.name = ObjectName(c, g) =>
                             {p \in Pods : Selects(s, p)} = {p \in Pods : p.service = ObjectName(c, g)}
    BY DEF PodsReached
  <2>1. c \in Name /\ SpecOK(clusters[c]) /\ Objects(c, clusters[c]) \subseteq objects
    BY <1>1 DEF IInv, Settled, TypeOK, OwnObjects
  <2>2. ASSUME s.name = c
        PROVE  {p \in Pods : Selects(s, p)} = {p \in Pods : p.instance = c}
    <3>1. RoleService(c, clusters[c]) \in objects  BY <2>1 DEF Objects
    <3>2. SameObject(s, RoleService(c, clusters[c]))  BY <2>2 DEF SameObject, RoleService
    <3>3. s = RoleService(c, clusters[c])  BY <1>1, <3>1, <3>2 DEF IInv, Unique
    <3>4. s.instance = c /\ ~s.byGroup  BY <3>3 DEF RoleService
    <3> QED  BY <3>4 DEF Selects
  <2>3. ASSUME NEW g \in DOMAIN clusters[c].groups, s.name = ObjectName(c, g)
        PROVE  {p \in Pods : Selects(s, p)} = {p \in Pods : p.service = ObjectName(c, g)}
    <3> DEFINE q == GroupObject("Service", c, g, clusters[c])
    <3>1. q \in objects  BY <2>1 DEF Objects, Kind
    <3>2. q.kind = "Service" /\ q.name = ObjectName(c, g) /\ q.instance = c /\ q.group = g /\ q.byGroup
      BY DEF GroupObject
    <3>3. s = q  BY <1>1, <2>3, <3>1, <3>2 DEF IInv, Unique, SameObject
    <3>4. g \in GroupName  BY <2>1 DEF SpecOK
    <3>5. \A p \in Pods : Selects(s, p) <=> p.instance = c /\ p.group = g
      BY <3>2, <3>3 DEF Selects
    <3>6. \A p \in Pods : p.service = ObjectName(c, g) <=> p.instance = c /\ p.group = g
      <4> TAKE p \in Pods
      <4>1. PICK o \in objects :
              /\ p.instance = o.instance /\ p.group = o.group /\ p.service = o.name
              /\ o.instance \in named /\ o.group \in GroupName
              /\ o.name = ObjectName(o.instance, o.group)
        BY <1>1, PodLabels
      <4>2. o.name = ObjectName(c, g) => o.instance = c /\ o.group = g
        <5> SUFFICES ASSUME o.name = ObjectName(c, g) PROVE o.instance = c /\ o.group = g
          OBVIOUS
        <5>1. ObjectName(o.instance, o.group) = ObjectName(c, g)  BY <4>1
        <5>2. o.instance \in Name /\ o.group \in GroupName /\ c \in Name /\ g \in GroupName
          BY <1>1, <2>1, <3>4, <4>1 DEF IInv, Named
        <5>3. ~Rivals(o.instance, c)  BY <4>1 DEF Unrivalled, Rivals
        <5> QED  BY <5>1, <5>2, <5>3, GroupNames, GroupNamesApart
      <4> QED  BY <4>1, <4>2
    <3> QED  BY <3>5, <3>6
  <2> QED  BY <2>2, <2>3
<1> QED  BY <1>1, Inductive, PTL

-----------------------------------------------------------------------------
\* A StatefulSet is named after a role group.
LEMMA StatefulSetName ==
    ASSUME NEW c \in Name, NEW s, SpecOK(s), NEW o \in Objects(c, s), o.kind = "StatefulSet"
    PROVE  o.group \in GroupName /\ o.name = ObjectName(c, o.group)
<1>1. o # RoleService(c, s)  BY DEF RoleService
<1>2. PICK k \in Kind, g \in DOMAIN s.groups : o = GroupObject(k, c, g, s)
  BY <1>1 DEF Objects
<1> QED  BY <1>2 DEF GroupObject, SpecOK

(***************************************************************************)
(* For any names: the API server refuses no object of a run of a cluster   *)
(* without rivals, since what has its name is the cluster's already, and a *)
(* StatefulSet has its selector.                                           *)
(***************************************************************************)
THEOREM UnhinderedHolds == Spec => []Unhindered
<1>1. ASSUME IInv PROVE Unhindered
  <2> SUFFICES ASSUME NEW c \in Name, run[c] # None, Unrivalled(c),
                      NEW o \in Objects(c, run[c].spec),
                      NEW p \in objects, SameObject(o, p)
               PROVE  /\ p.instance = o.instance
                      /\ o.kind = "StatefulSet" => p.group = o.group
    BY DEF Unhindered, Accepted, Taken
  <2>1. SpecOK(run[c].spec) /\ Shaped(p)  BY <1>1 DEF IInv, TypeOK
  <2>2. Shaped(o) /\ o.instance = c  BY <2>1, ObjectsShaped
  <2>3. ~Rivals(o.instance, p.instance)
    BY <1>1, <2>2 DEF IInv, Named, Unrivalled
  <2>4. p.instance = c /\ p.name = o.name
    BY <2>1, <2>2, <2>3, NameDecidesCluster DEF SameObject
  <2>5. ASSUME o.kind = "StatefulSet" PROVE p.group = o.group
    <3>1. o.group \in GroupName /\ o.name = ObjectName(c, o.group)
      BY <2>1, <2>5, StatefulSetName
    <3>2. p.name # c  BY <2>4, <3>1, GroupNames, ClusterNameApart, NotItself
    <3>3. p.group \in GroupName /\ p.name = ObjectName(c, p.group)
      BY <2>1, <2>4, <3>2 DEF Shaped
    <3>4. ObjectName(c, o.group) = ObjectName(c, p.group)  BY <2>4, <3>1, <3>3
    <3> QED  BY <3>1, <3>3, <3>4, GroupNames, GroupNamesApart, NotItself
  <2> QED  BY <2>2, <2>4, <2>5
<1> QED  BY <1>1, Inductive, PTL

-----------------------------------------------------------------------------
(***************************************************************************)
(* Each cluster by itself.                                                 *)
(***************************************************************************)
\* The objects with the name of cluster c on their labels.
Own(c) == {o \in objects : o.instance = c}

\* What another cluster's user or run does is not to be seen.
LEMMA AloneElsewhere ==
    ASSUME NEW c \in Name, clusters'[c] = clusters[c], run'[c] = run[c], Own(c)' = Own(c)
    PROVE  UNCHANGED Alone(c)!vars
BY DEF Alone!vars, Own

LEMMA AloneUser ==
    ASSUME IInv, NEW c \in Name, NEW d \in Name, NEW w \in Wanted,
           Create(d, w) \/ Edit(d, w) \/ Delete(d)
    PROVE  UNCHANGED Alone(c)!vars \/ Alone(c)!Next
<1>1. run' = run /\ objects' = objects /\ Own(c)' = Own(c)
  BY DEF Create, Edit, Delete, Own
<1>2. CASE clusters'[c] = clusters[c]
  BY <1>1, <1>2, AloneElsewhere
<1>3. CASE clusters'[c] # clusters[c]
  BY <1>1, <1>3 DEF Alone!Next, Alone!Change, Own
<1> QED  BY <1>2, <1>3

LEMMA AloneCollects ==
    ASSUME NEW c \in Name, CollectGarbage
    PROVE  UNCHANGED Alone(c)!vars \/ Alone(c)!Next
<1>1. PICK o \in objects :
        /\ \A d \in Name : clusters[d] # None => clusters[d].uid # o.owner
        /\ objects' = {p \in objects : p.owner # o.owner}
  BY DEF CollectGarbage
<1>2. clusters' = clusters /\ run' = run  BY DEF CollectGarbage
<1>3. Own(c)' = {p \in Own(c) : p.owner # o.owner}  BY <1>1 DEF Own
<1>4. CASE \E q \in Own(c) : q.owner = o.owner
  <2>1. PICK q \in Own(c) : q.owner = o.owner  BY <1>4
  <2>2. clusters[c] # None => clusters[c].uid # q.owner  BY <1>1, <2>1
  <2>3. Own(c)' = {p \in Own(c) : p.owner # q.owner}  BY <1>3, <2>1
  <2> QED  BY <1>2, <2>1, <2>2, <2>3 DEF Alone!Next, Alone!CollectGarbage, Own
<1>5. CASE \A q \in Own(c) : q.owner # o.owner
  <2>1. Own(c)' = Own(c)  BY <1>3, <1>5
  <2> QED  BY <1>2, <2>1, AloneElsewhere
<1> QED  BY <1>4, <1>5

\* A run applies and deletes objects of its own cluster only, or of a rival.
LEMMA AloneApplies ==
    ASSUME IInv, NEW c \in Name, Unrivalled(c), NEW d \in Name, Apply(d)
    PROVE  UNCHANGED Alone(c)!vars \/ Alone(c)!Next
<1> DEFINE s == run[d].spec
           a == run[d].applied
<1>1. PICK o \in Objects(d, s) \ a :
        /\ objects' = {p \in objects : ~SameObject(p, o)} \cup {o}
        /\ run' = [run EXCEPT ![d].applied = a \cup {o}]
  BY DEF Apply
<1>2. run[d] # None /\ clusters' = clusters  BY DEF Apply
<1>3. SpecOK(s) /\ run[d] = [spec |-> s, applied |-> a]
  BY <1>2 DEF IInv, TypeOK
<1>4. Shaped(o) /\ o.instance = d  BY <1>1, <1>3, ObjectsShaped
<1>5. /\ run'[d] = [spec |-> s, applied |-> a \cup {o}]
      /\ \A e \in Name \ {d} : run'[e] = run[e]
  <2>1. run = [e \in Name |-> run[e]]  BY DEF IInv, TypeOK
  <2> HIDE DEF s, a
  <2>2. [run[d] EXCEPT !.applied = a \cup {o}] = [spec |-> s, applied |-> a \cup {o}]
    BY <1>3
  <2> QED  BY <1>1, <2>1, <2>2
<1>6. \A p \in objects : SameObject(p, o) /\ p.instance = c => p.instance = d
  <2>1. d \in named  BY <1>2 DEF IInv, Named
  <2> QED  BY <1>4, <2>1, NameDecidesCluster DEF IInv, TypeOK, SameObject, Unrivalled
<1>7. CASE c # d
  <2>1. Own(c)' = Own(c)  BY <1>1, <1>4, <1>6, <1>7 DEF Own
  <2> QED  BY <1>2, <1>5, <1>7, <2>1, AloneElsewhere
<1>8. CASE c = d
  <2>1. Own(c)' = {p \in Own(c) : ~Alone(c)!SameObject(p, o)} \cup {o}
    BY <1>1, <1>4, <1>8 DEF Own, Alone!SameObject, SameObject
  <2> QED  BY <1>1, <1>2, <1>5, <1>8, <2>1 DEF Alone!Next, Alone!Apply, Own
<1> QED  BY <1>7, <1>8

LEMMA AloneDeletes ==
    ASSUME IInv, NEW c \in Name, NEW d \in Name, DeleteOrphans(d)
    PROVE  UNCHANGED Alone(c)!vars \/ Alone(c)!Next
<1> DEFINE a == run[d].applied
<1>1. /\ run[d] # None /\ a = Objects(d, run[d].spec)
      /\ objects' = objects \ Orphans(d, a)
      /\ run' = [run EXCEPT ![d] = None] /\ clusters' = clusters
  BY DEF DeleteOrphans
<1>2. run'[d] = None /\ \A e \in Name \ {d} : run'[e] = run[e]
  BY <1>1 DEF IInv, TypeOK
<1>3. CASE c # d
  <2>1. Own(c)' = Own(c)  BY <1>1, <1>3 DEF Own, Orphans
  <2> QED  BY <1>1, <1>2, <1>3, <2>1, AloneElsewhere
<1>4. CASE c = d
  <2>1. Own(c)' = {o \in Own(c) : \E p \in a : Alone(c)!SameObject(o, p)}
    BY <1>1, <1>4 DEF Own, Orphans, Alone!SameObject, SameObject
  <2> QED  BY <1>1, <1>2, <1>4, <2>1 DEF Alone!Next, Alone!DeleteOrphans, Own
<1> QED  BY <1>3, <1>4

LEMMA AloneBeginsAndFails ==
    ASSUME IInv, NEW c \in Name, NEW d \in Name, Begin(d) \/ Refuse(d) \/ Fail(d)
    PROVE  UNCHANGED Alone(c)!vars \/ Alone(c)!Next
<1>1. clusters' = clusters /\ Own(c)' = Own(c)  BY DEF Begin, Refuse, Fail, Own
<1>2. CASE c # d
  <2>1. run'[c] = run[c]  BY <1>2 DEF Begin, Refuse, Fail, IInv, TypeOK
  <2> QED  BY <1>1, <2>1, AloneElsewhere
<1>3. CASE c = d /\ Begin(d)
  <2>1. run[c] = None /\ clusters[c] # None /\ run'[c] = [spec |-> clusters[c], applied |-> {}]
    BY <1>3 DEF Begin, IInv, TypeOK
  <2> QED  BY <1>1, <2>1 DEF Alone!Next, Alone!Begin, Own
<1>4. CASE c = d /\ (Refuse(d) \/ Fail(d))
  <2>1. run[c] # None /\ run'[c] = None
    BY <1>4 DEF Refuse, Fail, IInv, TypeOK
  <2> QED  BY <1>1, <2>1 DEF Alone!Next, Alone!Fail, Own
<1> QED  BY <1>2, <1>3, <1>4

LEMMA AloneStep ==
    ASSUME IInv, [Next]_vars, NEW c \in Name, Unrivalled(c)
    PROVE  UNCHANGED Alone(c)!vars \/ Alone(c)!Next
<1>1. CASE UNCHANGED vars
  <2>1. clusters' = clusters /\ run' = run /\ Own(c)' = Own(c)  BY <1>1 DEF vars, Own
  <2> QED  BY <2>1, AloneElsewhere
<1>2. ASSUME NEW d \in Name, Delete(d) PROVE UNCHANGED Alone(c)!vars \/ Alone(c)!Next
  <2>1. run' = run /\ Own(c)' = Own(c)  BY <1>2 DEF Delete, Own
  <2> QED  BY <2>1, AloneElsewhere DEF Alone!Next, Alone!Change, Own
<1> QED
  BY <1>1, <1>2, AloneUser, AloneCollects, AloneApplies, AloneDeletes, AloneBeginsAndFails
  DEF Next, User, Operator

(***************************************************************************)
(* For any names: clusters that are no rivals do not interfere, so that    *)
(* HelloReconcile may look at one of them as if there were no other.       *)
(***************************************************************************)
THEOREM ImplementsAloneHolds == Spec => ImplementsAlone
<1>1. Init => \A c \in Name : Alone(c)!Init
  BY DEF Init, Alone!Init
<1>2. IInv /\ [Next]_vars =>
        [\A c \in Name : Unrivalled(c) => UNCHANGED Alone(c)!vars \/ Alone(c)!Next]_vars
  BY AloneStep
<1> QED  BY <1>1, <1>2, Inductive, PTL DEF Spec, ImplementsAlone
=============================================================================
