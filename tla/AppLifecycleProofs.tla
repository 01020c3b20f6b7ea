------------------------- MODULE AppLifecycleProofs -------------------------
(***************************************************************************)
(* Proofs about AppLifecycle for any number of callers and applications,   *)
(* any spec files and charts, any number of faults and attempts.           *)
(***************************************************************************)
EXTENDS AppLifecycle, TLAPS

(* Leaves are first-order for the most part; the others are left to SMT.    *)
USE ZenonT(10), SMTT(30)

\* The applications a caller schedules in test T, and all it may run: any that it adds.
KeysOf(T, c) == {T.keys[c][i] : i \in DOMAIN T.keys[c]}
RunsOf(T, c) == KeysOf(T, c) \cup {a \in Apps : c \in T.uninstalls}

\* The namespace of caller c's context of application a in test T, and all there are.
NsOf(T, a, c) == IF T.namespace[c] = NoNS THEN <<a, c>> ELSE T.namespace[c]
Spaces(T) == {NoNS} \cup (Apps \X Callers) \cup {T.namespace[d] : d \in Callers}

\* Object o is not one that callers other than c share with it.
Unshared(c, o) == o.kind = "CustomResource" => RunBy(o.app) \subseteq {c}

----------------------------------------------------------------------------
\* The inductive invariant

Fields == {"pc", "call", "i", "app", "ctx", "ns", "todo", "tries", "specs", "kind", "found", "upgrade"}
IsThread(t) == t = [f \in Fields |-> t[f]]

\* An object in the spec list of caller c's context of application a: it is in the
\* namespace of the context, or one of R, which another caller's write redirected.
ObjectOK(T, R, a, c, o) ==
    /\ o = [f \in {"kind", "app", "ns"} |-> o[f]]
    /\ IF o.kind \in ClusterScoped THEN o.ns = NoNS ELSE o.ns = NsOf(T, a, c) \/ o \in R
    /\ o.ns \in Spaces(T)
    /\ o.kind \in validateSpec \cup {"CustomResource"}
    /\ o.kind = "CustomResource" => o.ns = NsOf(T, a, c) /\ o.kind \in ParseSpecs(T.specs[o.app])
    /\ o.app \in RunsOf(T, c) /\ (o.app \in KeysOf(T, c) => o.app = a)

\* The call t of caller c, which holds contexts for the applications dom.
ThreadOK(T, R, c, dom, t) ==
    /\ IsThread(t) /\ t.i \in Nat /\ t.tries \in 0 .. T.tries - 1
    /\ t.pc \in {"idle", "create", "running", "failed", "destroy"}
    /\ t.pc \in {"create", "destroy"} =>
          t.ctx \in KeysOf(T, c) /\ \A o \in t.specs : ObjectOK(T, R, t.ctx, c, o)
    /\ t.pc \notin {"create", "destroy"} => t.specs = {}
    /\ t.kind # "none" =>
          /\ t.pc = "create" /\ t.kind \in t.todo
          /\ t.kind # "HelmRepo" => t.kind \in Earliest(t.todo, CreatePhases)
    /\ t.pc = "create" =>
          /\ t.app \in Apps /\ t.app \in RunsOf(T, c) /\ t.ns = NsOf(T, t.ctx, c)
          /\ t.todo \subseteq Handled(ParseSpecs(T.specs[t.app]) \cup {"NamespaceOfApp"}, CreatePhases)
          /\ t.call = "schedule" => t.ctx = t.app
          /\ t.call # "schedule" => t.call = "add" /\ t.ctx \in dom /\ t.app \notin KeysOf(T, c)
    /\ t.pc = "destroy" =>
          /\ t.app = t.ctx /\ t.call = "destroy"
          /\ \A o \in t.todo : ObjectOK(T, R, t.ctx, c, o) \/ (o = RuleOf(t.app) /\ c \in T.rules)

ContextsOK(T, R, c, x) ==
    /\ x = [a \in DOMAIN x |-> x[a]] /\ DOMAIN x \subseteq KeysOf(T, c)
    /\ \A a \in DOMAIN x : \A o \in x[a] : ObjectOK(T, R, a, c, o)

\* A namespace that a caller gives to the spec objects of application a.
GivenBy(T, a, s) ==
    \E d \in Callers : \E x \in KeysOf(T, d) :
        s = NsOf(T, x, d) /\ a \in RunsOf(T, d) /\ (a \in KeysOf(T, d) => x = a)

\* The namespaces that the shared spec objects carry.
SharedOK(T, n) ==
    /\ n = [a \in Apps |-> n[a]]
    /\ \A a \in Apps : n[a] = [k \in ParseSpecs(T.specs[a]) |-> n[a][k]]
    /\ \A a \in Apps : \A k \in ParseSpecs(T.specs[a]) : n[a][k] = NoNS \/ GivenBy(T, a, n[a][k])

\* Nothing is created in the namespace n of an instance any more, unless redirected.
Retired(n) ==
    /\ n \in Apps \X Callers /\ n = <<n[1], n[2]>> /\ n[2] \in Callers
    /\ th[n[2]].pc # "idle" /\ th[n[2]].call # "schedule"
    /\ n[1] \notin DOMAIN ctxs[n[2]]

GoneOK ==
    test.wait /\ test.rules = {} =>
        \A o \in left : o.kind \in Workloads /\ InOwnNamespace(o) =>
            o \notin cluster \cup pods /\ Retired(o.ns)

CallersOK ==
    /\ th = [c \in Callers |-> th[c]] /\ ctxs = [c \in Callers |-> ctxs[c]]
    /\ \A c \in Callers : /\ ThreadOK(test, redirected, c, DOMAIN ctxs[c], th[c])
                          /\ ContextsOK(test, redirected, c, ctxs[c])

AppsInv ==
    /\ test \in Tests /\ CallersOK /\ SharedOK(test, specNS)
    /\ \A o \in pods : o.kind \in Workloads
    /\ GoneOK

----------------------------------------------------------------------------
\* Lemmas about the operators

LEMMA KindsApart ==
    /\ \A k \in Workloads : k \notin ClusterScoped
    /\ "RuleOfOptions" \in ClusterScoped
    /\ "NamespaceOfApp" \notin Workloads /\ "NamespaceOfApp" # "CustomResource"
    /\ "NamespaceOfApp" # "RuleOfOptions" /\ "CustomResource" # "RuleOfOptions"
    /\ "RuleOfOptions" \notin validateSpec /\ "CustomResource" \notin validateSpec
    /\ "RuleOfOptions" \notin Workloads /\ "HelmRelease" \notin Workloads
    /\ "HelmRelease" \notin validateSpec /\ "HelmRelease" # "CustomResource"
    /\ "NamespaceOfApp" \notin ClusterScoped /\ "HelmRelease" \notin ClusterScoped
    /\ "CustomResource" \notin ClusterScoped
  BY DEF Workloads, ClusterScoped, validateSpec

LEMMA ParsedKinds ==
    ASSUME NEW K, NEW k \in ParseSpecs(K)
    PROVE  k \in K /\ k \in validateSpec \cup {"CustomResource", "HelmRepo"}
  BY DEF ParseSpecs, ParseSpecsFromYamlBufFails

LEMMA ObjectFacts ==
    ASSUME NEW k, NEW a, NEW ns, NEW o, o = Object(k, a, ns)
    PROVE  /\ o = [f \in {"kind", "app", "ns"} |-> o[f]] /\ o.kind = k /\ o.app = a
           /\ o.ns = IF k \in ClusterScoped THEN NoNS ELSE ns
  BY DEF Object

LEMMA RunsApps ==
    ASSUME NEW T \in Tests, NEW c \in Callers
    PROVE  RunsOf(T, c) \subseteq Apps /\ KeysOf(T, c) \subseteq RunsOf(T, c)
  <1>1. T.keys[c] \in Seq(Apps)  BY AppLifecycleAssumption
  <1> QED  BY <1>1, SMT DEF RunsOf, KeysOf

\* The namespaces of contexts: an instance's own is that of its application and caller.
LEMMA NsFacts ==
    ASSUME NEW T \in Tests, NEW c \in Callers, NEW a
    PROVE  /\ NsOf(T, a, c) # NoNS
           /\ a \in Apps => NsOf(T, a, c) \in Spaces(T)
           /\ NsOf(T, a, c) \in Apps \X Callers => NsOf(T, a, c) = <<a, c>>
  <1>1. T.namespace[c] \notin Apps \X Callers  BY AppLifecycleAssumption
  <1>2. <<a, c>> # NoNS  BY SMT DEF NoNS
  <1>3. NoNS \notin Apps \X Callers  BY SMT DEF NoNS
  <1> QED  BY <1>1, <1>2, <1>3 DEF NsOf, Spaces

LEMMA NsFor ==
    ASSUME NEW a, NEW c
    PROVE  NamespaceFor(a, c) = NsOf(test, a, c)
  BY DEF NamespaceFor, NsOf, OptionsNamespace, GetID

LEMMA PairFacts ==
    ASSUME NEW a, NEW c, NEW n, n = <<a, c>>
    PROVE  n[1] = a /\ n[2] = c /\ n = <<n[1], n[2]>>
  BY SMT

\* What the create functions make is an object of the context, or is redirected.
LEMMA MadeOK ==
    ASSUME NEW T \in Tests, NEW R, NEW c \in Callers, NEW a, NEW x \in Apps,
           NEW k \in validateSpec \cup {"CustomResource"},
           a \in RunsOf(T, c), a \in KeysOf(T, c) => a = x, NEW ns \in Spaces(T),
           NEW o, o = Object(k, a, ns),
           k \in ClusterScoped \/ ns = NsOf(T, x, c) \/ o \in R,
           k = "CustomResource" => ns = NsOf(T, x, c) /\ k \in ParseSpecs(T.specs[a])
    PROVE  ObjectOK(T, R, x, c, o)
  <1>1. /\ o = [f \in {"kind", "app", "ns"} |-> o[f]] /\ o.kind = k /\ o.app = a
        /\ o.ns = IF k \in ClusterScoped THEN NoNS ELSE ns
    BY ObjectFacts
  <1>2. NoNS \in Spaces(T)  BY DEF Spaces
  <1> QED  BY <1>1, <1>2, KindsApart DEF ObjectOK

LEMMA MoreRedirected ==
    ASSUME NEW T, NEW R, NEW S, R \subseteq S
    PROVE  /\ \A a, c, o : ObjectOK(T, R, a, c, o) => ObjectOK(T, S, a, c, o)
           /\ \A c, dom, t : ThreadOK(T, R, c, dom, t) => ThreadOK(T, S, c, dom, t)
           /\ \A c, x : ContextsOK(T, R, c, x) => ContextsOK(T, S, c, x)
  <1>1. \A a, c, o : ObjectOK(T, R, a, c, o) => ObjectOK(T, S, a, c, o)  BY DEF ObjectOK
  <1>2. \A c, dom, t : ThreadOK(T, R, c, dom, t) => ThreadOK(T, S, c, dom, t)  BY <1>1 DEF ThreadOK
  <1>3. \A c, x : ContextsOK(T, R, c, x) => ContextsOK(T, S, c, x)  BY <1>1 DEF ContextsOK
  <1> QED  BY <1>1, <1>2, <1>3

LEMMA RuleOfFacts ==
    ASSUME NEW a
    PROVE  RuleOf(a).kind = "RuleOfOptions" /\ RuleOf(a).ns = NoNS /\ RuleOf(a).app = a
  BY DEF RuleOf, Object, ClusterScoped

LEMMA SomeTry ==
    ASSUME NEW T \in Tests
    PROVE  0 \in 0 .. T.tries - 1 /\ T.tries \in Nat /\ T.faults \in Nat
  <1>1. T.tries \in Nat \ {0} /\ T.faults \in Nat  BY AppLifecycleAssumption
  <1> QED  BY <1>1, SMT

LEMMA EmptyContexts ==
    ASSUME NEW T, NEW R, NEW c
    PROVE  ContextsOK(T, R, c, <<>>) /\ DOMAIN <<>> = {}
  BY SMT DEF ContextsOK

\* A call that has returned leaves nothing to keep.
Over(t, p) ==
    /\ IsThread(t) /\ t.i = 0 /\ t.pc = p /\ t.call = "none" /\ t.tries = 0 /\ t.specs = {}
    /\ t.kind = "none"

LEMMA IdleFacts ==
    ASSUME NEW p, NEW a
    PROVE  /\ Over([Idle EXCEPT !.pc = p], p)
           /\ Over([Idle EXCEPT !.pc = p, !.app = a], p) /\ [Idle EXCEPT !.pc = p, !.app = a].app = a
  <1>1. Over([Idle EXCEPT !.pc = p], p)  BY DEF Over, Idle, IsThread, Fields
  <1>2. Over([Idle EXCEPT !.pc = p, !.app = a], p) /\ [Idle EXCEPT !.pc = p, !.app = a].app = a
    BY DEF Over, Idle, IsThread, Fields
  <1> QED  BY <1>1, <1>2

LEMMA ReturnedOK ==
    ASSUME NEW T \in Tests, NEW R, NEW c, NEW dom, NEW p \in {"running", "failed"}, NEW t, Over(t, p)
    PROVE  ThreadOK(T, R, c, dom, t)
  <1>1. t.i \in Nat  BY SMT DEF Over
  <1> QED  BY <1>1, SomeTry DEF ThreadOK, Over

----------------------------------------------------------------------------
\* Lemmas about the tables of create and destroy functions

LEMMA CreateLengths ==
    /\ CreateSpecObjects = [p \in 1 .. 8 |-> CreateSpecObjects[p]]
    /\ CreateSpecObjectsRest = [p \in 1 .. 8 |-> CreateSpecObjectsRest[p]]
  BY SMT DEF CreateSpecObjects, CreateSpecObjectsRest

\* Where the elements of a concatenation are.
LEMMA ConcatFacts ==
    ASSUME NEW S, NEW s \in Seq(S), NEW t \in Seq(S)
    PROVE  /\ DOMAIN (s \o t) = 1 .. (Len(s) + Len(t))
           /\ \A i \in 1 .. Len(s) : (s \o t)[i] = s[i]
           /\ \A i \in (Len(s) + 1) .. (Len(s) + Len(t)) : (s \o t)[i] = t[i - Len(s)]
  <1>1. s \o t \in Seq(S) /\ Len(s \o t) = Len(s) + Len(t)  BY SMT
  <1>2. \A i \in 1 .. Len(s) : (s \o t)[i] = s[i]  BY SMT
  <1>3. \A i \in (Len(s) + 1) .. (Len(s) + Len(t)) : (s \o t)[i] = t[i - Len(s)]  BY SMT
  <1> QED  BY <1>1, <1>2, <1>3, SMT

\* The position of each create function.
LEMMA CreateAt ==
    /\ DOMAIN Create = 1 .. 16
    /\ \A p \in 1 .. 8 : Create[p] = CreateSpecObjects[p]
    /\ \A p \in 9 .. 16 : Create[p] = CreateSpecObjectsRest[p - 8]
  <1> DEFINE S == {CreateSpecObjects[p] : p \in 1 .. 8} \cup {CreateSpecObjectsRest[p] : p \in 1 .. 8}
  <1>1. CreateSpecObjects \in Seq(S) /\ Len(CreateSpecObjects) = 8  BY CreateLengths, SMT
  <1>2. CreateSpecObjectsRest \in Seq(S) /\ Len(CreateSpecObjectsRest) = 8  BY CreateLengths, SMT
  <1> HIDE DEF S
  <1>3. PICK s, t : s = CreateSpecObjects /\ t = CreateSpecObjectsRest  OBVIOUS
  <1>4. Create = s \o t  BY <1>3 DEF Create
  <1>5. s \in Seq(S) /\ t \in Seq(S) /\ Len(s) = 8 /\ Len(t) = 8  BY <1>1, <1>2, <1>3
  <1>6. PICK w, m, n : w = s \o t /\ m = Len(s) /\ n = Len(t)  OBVIOUS
  <1>7. /\ DOMAIN w = 1 .. (m + n)
        /\ \A i \in 1 .. m : w[i] = s[i]
        /\ \A i \in (m + 1) .. (m + n) : w[i] = t[i - m]
    <2>1. /\ DOMAIN (s \o t) = 1 .. (Len(s) + Len(t))
          /\ \A i \in 1 .. Len(s) : (s \o t)[i] = s[i]
          /\ \A i \in (Len(s) + 1) .. (Len(s) + Len(t)) : (s \o t)[i] = t[i - Len(s)]
      BY <1>5, ConcatFacts
    <2> QED  BY <1>6, <2>1
  <1>8. m = 8 /\ n = 8  BY <1>5, <1>6
  <1>9. /\ DOMAIN w = 1 .. 16 /\ \A p \in 1 .. 8 : w[p] = s[p]
        /\ \A p \in 9 .. 16 : w[p] = t[p - 8]
    BY <1>7, <1>8, SMT
  <1> QED  BY <1>3, <1>4, <1>6, <1>9

\* The kinds each create function knows.
LEMMA CreateDomains ==
    /\ DOMAIN CreatePhases = 1 .. 17 /\ CreatePhases[17] = {"HelmRepo"}
    /\ \A p \in 1 .. 16 : CreatePhases[p] = DOMAIN Create[p]
  <1> DEFINE F == [p \in DOMAIN Create |-> DOMAIN Create[p]]
             S == {DOMAIN Create[p] : p \in 1 .. 16} \cup {{"HelmRepo"}}
  <1>1. F \in Seq(S) /\ Len(F) = 16 /\ \A p \in 1 .. 16 : F[p] = DOMAIN Create[p]  BY CreateAt, SMT
  <1>2. CreatePhases = F \o <<{"HelmRepo"}>>  BY DEF CreatePhases
  <1>3. <<{"HelmRepo"}>> \in Seq(S)  BY SMT
  <1>4. PICK f, g : f = F /\ g = <<{"HelmRepo"}>>  OBVIOUS
  <1>5. Len(g) = 1 /\ g[1] = {"HelmRepo"}  BY <1>4, SMT
  <1> HIDE DEF F, S
  <1>6. PICK w, m, n : w = f \o g /\ m = Len(f) /\ n = Len(g)  OBVIOUS
  <1>7. /\ DOMAIN w = 1 .. (m + n)
        /\ \A i \in 1 .. m : w[i] = f[i]
        /\ \A i \in (m + 1) .. (m + n) : w[i] = g[i - m]
    <2>1. f \in Seq(S) /\ g \in Seq(S)  BY <1>1, <1>3, <1>4
    <2>2. /\ DOMAIN (f \o g) = 1 .. (Len(f) + Len(g))
          /\ \A i \in 1 .. Len(f) : (f \o g)[i] = f[i]
          /\ \A i \in (Len(f) + 1) .. (Len(f) + Len(g)) : (f \o g)[i] = g[i - Len(f)]
      BY <2>1, ConcatFacts
    <2> QED  BY <1>6, <2>2
  <1>8. m = 16 /\ n = 1  BY <1>1, <1>4, <1>5, <1>6
  <1>9. DOMAIN w = 1 .. 17 /\ w[17] = g[1] /\ \A p \in 1 .. 16 : w[p] = f[p]
    BY <1>7, <1>8, SMT
  <1> QED  BY <1>1, <1>2, <1>4, <1>5, <1>6, <1>9

\* The two ways to meet an object that is there.
LEMMA ModeTables ==
    ASSUME NEW K, NEW k
    PROVE  /\ DOMAIN Reuse(K) = K /\ DOMAIN Strict(K) = K
           /\ k \in K => Reuse(K)[k] = "reuse" /\ Strict(K)[k] = "strict"
  BY DEF Reuse, Strict

LEMMA DestroyOrder ==
    /\ DOMAIN DestroyPhases = 1 .. 12
    /\ DestroyPhases[1] = {"CustomResource"} /\ DestroyPhases[2] = {"RuleOfOptions"}
    /\ DestroyPhases[12] = destroyCRDObjects
    /\ Phase("CustomResource", DestroyPhases) = 1
    /\ Phase("CustomResourceDefinition", DestroyPhases) \in 2 .. 12
  <1>1. DOMAIN DestroyPhases = 1 .. 12  BY SMT DEF DestroyPhases
  <1>2. /\ DestroyPhases[1] = destroyCustomResourceObjects /\ DestroyPhases[2] = {"RuleOfOptions"}
        /\ DestroyPhases[12] = destroyCRDObjects
        /\ \A p \in 2 .. 12 :
              DestroyPhases[p] \in {{"RuleOfOptions"}, destroyAdmissionRegistrationObjects,
                destroyRbacObjects, destroyCoreObject, destroyVolumeSnapshotRestoreObject,
                destroyMigrationObject, destroyBackupObjects, destroyServiceMonitorObjects,
                destroyPodDisruptionBudgetObjects, destroyVirtualMachineObjects, destroyCRDObjects}
    BY SMT DEF DestroyPhases
  <1>3. \A p \in 2 .. 12 : "CustomResource" \notin DestroyPhases[p]
    BY <1>2, SMT DEF destroyAdmissionRegistrationObjects,
                destroyRbacObjects, destroyCoreObject, destroyVolumeSnapshotRestoreObject,
                destroyMigrationObject, destroyBackupObjects, destroyServiceMonitorObjects,
                destroyPodDisruptionBudgetObjects, destroyVirtualMachineObjects, destroyCRDObjects
  <1>4. "CustomResourceDefinition" \in DestroyPhases[12]  BY <1>2 DEF destroyCRDObjects
  <1>5. DestroyPhases[1] = {"CustomResource"}  BY <1>2 DEF destroyCustomResourceObjects
  <1>6. PICK q : q = Phase("CustomResource", DestroyPhases)  OBVIOUS
  <1>7. q \in 1 .. 12 /\ "CustomResource" \in DestroyPhases[q]
    <2>1. 1 \in DOMAIN DestroyPhases  BY <1>1, SMT
    <2> QED  BY <1>1, <1>5, <1>6, <2>1 DEF Phase
  <1>8. PICK p : p = Phase("CustomResourceDefinition", DestroyPhases)  OBVIOUS
  <1>9. p \in 1 .. 12 /\ "CustomResourceDefinition" \in DestroyPhases[p]
    <2>1. 12 \in DOMAIN DestroyPhases  BY <1>1, SMT
    <2> QED  BY <1>1, <1>4, <1>8, <2>1 DEF Phase
  <1>10. q = 1  BY <1>3, <1>7, SMT
  <1>11. p # 1  BY <1>5, <1>9, SMT
  <1> QED  BY <1>1, <1>2, <1>5, <1>6, <1>8, <1>9, <1>10, <1>11, SMT

\* All objects are of these kinds.
LEMMA KindsKnown ==
    /\ validateSpec \subseteq Kinds
    /\ {"RuleOfOptions", "HelmRelease", "NamespaceOfApp", "CustomResource"} \subseteq Kinds
    /\ \A a \in Apps : Manifest[a] \subseteq Kinds
  <1>1. "NamespaceOfApp" \in CreatePhases[1]
    <2>1. Create[1] = createNamespace  BY CreateAt, SMT DEF CreateSpecObjects
    <2>2. CreatePhases[1] = DOMAIN Create[1]  BY CreateDomains, SMT
    <2> QED  BY <2>1, <2>2, ModeTables, SMT DEF createNamespace
  <1>2. 1 \in DOMAIN CreatePhases /\ 1 \in DOMAIN DestroyPhases /\ 2 \in DOMAIN DestroyPhases
    BY CreateDomains, DestroyOrder, SMT
  <1>3. "CustomResource" \in DestroyPhases[1] /\ "RuleOfOptions" \in DestroyPhases[2]  BY DestroyOrder
  <1> DEFINE A == UNION {CreatePhases[p] : p \in DOMAIN CreatePhases}
             B == UNION {DestroyPhases[p] : p \in DOMAIN DestroyPhases}
             M == UNION {Manifest[a] : a \in Apps}
  <1>4. "NamespaceOfApp" \in A /\ "CustomResource" \in B /\ "RuleOfOptions" \in B
    BY <1>1, <1>2, <1>3
  <1>5. \A a \in Apps : Manifest[a] \subseteq M  OBVIOUS
  <1>6. Kinds = A \cup B \cup RemovableKinds \cup validateSpec \cup {"HelmRelease"} \cup M  BY DEF Kinds
  <1> HIDE DEF A, B, M
  <1> QED  BY <1>4, <1>5, <1>6

----------------------------------------------------------------------------
\* What a step of caller c does

MovesOnly(c) ==
    /\ test' = test /\ redirected \subseteq redirected'
    /\ th' = [th EXCEPT ![c] = th'[c]] /\ ctxs' = [ctxs EXCEPT ![c] = ctxs'[c]]
    /\ ThreadOK(test, redirected', c, DOMAIN ctxs'[c], th'[c])
    /\ ContextsOK(test, redirected', c, ctxs'[c])
    /\ th[c].pc # "idle" /\ th[c].call # "schedule" =>
          /\ th'[c].pc # "idle" /\ th'[c].call # "schedule"
          /\ DOMAIN ctxs'[c] \subseteq DOMAIN ctxs[c]

\* What is created is of the application that is being made, and in the namespace of its
\* context, unless it is one of R, which are redirected.
Made(c, R, o) ==
    /\ th[c].pc = "create"
    /\ \E k \in Kinds : \E ns \in Spaces(test) :
          /\ o = Object(k, th[c].app, ns)
          /\ k \in ClusterScoped \/ ns = th[c].ns \/ o \in R
          /\ k = "CustomResource" => k \in Manifest[th[c].app] \/ (k \in th[c].todo /\ ns = th[c].ns)
CreatesFor(c) == \A o \in cluster' \ cluster : Made(c, redirected', o)

DeletesOwn(c) ==
    /\ \A o \in cluster \ cluster' : o.app \in RunsOf(test, c)
    /\ th' = th \/ \A o \in cluster \ cluster' :
                      o.ns \in Apps \X Callers /\ o \notin redirected /\ Unshared(c, o) => o.ns[2] = c

Leaves(c) ==
    \/ left' = left
    \/ /\ left' = left \cup th[c].specs /\ cluster' = cluster /\ redirected' = redirected
       /\ th[c].pc = "destroy" /\ th'[c].pc = "running" /\ th'[c].call = "none"
       /\ th[c].ctx \notin DOMAIN ctxs'[c]
       /\ test.wait /\ test.rules = {} => WaitForDestroy(c)
       /\ test.rules = {} => th[c].todo = {}

\* A caller writes the namespace of its call into the shared specs of its application.
Writes(c) ==
    \/ specNS' = specNS
    \/ th[c].pc = "create" /\ \E k : SetSpecNS(th[c].app, k, th[c].ns)

StepOf(c) ==
    /\ MovesOnly(c) /\ CreatesFor(c) /\ DeletesOwn(c) /\ Leaves(c) /\ Writes(c)
    /\ pods' = pods /\ unclean \subseteq unclean'

\* A step that leaves the objects of the cluster and the histories as they are.
LEMMA QuietStep ==
    ASSUME NEW c, MovesOnly(c), Writes(c), cluster' = cluster, pods' = pods, left' = left, unclean' = unclean
    PROVE  StepOf(c)
  BY DEF StepOf, CreatesFor, DeletesOwn, Leaves

LEMMA StartAppOK ==
    ASSUME test \in Tests, NEW R, NEW c \in Callers, NEW call, NEW i \in Nat, NEW a \in Apps,
           a \in RunsOf(test, c), NEW ctx \in KeysOf(test, c), NEW specs,
           \A o \in specs : ObjectOK(test, R, ctx, c, o), NEW upgrade,
           NEW dom, call = "schedule" => ctx = a,
           call # "schedule" => call = "add" /\ ctx \in dom /\ a \notin KeysOf(test, c),
           th = [d \in Callers |-> th[d]], StartApp(c, call, i, a, ctx, specs, upgrade)
    PROVE  /\ th' = [th EXCEPT ![c] = th'[c]]
           /\ th'[c].pc = "create" /\ th'[c].call = call
           /\ ThreadOK(test, R, c, dom, th'[c])
  <1> DEFINE u == [pc |-> "create", call |-> call, i |-> i, app |-> a, ctx |-> ctx, tries |-> 0,
                   ns |-> NamespaceFor(ctx, c), specs |-> specs, kind |-> "none", found |-> FALSE,
                   upgrade |-> upgrade,
                   todo |-> Handled(SpecFactory[a] \cup {"NamespaceOfApp"}, CreatePhases)]
  <1>1. th' = [th EXCEPT ![c] = u]  BY DEF StartApp
  <1>2. /\ IsThread(u) /\ u.pc = "create" /\ u.call = call /\ u.i = i /\ u.app = a /\ u.ctx = ctx
        /\ u.ns = NamespaceFor(ctx, c) /\ u.specs = specs /\ u.tries = 0 /\ u.kind = "none"
    BY DEF IsThread, Fields
  <1>3. u.todo = Handled(ParseSpecs(test.specs[a]) \cup {"NamespaceOfApp"}, CreatePhases)
    BY DEF SpecFactory, SpecDir
  <1> HIDE DEF u
  <1>4. th'[c] = u /\ th' = [th EXCEPT ![c] = th'[c]]  BY <1>1
  <1>5. u.ns = NsOf(test, ctx, c)  BY <1>2, NsFor
  <1>6. ThreadOK(test, R, c, dom, u)  BY <1>2, <1>3, <1>5, SomeTry DEF ThreadOK
  <1> QED  BY <1>2, <1>4, <1>6

\* What the invariant says of caller c.
LEMMA CallerFacts ==
    ASSUME AppsInv, NEW c \in Callers
    PROVE  /\ test \in Tests /\ SharedOK(test, specNS)
           /\ ThreadOK(test, redirected, c, DOMAIN ctxs[c], th[c]) /\ ContextsOK(test, redirected, c, ctxs[c])
           /\ th = [d \in Callers |-> th[d]] /\ ctxs = [d \in Callers |-> ctxs[d]]
           /\ ctxs = [ctxs EXCEPT ![c] = ctxs[c]] /\ th = [th EXCEPT ![c] = th[c]]
  BY DEF AppsInv, CallersOK

\* The keys of caller c are applications it runs.
LEMMA KeysRun ==
    ASSUME test \in Tests, NEW c \in Callers, NEW i \in Nat, 1 <= i, i <= Len(AppKeys[c])
    PROVE  AppKeys[c][i] \in Apps /\ AppKeys[c][i] \in KeysOf(test, c) /\ AppKeys[c][i] \in RunsOf(test, c)
  <1>1. test.keys[c] \in Seq(Apps)  BY AppLifecycleAssumption
  <1> QED  BY <1>1, SMT DEF AppKeys, KeysOf, RunsOf

LEMMA ScheduleStep ==
    ASSUME AppsInv, NEW c \in Callers, Schedule(c), test' = test
    PROVE  StepOf(c)
  <1>1. /\ th[c].pc = "idle" /\ AppKeys[c] # <<>>
        /\ StartApp(c, "schedule", 1, AppKeys[c][1], AppKeys[c][1], {}, FALSE)
        /\ cluster' = cluster /\ pods' = pods /\ specNS' = specNS /\ ctxs' = ctxs /\ left' = left
        /\ redirected' = redirected /\ unclean' = unclean
    BY DEF Schedule, clusterVars, history
  <1>2. 1 <= Len(AppKeys[c])
    <2>1. AppKeys[c] \in Seq(Apps)  BY CallerFacts, AppLifecycleAssumption, SMT DEF AppKeys
    <2> QED  BY <1>1, <2>1, SMT
  <1>3. AppKeys[c][1] \in Apps /\ AppKeys[c][1] \in KeysOf(test, c) /\ AppKeys[c][1] \in RunsOf(test, c)
    BY <1>2, CallerFacts, KeysRun, SMT
  <1>4. /\ th' = [th EXCEPT ![c] = th'[c]]
        /\ th'[c].pc = "create" /\ th'[c].call = "schedule"
        /\ ThreadOK(test, redirected, c, DOMAIN ctxs[c], th'[c])
    <2>1. PICK a, n, f : a = AppKeys[c][1] /\ n = 1 /\ f = FALSE  OBVIOUS
    <2>2. StartApp(c, "schedule", n, a, a, {}, f) /\ n \in Nat  BY <1>1, <2>1
    <2>3. a \in Apps /\ a \in KeysOf(test, c) /\ a \in RunsOf(test, c)  BY <1>3, <2>1
    <2> QED  BY <2>2, <2>3, CallerFacts, StartAppOK
  <1>5. MovesOnly(c)  BY <1>1, <1>4, CallerFacts DEF MovesOnly
  <1> QED  BY <1>1, <1>5, QuietStep DEF Writes

LEMMA AddTasksStep ==
    ASSUME AppsInv, NEW c \in Callers, NEW a \in Apps, NEW b \in Apps, NEW upgrade,
           AddTasks(c, a, b, upgrade), test' = test
    PROVE  StepOf(c)
  <1>1. /\ th[c].pc = "running" /\ c \in test.uninstalls /\ a \in DOMAIN ctxs[c]
        /\ StartApp(c, "add", 0, b, a, ctxs[c][a], upgrade)
        /\ cluster' = cluster /\ pods' = pods /\ specNS' = specNS /\ ctxs' = ctxs /\ left' = left
        /\ redirected' = redirected /\ unclean' = unclean
    BY DEF AddTasks, clusterVars, history, Uninstalls
  <1>2. b \in RunsOf(test, c) /\ b \notin KeysOf(test, c)
    BY <1>1 DEF RunsOf, AddTasks, KeysOf, AppKeys
  <1>3. a \in KeysOf(test, c) /\ \A o \in ctxs[c][a] : ObjectOK(test, redirected, a, c, o)
    BY <1>1, CallerFacts DEF ContextsOK
  <1>4. /\ th' = [th EXCEPT ![c] = th'[c]]
        /\ th'[c].pc = "create" /\ th'[c].call = "add"
        /\ ThreadOK(test, redirected, c, DOMAIN ctxs[c], th'[c])
    <2>1. PICK s : s = ctxs[c][a]  OBVIOUS
    <2>2. StartApp(c, "add", 0, b, a, s, upgrade) /\ \A o \in s : ObjectOK(test, redirected, a, c, o)
      BY <1>1, <1>3, <2>1
    <2>3. 0 \in Nat  OBVIOUS
    <2> QED  BY <1>1, <1>2, <1>3, <2>2, <2>3, CallerFacts, StartAppOK
  <1>5. MovesOnly(c)  BY <1>1, <1>4, CallerFacts DEF MovesOnly
  <1> QED  BY <1>1, <1>5, QuietStep DEF Writes

LEMMA CallFailsMoves ==
    ASSUME AppsInv, NEW c \in Callers, th[c].pc = "create", CallFails(c), test' = test,
           redirected \subseteq redirected'
    PROVE  MovesOnly(c)
  <1>0. ContextsOK(test, redirected', c, ctxs[c])  BY CallerFacts, MoreRedirected
  <1>1. CASE th[c].call = "schedule"
    <2>1. /\ th' = [th EXCEPT ![c] = [Idle EXCEPT !.pc = "failed", !.app = th[c].app]]
          /\ ctxs' = [ctxs EXCEPT ![c] = <<>>]
      BY <1>1 DEF CallFails
    <2>a. th'[c] = [Idle EXCEPT !.pc = "failed", !.app = th[c].app]  BY <2>1, CallerFacts
    <2>b. ctxs'[c] = <<>>  BY <2>1, CallerFacts
    <2>2. th'[c] = [Idle EXCEPT !.pc = "failed", !.app = th[c].app] /\ ctxs'[c] = <<>>
      BY <2>a, <2>b
    <2>3. Over(th'[c], "failed")
      <3>1. Over([Idle EXCEPT !.pc = "failed", !.app = th[c].app], "failed")  BY IdleFacts
      <3> QED  BY <2>a, <3>1
    <2>4. ThreadOK(test, redirected', c, DOMAIN ctxs'[c], th'[c])  BY <2>3, CallerFacts, ReturnedOK
    <2>5. ContextsOK(test, redirected', c, ctxs'[c])  BY <2>2, EmptyContexts, SMT
    <2> QED  BY <1>1, <2>1, <2>2, <2>4, <2>5 DEF MovesOnly
  <1>2. CASE th[c].call # "schedule"
    <2>1. th' = [th EXCEPT ![c] = [Idle EXCEPT !.pc = "running"]] /\ ctxs' = ctxs
      BY <1>2 DEF CallFails
    <2>2. th'[c] = [Idle EXCEPT !.pc = "running"]  BY <2>1, CallerFacts
    <2>3. Over(th'[c], "running")  BY <2>2, IdleFacts
    <2>4. ThreadOK(test, redirected', c, DOMAIN ctxs'[c], th'[c])  BY <2>3, CallerFacts, ReturnedOK
    <2>5. th'[c].pc = "running" /\ th'[c].call = "none"  BY <2>3 DEF Over
    <2> QED  BY <1>0, <2>1, <2>2, <2>4, <2>5, CallerFacts DEF MovesOnly
  <1> QED  BY <1>1, <1>2

\* Another attempt keeps a call sound.
Again(t, n) == [t EXCEPT !.tries = n, !.kind = "none", !.found = FALSE]
LEMMA AgainFacts ==
    ASSUME NEW t, IsThread(t), NEW n, NEW u, u = Again(t, n)
    PROVE  /\ IsThread(u) /\ u.pc = t.pc /\ u.call = t.call /\ u.i = t.i /\ u.app = t.app
           /\ u.ctx = t.ctx /\ u.ns = t.ns /\ u.todo = t.todo /\ u.specs = t.specs /\ u.tries = n
           /\ u.kind = "none"
  BY DEF IsThread, Fields, Again

LEMMA TriesOK ==
    ASSUME NEW T, NEW R, NEW c, NEW dom, NEW t, ThreadOK(T, R, c, dom, t), NEW n \in 0 .. T.tries - 1
    PROVE  ThreadOK(T, R, c, dom, Again(t, n))
  <1>1. IsThread(t)  BY DEF ThreadOK
  <1>2. PICK u : u = Again(t, n)  OBVIOUS
  <1>3. /\ IsThread(u) /\ u.pc = t.pc /\ u.call = t.call /\ u.i = t.i /\ u.app = t.app
        /\ u.ctx = t.ctx /\ u.ns = t.ns /\ u.todo = t.todo /\ u.specs = t.specs /\ u.tries = n
        /\ u.kind = "none"
    BY <1>1, <1>2, AgainFacts
  <1>4. ThreadOK(T, R, c, dom, u)  BY <1>3 DEF ThreadOK
  <1> QED  BY <1>2, <1>4

LEMMA RetryMoves ==
    ASSUME AppsInv, NEW c \in Callers, th[c].pc = "create", Retry(c), test' = test,
           redirected \subseteq redirected'
    PROVE  MovesOnly(c)
  <1>1. CASE th[c].tries + 1 < MaxTries
    <2>1. PICK n, t : n = th[c].tries + 1 /\ t = th[c]  OBVIOUS
    <2>2. th' = [th EXCEPT ![c] = Again(t, n)] /\ ctxs' = ctxs  BY <1>1, <2>1 DEF Retry, Again
    <2>3. th'[c] = Again(t, n)  BY <2>2, CallerFacts
    <2>4. ThreadOK(test, redirected, c, DOMAIN ctxs[c], t) /\ n \in 0 .. test.tries - 1
      <3>1. ThreadOK(test, redirected, c, DOMAIN ctxs[c], t) /\ test \in Tests  BY <2>1, CallerFacts
      <3>2. t.tries \in 0 .. test.tries - 1 /\ test.tries \in Nat  BY <3>1, SomeTry DEF ThreadOK
      <3> QED  BY <1>1, <2>1, <3>1, <3>2, SMT DEF MaxTries
    <2>5. ThreadOK(test, redirected', c, DOMAIN ctxs[c], th'[c])
      BY <2>3, <2>4, TriesOK, MoreRedirected
    <2>6. th'[c].pc = th[c].pc /\ th'[c].call = th[c].call
      <3>1. IsThread(t)  BY <2>4 DEF ThreadOK
      <3> QED  BY <2>1, <2>3, <3>1, AgainFacts
    <2>7. ContextsOK(test, redirected', c, ctxs[c])  BY CallerFacts, MoreRedirected
    <2> QED  BY <2>2, <2>3, <2>5, <2>6, <2>7, CallerFacts DEF MovesOnly
  <1> QED  BY <1>1, CallFailsMoves DEF Retry

\* What the invariant says of a call that creates.
LEMMA CreatingFacts ==
    ASSUME AppsInv, NEW c \in Callers, th[c].pc = "create"
    PROVE  /\ th[c].app \in Apps /\ th[c].app \in RunsOf(test, c) /\ th[c].ns = NsOf(test, th[c].ctx, c)
           /\ th[c].ctx \in KeysOf(test, c) /\ (th[c].app \in KeysOf(test, c) => th[c].app = th[c].ctx)
           /\ th[c].ctx \in Apps /\ th[c].ns \in Spaces(test)
           /\ th[c].todo \subseteq ParseSpecs(test.specs[th[c].app]) \cup {"NamespaceOfApp"}
           /\ \A k \in th[c].todo :
                 k \in validateSpec \cup {"CustomResource", "HelmRepo", "NamespaceOfApp"}
  <1>1. ThreadOK(test, redirected, c, DOMAIN ctxs[c], th[c])  BY CallerFacts
  <1>2. th[c].todo \subseteq Handled(ParseSpecs(test.specs[th[c].app]) \cup {"NamespaceOfApp"}, CreatePhases)
    BY <1>1 DEF ThreadOK
  <1>3. th[c].todo \subseteq ParseSpecs(test.specs[th[c].app]) \cup {"NamespaceOfApp"}  BY <1>2 DEF Handled
  <1>4. th[c].ctx \in KeysOf(test, c) /\ th[c].ns = NsOf(test, th[c].ctx, c)  BY <1>1 DEF ThreadOK
  <1>5. th[c].ctx \in Apps  BY <1>4, CallerFacts, RunsApps
  <1>6. th[c].ns \in Spaces(test)  BY <1>4, <1>5, CallerFacts, NsFacts
  <1> QED  BY <1>1, <1>3, <1>4, <1>5, <1>6, ParsedKinds DEF ThreadOK

\* The namespaces of the shared specs.
LEMMA SharedSpaces ==
    ASSUME AppsInv, NEW a \in Apps, NEW k \in ParseSpecs(test.specs[a])
    PROVE  specNS[a][k] \in Spaces(test)
  <1>1. test \in Tests /\ SharedOK(test, specNS)  BY DEF AppsInv
  <1>2. specNS[a][k] = NoNS \/ GivenBy(test, a, specNS[a][k])  BY <1>1 DEF SharedOK
  <1>3. CASE specNS[a][k] = NoNS  BY <1>3 DEF Spaces
  <1>4. CASE GivenBy(test, a, specNS[a][k])
    <2>1. PICK d \in Callers : \E y \in KeysOf(test, d) : specNS[a][k] = NsOf(test, y, d)
      BY <1>4 DEF GivenBy
    <2>a. PICK x \in KeysOf(test, d) : specNS[a][k] = NsOf(test, x, d)  BY <2>1
    <2>2. x \in Apps  BY <1>1, RunsApps
    <2> QED  BY <1>1, <2>a, <2>2, NsFacts
  <1> QED  BY <1>2, <1>3, <1>4

\* The object of a request: of the application being made, in its namespace or redirected.
LEMMA RequestedFacts ==
    ASSUME AppsInv, NEW c \in Callers, th[c].kind \notin {"none", "HelmRepo"},
           NEW R, Misplaced(c, {Requested(c)}) \subseteq R
    PROVE  /\ th[c].pc = "create" /\ th[c].kind \in th[c].todo
           /\ Requested(c).kind = th[c].kind /\ Requested(c).app = th[c].app
           /\ Made(c, R, Requested(c))
           /\ th[c].kind # "NamespaceOfApp" => ObjectOK(test, R, th[c].ctx, c, Requested(c))
  <1>1. th[c].pc = "create" /\ th[c].kind \in th[c].todo  BY CallerFacts DEF ThreadOK
  <1>2. PICK k, a, x, ns :
            /\ k = th[c].kind /\ a = th[c].app /\ x = th[c].ctx
            /\ ns = IF k \in GivenNamespace THEN th[c].ns ELSE specNS[a][k]
    OBVIOUS
  <1>3. PICK o : o = Requested(c)  OBVIOUS
  <1>4. o = Object(k, a, ns)  BY <1>2, <1>3 DEF Requested
  <1>5. /\ a \in Apps /\ a \in RunsOf(test, c) /\ (a \in KeysOf(test, c) => a = x) /\ x \in Apps
        /\ th[c].ns = NsOf(test, x, c) /\ th[c].ns \in Spaces(test)
        /\ k \in ParseSpecs(test.specs[a]) \cup {"NamespaceOfApp"}
        /\ k \in validateSpec \cup {"CustomResource", "NamespaceOfApp"}
    BY <1>1, <1>2, CreatingFacts
  <1>6. ns \in Spaces(test)  BY <1>2, <1>5, SharedSpaces DEF GivenNamespace
  <1>7. /\ o.kind = k /\ o.app = a /\ o.ns = IF k \in ClusterScoped THEN NoNS ELSE ns
    BY <1>4, ObjectFacts
  <1>8. k \in ClusterScoped \/ ns = th[c].ns \/ o \in R  BY <1>3, <1>7 DEF Misplaced
  <1>9. k = "CustomResource" => ns = th[c].ns  BY <1>2 DEF GivenNamespace
  <1>10. k \in Kinds  BY <1>5, KindsKnown
  <1>11. Made(c, R, o)  BY <1>1, <1>2, <1>4, <1>6, <1>8, <1>9, <1>10 DEF Made
  <1>12. k # "NamespaceOfApp" => ObjectOK(test, R, x, c, o)
    <2> SUFFICES ASSUME k # "NamespaceOfApp" PROVE ObjectOK(test, R, x, c, o)  OBVIOUS
    <2>1. k \in validateSpec \cup {"CustomResource"}  BY <1>5
    <2>2. k \in ClusterScoped \/ ns = NsOf(test, x, c) \/ o \in R  BY <1>5, <1>8
    <2>3. k = "CustomResource" => ns = NsOf(test, x, c) /\ k \in ParseSpecs(test.specs[a])
      BY <1>5, <1>9
    <2>4. test \in Tests  BY CallerFacts
    <2> QED  BY <1>4, <1>5, <1>6, <2>1, <2>2, <2>3, <2>4, MadeOK
  <1> QED  BY <1>1, <1>2, <1>3, <1>7, <1>11, <1>12

LEMMA MadeFacts ==
    ASSUME AppsInv, NEW c \in Callers, NEW R, NEW o, Made(c, R, o)
    PROVE  /\ th[c].pc = "create" /\ o.app = th[c].app /\ o.kind \in Kinds
           /\ o = [f \in {"kind", "app", "ns"} |-> o[f]] /\ o.ns \in Spaces(test)
           /\ IF o.kind \in ClusterScoped THEN o.ns = NoNS ELSE o.ns = th[c].ns \/ o \in R
           /\ o.kind = "CustomResource" =>
                 o.kind \in Manifest[o.app] \/ (o.kind \in th[c].todo /\ o.ns = th[c].ns)
  <1>1. PICK k \in Kinds, ns \in Spaces(test) :
            /\ o = Object(k, th[c].app, ns)
            /\ k \in ClusterScoped \/ ns = th[c].ns \/ o \in R
            /\ k = "CustomResource" => k \in Manifest[th[c].app] \/ (k \in th[c].todo /\ ns = th[c].ns)
    BY DEF Made
  <1>2. th[c].pc = "create"  BY DEF Made
  <1>3. /\ o.kind = k /\ o.app = th[c].app /\ o = [f \in {"kind", "app", "ns"} |-> o[f]]
        /\ o.ns = IF k \in ClusterScoped THEN NoNS ELSE ns
    BY <1>1, ObjectFacts
  <1>4. NoNS \in Spaces(test)  BY DEF Spaces
  <1> QED  BY <1>1, <1>2, <1>3, <1>4, KindsApart

LEMMA RuleMade ==
    ASSUME NEW c, th[c].pc = "create", NEW R
    PROVE  Made(c, R, RuleOf(th[c].app))
  <1>1. RuleOf(th[c].app) = Object("RuleOfOptions", th[c].app, NoNS)  BY DEF RuleOf
  <1>2. NoNS \in Spaces(test)  BY DEF Spaces
  <1> QED  BY <1>1, <1>2, KindsKnown, KindsApart DEF Made

\* The function of a kind returns.
LEMMA CreatedMoves ==
    ASSUME AppsInv, NEW c \in Callers, th[c].kind \notin {"none", "HelmRepo"},
           Created(c, Requested(c)), ctxs' = ctxs, test' = test
    PROVE  MovesOnly(c) /\ Misplaced(c, {Requested(c)}) \subseteq redirected'
  <1>1. PICK o, k : o = Requested(c) /\ k = th[c].kind  OBVIOUS
  <1>2. PICK t, todo, specs :
            /\ t = th[c] /\ todo = th[c].todo \ {k}
            /\ specs = th[c].specs \cup ({o} \ {Object("NamespaceOfApp", o.app, o.ns)})
    OBVIOUS
  <1> DEFINE u == [t EXCEPT !.todo = todo, !.tries = 0, !.kind = "none", !.found = FALSE, !.specs = specs]
  <1>3. /\ th' = [th EXCEPT ![c] = u] /\ redirected \subseteq redirected'
        /\ Misplaced(c, {o}) \subseteq redirected'
    BY <1>1, <1>2 DEF Created
  <1>4. ThreadOK(test, redirected', c, DOMAIN ctxs[c], t) /\ ContextsOK(test, redirected', c, ctxs[c])
    BY <1>2, <1>3, CallerFacts, MoreRedirected
  <1>5. /\ IsThread(u) /\ u.pc = t.pc /\ u.call = t.call /\ u.i = t.i /\ u.app = t.app
        /\ u.ctx = t.ctx /\ u.ns = t.ns /\ u.todo = todo /\ u.specs = specs /\ u.tries = 0
        /\ u.kind = "none"
    <2>1. IsThread(t)  BY <1>4 DEF ThreadOK
    <2> QED  BY <2>1 DEF IsThread, Fields
  <1> HIDE DEF u
  <1>6. /\ t.pc = "create" /\ o.kind = k
        /\ k # "NamespaceOfApp" => ObjectOK(test, redirected', t.ctx, c, o)
    BY <1>1, <1>2, <1>3, RequestedFacts
  <1>7. k = "NamespaceOfApp" => o = Object("NamespaceOfApp", o.app, o.ns)
    BY <1>1, KindsApart DEF Object, Requested
  <1>8. \A x \in specs : ObjectOK(test, redirected', t.ctx, c, x)
    BY <1>2, <1>4, <1>6, <1>7 DEF ThreadOK
  <1>9. 0 \in 0 .. test.tries - 1  BY CallerFacts, SomeTry
  <1>10. todo \subseteq t.todo  BY <1>2
  <1>11. ThreadOK(test, redirected', c, DOMAIN ctxs[c], u)
    BY <1>4, <1>5, <1>6, <1>8, <1>9, <1>10 DEF ThreadOK
  <1>12. th'[c] = u  BY <1>3, CallerFacts
  <1>13. MovesOnly(c)  BY <1>2, <1>3, <1>4, <1>5, <1>11, <1>12, CallerFacts DEF MovesOnly
  <1> QED  BY <1>1, <1>3, <1>13

\* A call goes on to the next request, or learns that the object is there.
LEMMA KindMoves ==
    ASSUME AppsInv, NEW c \in Callers, th[c].pc = "create", NEW k \in th[c].todo,
           k # "HelmRepo" => k \in Earliest(th[c].todo, CreatePhases), NEW f,
           th' = [th EXCEPT ![c] = [th[c] EXCEPT !.kind = k, !.found = f]],
           ctxs' = ctxs, test' = test, redirected' = redirected
    PROVE  MovesOnly(c)
  <1>1. PICK t : t = th[c]  OBVIOUS
  <1> DEFINE u == [t EXCEPT !.kind = k, !.found = f]
  <1>2. th' = [th EXCEPT ![c] = u]  BY <1>1
  <1>3. ThreadOK(test, redirected, c, DOMAIN ctxs[c], t)  BY <1>1, CallerFacts
  <1>4. /\ IsThread(u) /\ u.pc = t.pc /\ u.call = t.call /\ u.i = t.i /\ u.app = t.app
        /\ u.ctx = t.ctx /\ u.ns = t.ns /\ u.todo = t.todo /\ u.specs = t.specs /\ u.tries = t.tries
        /\ u.kind = k
    <2>1. IsThread(t)  BY <1>3 DEF ThreadOK
    <2> QED  BY <2>1 DEF IsThread, Fields
  <1> HIDE DEF u
  <1>5. ThreadOK(test, redirected, c, DOMAIN ctxs[c], u)  BY <1>1, <1>3, <1>4 DEF ThreadOK
  <1>6. th'[c] = u  BY <1>2, CallerFacts
  <1> QED  BY <1>1, <1>2, <1>4, <1>5, <1>6, CallerFacts DEF MovesOnly

LEMMA SameField ==
    ASSUME NEW t, IsThread(t), NEW k
    PROVE  /\ [t EXCEPT !.kind = k] = [t EXCEPT !.kind = k, !.found = t.found]
           /\ [t EXCEPT !.found = k] = [t EXCEPT !.kind = t.kind, !.found = k]
  BY DEF IsThread, Fields

LEMMA SetNamespaceStep ==
    ASSUME AppsInv, NEW c \in Callers, th[c].pc = "create",
           NEW k \in Earliest(th[c].todo, CreatePhases) \ {"HelmRepo"}, SetNamespace(c, k), test' = test
    PROVE  StepOf(c)
  <1>1. /\ th' = [th EXCEPT ![c] = [th[c] EXCEPT !.kind = k]]
        /\ cluster' = cluster /\ pods' = pods /\ ctxs' = ctxs /\ left' = left
        /\ redirected' = redirected /\ unclean' = unclean
        /\ specNS' = specNS \/ SetSpecNS(th[c].app, k, th[c].ns)
    BY DEF SetNamespace, clusterVars, history
  <1>2. IsThread(th[c])  BY CallerFacts DEF ThreadOK
  <1>3. PICK f : f = th[c].found  OBVIOUS
  <1>4. th' = [th EXCEPT ![c] = [th[c] EXCEPT !.kind = k, !.found = f]]  BY <1>1, <1>2, <1>3, SameField
  <1>5. k \in th[c].todo  BY DEF Earliest
  <1>6. MovesOnly(c)  BY <1>1, <1>4, <1>5, KindMoves
  <1>7. Writes(c)  BY <1>1 DEF Writes
  <1> QED  BY <1>1, <1>6, <1>7, QuietStep

LEMMA FindObjectStep ==
    ASSUME AppsInv, NEW c \in Callers, th[c].pc = "create", th[c].kind \notin {"none", "HelmRepo"},
           FindObject(c), test' = test
    PROVE  StepOf(c)
  <1>1. /\ th' = [th EXCEPT ![c] = [th[c] EXCEPT !.found = TRUE]]
        /\ cluster' = cluster /\ pods' = pods /\ ctxs' = ctxs /\ left' = left
        /\ redirected' = redirected /\ unclean' = unclean /\ specNS' = specNS
    BY DEF FindObject, clusterVars, history
  <1>2. ThreadOK(test, redirected, c, DOMAIN ctxs[c], th[c])  BY CallerFacts
  <1>3. PICK k, f : k = th[c].kind /\ f = TRUE  OBVIOUS
  <1>4. IsThread(th[c]) /\ k \in th[c].todo /\ k \in Earliest(th[c].todo, CreatePhases)
    BY <1>2, <1>3 DEF ThreadOK
  <1>5. th' = [th EXCEPT ![c] = [th[c] EXCEPT !.kind = k, !.found = f]]  BY <1>1, <1>3, <1>4, SameField
  <1>6. MovesOnly(c)  BY <1>1, <1>4, <1>5, KindMoves
  <1> QED  BY <1>1, <1>6, QuietStep DEF Writes

LEMMA GetObjectStep ==
    ASSUME AppsInv, NEW c \in Callers, th[c].kind \notin {"none", "HelmRepo"}, GetObject(c), test' = test
    PROVE  StepOf(c)
  <1>1. /\ Created(c, Requested(c)) /\ cluster' = cluster /\ pods' = pods /\ ctxs' = ctxs
        /\ left' = left /\ unclean' = unclean /\ specNS' = specNS
    BY DEF GetObject, clusterVars
  <1>2. MovesOnly(c)  BY <1>1, CreatedMoves
  <1> QED  BY <1>1, <1>2, QuietStep DEF Writes

LEMMA CreateObjectStep ==
    ASSUME AppsInv, NEW c \in Callers, th[c].kind \notin {"none", "HelmRepo"}, CreateObject(c), test' = test
    PROVE  StepOf(c)
  <1>1. /\ Created(c, Requested(c)) /\ pods' = pods /\ ctxs' = ctxs /\ left' = left /\ unclean' = unclean
        /\ specNS' = specNS \/ SetSpecNS(th[c].app, th[c].kind, th[c].ns)
        /\ cluster \subseteq cluster'
        /\ \A x \in cluster' : x \in cluster \/ x = Requested(c) \/ x = RuleOf(th[c].app)
    BY DEF CreateObject, clusterVars
  <1>2. MovesOnly(c) /\ Misplaced(c, {Requested(c)}) \subseteq redirected'  BY <1>1, CreatedMoves
  <1>3. th[c].pc = "create" /\ Made(c, redirected', Requested(c))  BY <1>2, RequestedFacts
  <1>4. CreatesFor(c)  BY <1>1, <1>3, RuleMade DEF CreatesFor
  <1>5. Writes(c)  BY <1>1, <1>3 DEF Writes
  <1> QED  BY <1>1, <1>2, <1>4, <1>5 DEF StepOf, DeletesOwn, Leaves

LEMMA CreateAttemptFailsStep ==
    ASSUME AppsInv, NEW c \in Callers, th[c].kind \notin {"none", "HelmRepo"},
           CreateAttemptFails(c), test' = test
    PROVE  StepOf(c)
  <1>1. PICK o : o = Requested(c)  OBVIOUS
  <1>2. /\ cluster' = cluster \/ cluster' = cluster \cup {o}
        /\ redirected' = redirected \cup Misplaced(c, cluster' \ cluster)
        /\ Retry(c) /\ pods' = pods /\ specNS' = specNS /\ left' = left /\ unclean' = unclean
    BY <1>1 DEF CreateAttemptFails, clusterVars
  <1>3. th[c].pc = "create"  BY CallerFacts DEF ThreadOK
  <1>4. MovesOnly(c)  BY <1>2, <1>3, RetryMoves
  <1>5. CreatesFor(c)
    <2>1. SUFFICES ASSUME NEW x \in cluster' \ cluster PROVE Made(c, redirected', x)  BY DEF CreatesFor
    <2>2. x = Requested(c) /\ cluster' \ cluster = {Requested(c)}  BY <1>1, <1>2
    <2>3. Misplaced(c, {Requested(c)}) \subseteq redirected'  BY <1>2, <2>2
    <2> QED  BY <2>2, <2>3, RequestedFacts
  <1> QED  BY <1>2, <1>4, <1>5 DEF StepOf, DeletesOwn, Leaves, Writes

LEMMA CreateStepOf ==
    ASSUME AppsInv, NEW c \in Callers, CreateStep(c), test' = test
    PROVE  StepOf(c)
  <1>1. th[c].pc = "create" /\ th[c].kind # "HelmRepo"  BY DEF CreateStep
  <1>2. CASE \E k \in Earliest(th[c].todo, CreatePhases) \ {"HelmRepo"} : SetNamespace(c, k)
    BY <1>1, <1>2, SetNamespaceStep
  <1>3. CASE th[c].kind # "none" /\ (CreateObject(c) \/ FindObject(c) \/ GetObject(c) \/ CreateAttemptFails(c))
    BY <1>1, <1>3, CreateObjectStep, FindObjectStep, GetObjectStep, CreateAttemptFailsStep
  <1> QED  BY <1>2, <1>3 DEF CreateStep

\* The objects of a chart, which helm installs where the shared HelmRepo says.
LEMMA ChartFacts ==
    ASSUME AppsInv, NEW c \in Callers, th[c].pc = "create", NEW a, a = th[c].app,
           NEW ns \in Spaces(test), NEW R, Misplaced(c, Installed(a, ns)) \subseteq R
    PROVE  /\ \A o \in Installed(a, ns) : Made(c, R, o)
           /\ ~ ParseSpecsFromYamlBufFails(Manifest[a]) =>
                 \A o \in Chart(a, ns) : ObjectOK(test, R, th[c].ctx, c, o)
  <1>1. PICK x : x = th[c].ctx  OBVIOUS
  <1>2. /\ a \in Apps /\ a \in RunsOf(test, c) /\ (a \in KeysOf(test, c) => a = x) /\ x \in Apps
        /\ th[c].ns = NsOf(test, x, c)
    BY <1>1, CreatingFacts
  <1>3. ASSUME NEW k, NEW o \in Installed(a, ns), o = Object(k, a, ns)
        PROVE  k \in ClusterScoped \/ ns = th[c].ns \/ o \in R
    <2>1. o.kind = k /\ o.ns = IF k \in ClusterScoped THEN NoNS ELSE ns  BY <1>3, ObjectFacts
    <2> QED  BY <2>1 DEF Misplaced
  <1>4. ASSUME NEW o \in Installed(a, ns) PROVE Made(c, R, o)
    <2>1. PICK k \in Manifest[a] \cup {"HelmRelease"} : o = Object(k, a, ns)
      BY DEF Installed, Chart, Release
    <2>2. k \in Kinds /\ (k = "CustomResource" => k \in Manifest[a])  BY <1>2, KindsKnown, KindsApart
    <2> QED  BY <1>3, <2>1, <2>2 DEF Made
  <1>5. ASSUME ~ ParseSpecsFromYamlBufFails(Manifest[a]), NEW o \in Chart(a, ns)
        PROVE  ObjectOK(test, R, x, c, o)
    <2>1. PICK k \in Manifest[a] : o = Object(k, a, ns)  BY DEF Chart
    <2>2. k \in validateSpec  BY <1>5 DEF ParseSpecsFromYamlBufFails
    <2>3. k # "CustomResource" /\ o \in Installed(a, ns)  BY <2>2, KindsApart DEF Installed
    <2>4. k \in ClusterScoped \/ ns = NsOf(test, x, c) \/ o \in R  BY <1>2, <1>3, <2>1, <2>3
    <2>5. test \in Tests  BY CallerFacts
    <2> QED  BY <1>2, <2>1, <2>2, <2>3, <2>4, <2>5, MadeOK
  <1> QED  BY <1>1, <1>4, <1>5

LEMMA HelmPrepareStep ==
    ASSUME AppsInv, NEW c \in Callers, HelmPrepare(c), test' = test
    PROVE  StepOf(c)
  <1>1. /\ th[c].pc = "create" /\ th[c].todo = {"HelmRepo"}
        /\ cluster' = cluster /\ pods' = pods /\ left' = left /\ redirected' = redirected /\ unclean' = unclean
    BY DEF HelmPrepare, clusterVars, history
  <1>2. CASE /\ SetSpecNS(th[c].app, "HelmRepo", th[c].ns) /\ ctxs' = ctxs
             /\ th' = [th EXCEPT ![c] = [th[c] EXCEPT !.kind = "HelmRepo"]]
    <2>1. IsThread(th[c])  BY CallerFacts DEF ThreadOK
    <2>2. PICK k, f : k = "HelmRepo" /\ f = th[c].found  OBVIOUS
    <2>3. th' = [th EXCEPT ![c] = [th[c] EXCEPT !.kind = k, !.found = f]]  BY <1>2, <2>1, <2>2, SameField
    <2>4. MovesOnly(c)  BY <1>1, <1>2, <2>2, <2>3, KindMoves
    <2>5. Writes(c)  BY <1>1, <1>2 DEF Writes
    <2> QED  BY <1>1, <2>4, <2>5, QuietStep
  <1>3. CASE CallFails(c) /\ specNS' = specNS
    <2>1. MovesOnly(c)  BY <1>1, <1>3, CallFailsMoves
    <2> QED  BY <1>1, <1>3, <2>1, QuietStep DEF Writes
  <1> QED  BY <1>2, <1>3 DEF HelmPrepare

LEMMA HelmScheduleStep ==
    ASSUME AppsInv, NEW c \in Callers, HelmSchedule(c), test' = test
    PROVE  StepOf(c)
  <1>1. PICK a, ns : a = th[c].app /\ ns = specNS[th[c].app]["HelmRepo"]  OBVIOUS
  <1>2. /\ th[c].pc = "create" /\ th[c].kind = "HelmRepo" /\ pods' = pods /\ specNS' = specNS
        /\ left' = left /\ unclean' = unclean
        /\ redirected' = redirected \cup Misplaced(c, Installed(a, ns))
        /\ \E made \in SUBSET Installed(a, ns) : cluster' = cluster \cup made
    <2>1. {} \in SUBSET Installed(a, ns) /\ Installed(a, ns) \in SUBSET Installed(a, ns)
          /\ cluster = cluster \cup {}
      OBVIOUS
    <2>2. \E made \in SUBSET Installed(a, ns) : cluster' = cluster \cup made
      BY <1>1, <2>1 DEF HelmSchedule
    <2> QED  BY <1>1, <2>2 DEF HelmSchedule, clusterVars
  <1>3. th[c].kind \in th[c].todo  BY <1>2, CallerFacts DEF ThreadOK
  <1>4. ns \in Spaces(test)
    <2>1. "HelmRepo" \in ParseSpecs(test.specs[a]) /\ a \in Apps  BY <1>1, <1>2, <1>3, CreatingFacts
    <2> QED  BY <1>1, <2>1, SharedSpaces
  <1>5. Misplaced(c, Installed(a, ns)) \subseteq redirected' /\ redirected \subseteq redirected'  BY <1>2
  <1>6. /\ \A o \in Installed(a, ns) : Made(c, redirected', o)
        /\ ~ ParseSpecsFromYamlBufFails(Manifest[a]) =>
              \A o \in Chart(a, ns) : ObjectOK(test, redirected', th[c].ctx, c, o)
    BY <1>1, <1>2, <1>4, <1>5, ChartFacts
  <1>7. CreatesFor(c) /\ cluster \subseteq cluster'  BY <1>2, <1>6 DEF CreatesFor
  <1>8. \/ CallFails(c)
        \/ /\ ~ ParseSpecsFromYamlBufFails(Manifest[a]) /\ ctxs' = ctxs
           /\ th' = [th EXCEPT ![c] = [th[c] EXCEPT !.todo = {}, !.kind = "none",
                                                   !.specs = th[c].specs \cup Chart(a, ns)]]
    BY <1>1 DEF HelmSchedule
  <1>9. MovesOnly(c)
    <2>1. CASE CallFails(c)  BY <2>1, <1>2, <1>5, CallFailsMoves
    <2>2. CASE ~ CallFails(c)
      <3>1. PICK t, specs : t = th[c] /\ specs = th[c].specs \cup Chart(a, ns)  OBVIOUS
      <3>a. ThreadOK(test, redirected', c, DOMAIN ctxs[c], t) /\ ContextsOK(test, redirected', c, ctxs[c])
        BY <1>5, <3>1, CallerFacts, MoreRedirected
      <3>2. /\ ThreadOK(test, redirected', c, DOMAIN ctxs[c], t) /\ t.pc = "create"
            /\ ContextsOK(test, redirected', c, ctxs[c])
        BY <1>2, <3>1, <3>a
      <3> DEFINE u == [t EXCEPT !.todo = {}, !.kind = "none", !.specs = specs]
      <3>3. /\ IsThread(u) /\ u.pc = t.pc /\ u.call = t.call /\ u.i = t.i /\ u.app = t.app
            /\ u.ctx = t.ctx /\ u.ns = t.ns /\ u.todo = {} /\ u.specs = specs /\ u.tries = t.tries
            /\ u.kind = "none"
        <4>1. IsThread(t)  BY <3>2 DEF ThreadOK
        <4> QED  BY <4>1 DEF IsThread, Fields
      <3>4. th' = [th EXCEPT ![c] = u] /\ ctxs' = ctxs  BY <1>8, <2>2, <3>1
      <3> HIDE DEF u
      <3>5. th'[c] = u  BY <3>4, CallerFacts
      <3>6. \A x \in specs : ObjectOK(test, redirected', t.ctx, c, x)
        BY <1>6, <1>8, <2>2, <3>1, <3>2 DEF ThreadOK
      <3>7. ThreadOK(test, redirected', c, DOMAIN ctxs[c], u)  BY <3>2, <3>3, <3>6 DEF ThreadOK
      <3> QED  BY <1>5, <3>1, <3>2, <3>3, <3>4, <3>5, <3>7, CallerFacts DEF MovesOnly
    <2> QED  BY <2>1, <2>2
  <1> QED  BY <1>2, <1>7, <1>9 DEF StepOf, DeletesOwn, Leaves, Writes

LEMMA AppCreatedStep ==
    ASSUME AppsInv, NEW c \in Callers, AppCreated(c), test' = test
    PROVE  StepOf(c)
  <1>1. PICK t, x : t = th[c] /\ x = ctxs[c]  OBVIOUS
  <1> DEFINE y == [a \in DOMAIN x \cup {t.ctx} |-> IF a = t.ctx THEN t.specs ELSE x[a]]
  <1>2. /\ t.pc = "create" /\ cluster' = cluster /\ pods' = pods /\ specNS' = specNS /\ left' = left
        /\ redirected' = redirected /\ unclean' = unclean /\ ctxs' = [ctxs EXCEPT ![c] = y]
    BY <1>1 DEF AppCreated, clusterVars, history
  <1>3. ThreadOK(test, redirected, c, DOMAIN x, t) /\ ContextsOK(test, redirected, c, x)
    BY <1>1, CallerFacts
  <1>4. DOMAIN y = DOMAIN x \cup {t.ctx} /\ ContextsOK(test, redirected, c, y)
    BY <1>2, <1>3 DEF ContextsOK, ThreadOK
  <1>5. t.call # "schedule" => DOMAIN y = DOMAIN x
    <2>1. t.call # "schedule" => t.ctx \in DOMAIN x  BY <1>2, <1>3 DEF ThreadOK
    <2> QED  BY <1>4, <2>1
  <1> HIDE DEF y
  <1>6. ctxs'[c] = y /\ ctxs' = [ctxs EXCEPT ![c] = ctxs'[c]]  BY <1>2, CallerFacts
  <1>7. CASE t.call = "schedule" /\ t.i + 1 <= Len(AppKeys[c])
    <2>1. PICK n, f : n = t.i + 1 /\ f = FALSE  OBVIOUS
    <2>2. n \in Nat /\ 1 <= n /\ n <= Len(AppKeys[c])
      <3>1. t.i \in Nat  BY <1>3 DEF ThreadOK
      <3> QED  BY <1>7, <2>1, <3>1, SMT
    <2>3. AppKeys[c][n] \in Apps /\ AppKeys[c][n] \in KeysOf(test, c) /\ AppKeys[c][n] \in RunsOf(test, c)
      BY <2>2, CallerFacts, KeysRun
    <2>4. StartApp(c, "schedule", n, AppKeys[c][n], AppKeys[c][n], {}, f)
      BY <1>1, <1>7, <2>1 DEF AppCreated
    <2>5. /\ th' = [th EXCEPT ![c] = th'[c]]
          /\ ThreadOK(test, redirected, c, DOMAIN y, th'[c])
      BY <2>2, <2>3, <2>4, CallerFacts, StartAppOK
    <2>6. MovesOnly(c)  BY <1>1, <1>2, <1>4, <1>6, <1>7, <2>5 DEF MovesOnly
    <2> QED  BY <1>2, <2>6, QuietStep DEF Writes
  <1>8. CASE ~ (t.call = "schedule" /\ t.i + 1 <= Len(AppKeys[c]))
    <2>1. th' = [th EXCEPT ![c] = [Idle EXCEPT !.pc = "running"]]  BY <1>1, <1>8 DEF AppCreated
    <2>2. th'[c] = [Idle EXCEPT !.pc = "running"]  BY <2>1, CallerFacts
    <2>3. Over(th'[c], "running")  BY <2>2, IdleFacts
    <2>4. ThreadOK(test, redirected, c, DOMAIN y, th'[c])  BY <2>3, CallerFacts, ReturnedOK
    <2>5. th'[c].pc = "running" /\ th'[c].call = "none"  BY <2>3 DEF Over
    <2>6. MovesOnly(c)  BY <1>1, <1>2, <1>4, <1>5, <1>6, <2>1, <2>2, <2>4, <2>5 DEF MovesOnly
    <2> QED  BY <1>2, <2>6, QuietStep DEF Writes
  <1> QED  BY <1>7, <1>8

LEMMA ScheduleUninstallStep ==
    ASSUME AppsInv, NEW c \in Callers, NEW a \in Apps, NEW b \in Apps,
           ScheduleUninstall(c, a, b), test' = test
    PROVE  StepOf(c)
  <1>1. PICK x, ns : x = ctxs[c] /\ ns = specNS[b]["HelmRepo"]  OBVIOUS
  <1>2. PICK s : s = RemoveAppSpecsByName(x[a], Chart(b, ns))  OBVIOUS
  <1>3. /\ a \in DOMAIN x /\ pods' = pods /\ specNS' = specNS /\ redirected' = redirected
        /\ th' = th /\ left' = left /\ c \in test.uninstalls /\ unclean \subseteq unclean'
        /\ cluster' \subseteq cluster /\ \A o \in cluster \ cluster' : o \in Installed(b, ns)
        /\ ctxs' = ctxs \/ ctxs' = [ctxs EXCEPT ![c] = [x EXCEPT ![a] = s]]
    BY <1>1, <1>2 DEF ScheduleUninstall, clusterVars, Uninstalls
  <1>4. ContextsOK(test, redirected, c, x)  BY <1>1, CallerFacts
  <1>5. MovesOnly(c)
    <2>1. CASE ctxs' = ctxs  BY <1>3, <2>1, CallerFacts DEF MovesOnly
    <2>2. CASE ctxs' = [ctxs EXCEPT ![c] = [x EXCEPT ![a] = s]]
      <3>1. s \subseteq x[a]  BY <1>2 DEF RemoveAppSpecsByName
      <3> DEFINE y == [x EXCEPT ![a] = s]
      <3>2. DOMAIN y = DOMAIN x /\ ContextsOK(test, redirected, c, y)  BY <1>3, <1>4, <3>1 DEF ContextsOK
      <3>3. ctxs' = [ctxs EXCEPT ![c] = y]  BY <2>2
      <3> HIDE DEF y
      <3>4. ctxs'[c] = y  BY <3>3, CallerFacts
      <3> QED  BY <1>1, <1>3, <3>2, <3>3, <3>4, CallerFacts DEF MovesOnly
    <2> QED  BY <1>3, <2>1, <2>2
  <1>6. \A o \in Installed(b, ns) : o.app = b  BY ObjectFacts DEF Installed, Chart, Release
  <1>7. b \in RunsOf(test, c)  BY <1>3 DEF RunsOf
  <1>8. DeletesOwn(c)  BY <1>3, <1>6, <1>7 DEF DeletesOwn
  <1> QED  BY <1>3, <1>5, <1>8 DEF StepOf, CreatesFor, Leaves, Writes

LEMMA DestroyStartStep ==
    ASSUME AppsInv, NEW c \in Callers, NEW a \in Apps, DestroyStart(c, a), test' = test
    PROVE  StepOf(c)
  <1>1. PICK specs : specs = ctxs[c][a]  OBVIOUS
  <1> DEFINE todo == {o \in specs : Handled({o.kind}, DestroyPhases) # {}}
                        \cup {r \in {RuleOf(a)} : c \in RuleCallers}
             u == [pc |-> "destroy", call |-> "destroy", i |-> 0, app |-> a, ctx |-> a,
                   ns |-> NoNS, tries |-> 0, specs |-> specs, kind |-> "none", found |-> FALSE,
                   upgrade |-> FALSE, todo |-> todo]
  <1>2. /\ a \in DOMAIN ctxs[c] /\ th[c].pc = "running" /\ cluster' = cluster /\ pods' = pods
        /\ specNS' = specNS /\ ctxs' = ctxs /\ left' = left /\ redirected' = redirected
        /\ unclean' = unclean /\ th' = [th EXCEPT ![c] = u]
    BY <1>1 DEF DestroyStart, clusterVars, history
  <1>3. a \in KeysOf(test, c) /\ \A o \in specs : ObjectOK(test, redirected, a, c, o)
    BY <1>1, <1>2, CallerFacts DEF ContextsOK
  <1>4. \A o \in todo : ObjectOK(test, redirected, a, c, o) \/ (o = RuleOf(a) /\ c \in test.rules)
    BY <1>3 DEF RuleCallers
  <1> HIDE DEF todo
  <1>5. /\ IsThread(u) /\ u.pc = "destroy" /\ u.call = "destroy" /\ u.i = 0 /\ u.app = a
        /\ u.ctx = a /\ u.specs = specs /\ u.todo = todo /\ u.tries = 0 /\ u.i \in Nat
        /\ u.kind = "none"
    BY DEF IsThread, Fields
  <1> HIDE DEF u
  <1>6. th'[c] = u  BY <1>2, CallerFacts
  <1>a. 0 \in 0 .. test.tries - 1  BY CallerFacts, SomeTry
  <1>b. u.pc # "create" /\ u.pc \in {"idle", "create", "running", "failed", "destroy"}  BY <1>5
  <1>c. \A o \in u.todo : ObjectOK(test, redirected, u.ctx, c, o) \/ (o = RuleOf(u.app) /\ c \in test.rules)
    BY <1>4, <1>5
  <1>7. ThreadOK(test, redirected, c, DOMAIN ctxs[c], u)
    BY <1>3, <1>5, <1>a, <1>b, <1>c DEF ThreadOK
  <1>8. MovesOnly(c)  BY <1>2, <1>5, <1>6, <1>7, CallerFacts DEF MovesOnly
  <1> QED  BY <1>2, <1>8, QuietStep DEF Writes

LEMMA DestroyReturnsNilMoves ==
    ASSUME AppsInv, NEW c \in Callers, th[c].pc = "destroy", DestroyReturnsNil(c), test' = test,
           redirected' = redirected
    PROVE  /\ MovesOnly(c) /\ left' = left \cup th[c].specs
           /\ th'[c].pc = "running" /\ th'[c].call = "none" /\ th[c].ctx \notin DOMAIN ctxs'[c]
  <1>1. PICK t, x : t = th[c] /\ x = ctxs[c]  OBVIOUS
  <1> DEFINE y == [a \in DOMAIN x \ {t.app} |-> x[a]]
  <1>2. /\ th' = [th EXCEPT ![c] = [Idle EXCEPT !.pc = "running"]]
        /\ ctxs' = [ctxs EXCEPT ![c] = y] /\ left' = left \cup th[c].specs
    BY <1>1 DEF DestroyReturnsNil
  <1>3. ContextsOK(test, redirected, c, x) /\ t.app = t.ctx  BY <1>1, CallerFacts DEF ThreadOK
  <1>4. DOMAIN y = DOMAIN x \ {t.app} /\ ContextsOK(test, redirected, c, y)  BY <1>3 DEF ContextsOK
  <1> HIDE DEF y
  <1>5. th'[c] = [Idle EXCEPT !.pc = "running"] /\ ctxs'[c] = y  BY <1>2, CallerFacts
  <1>6. Over(th'[c], "running")  BY <1>5, IdleFacts
  <1>7. th'[c].pc = "running" /\ th'[c].call = "none"  BY <1>6 DEF Over
  <1>8. ThreadOK(test, redirected, c, DOMAIN y, th'[c])  BY <1>6, CallerFacts, ReturnedOK
  <1>9. MovesOnly(c)  BY <1>1, <1>2, <1>4, <1>5, <1>7, <1>8 DEF MovesOnly
  <1> QED  BY <1>1, <1>2, <1>3, <1>4, <1>5, <1>7, <1>9

LEMMA DestroyFailsMoves ==
    ASSUME AppsInv, NEW c \in Callers, DestroyFails(c), ctxs' = ctxs, test' = test, redirected' = redirected
    PROVE  MovesOnly(c)
  <1>1. th' = [th EXCEPT ![c] = [Idle EXCEPT !.pc = "running"]]  BY DEF DestroyFails
  <1>2. th'[c] = [Idle EXCEPT !.pc = "running"]  BY <1>1, CallerFacts
  <1>3. Over(th'[c], "running")  BY <1>2, IdleFacts
  <1>4. th'[c].pc = "running" /\ th'[c].call = "none"  BY <1>3 DEF Over
  <1>5. ThreadOK(test, redirected, c, DOMAIN ctxs[c], th'[c])  BY <1>3, CallerFacts, ReturnedOK
  <1> QED  BY <1>1, <1>2, <1>4, <1>5, CallerFacts DEF MovesOnly

LEMMA RunsRunBy ==
    ASSUME NEW c \in Callers, NEW a \in RunsOf(test, c)
    PROVE  c \in RunBy(a)
  BY DEF KeysOf, RunsOf, RunBy, AppKeys, Uninstalls

\* What Destroy deletes for a spec.
LEMMA TargetApp ==
    ASSUME AppsInv, NEW c \in Callers, th[c].pc = "destroy", NEW o \in th[c].todo
    PROVE  /\ Target(o).app \in RunsOf(test, c) /\ Target(o).app = o.app /\ Target(o).kind = o.kind
           /\ IF o.kind = "CustomResource" THEN Target(o).ns = specNS[o.app]["CustomResource"]
                                           ELSE Target(o) = o
           /\ ObjectOK(test, redirected, th[c].ctx, c, o) \/ (o = RuleOf(th[c].app) /\ o.kind = "RuleOfOptions")
  <1>1. /\ ObjectOK(test, redirected, th[c].ctx, c, o) \/ o = RuleOf(th[c].app)
        /\ th[c].app = th[c].ctx /\ th[c].ctx \in KeysOf(test, c)
    BY CallerFacts DEF ThreadOK
  <1>2. CASE o = RuleOf(th[c].app)
    <2>1. o.app = th[c].app /\ o.kind = "RuleOfOptions"  BY <1>2, RuleOfFacts
    <2>2. Target(o) = o /\ o.kind # "CustomResource"  BY <2>1, KindsApart DEF Target
    <2>3. th[c].app \in RunsOf(test, c)  BY <1>1, CallerFacts, RunsApps
    <2> QED  BY <1>2, <2>1, <2>2, <2>3
  <1>3. CASE ObjectOK(test, redirected, th[c].ctx, c, o) /\ o.kind # "CustomResource"
    <2>1. Target(o) = o  BY <1>3 DEF Target
    <2> QED  BY <1>3, <2>1 DEF ObjectOK
  <1>4. CASE ObjectOK(test, redirected, th[c].ctx, c, o) /\ o.kind = "CustomResource"
    <2>1. PICK n : n = specNS[o.app]["CustomResource"]  OBVIOUS
    <2>2. Target(o) = [o EXCEPT !.ns = n]  BY <1>4, <2>1 DEF Target
    <2>3. Target(o).kind = o.kind /\ Target(o).app = o.app /\ Target(o).ns = n  BY <1>4, <2>2 DEF ObjectOK
    <2> QED  BY <1>4, <2>1, <2>3 DEF ObjectOK
  <1> QED  BY <1>1, <1>2, <1>3, <1>4

\* It is an object of its own caller, unless it is shared or was redirected.
LEMMA TargetOwn ==
    ASSUME AppsInv, NEW c \in Callers, th[c].pc = "destroy", NEW o \in th[c].todo,
           Target(o).ns \in Apps \X Callers, Target(o) \notin redirected, Unshared(c, Target(o))
    PROVE  Target(o).ns[2] = c
  <1>1. /\ Target(o).app = o.app /\ Target(o).kind = o.kind
        /\ IF o.kind = "CustomResource" THEN Target(o).ns = specNS[o.app]["CustomResource"] ELSE Target(o) = o
        /\ ObjectOK(test, redirected, th[c].ctx, c, o) \/ (o = RuleOf(th[c].app) /\ o.kind = "RuleOfOptions")
    BY TargetApp
  <1>2. test \in Tests /\ NoNS \notin Apps \X Callers  BY CallerFacts, SMT DEF NoNS
  <1>3. CASE o.kind = "RuleOfOptions" /\ o = RuleOf(th[c].app)
    BY <1>1, <1>2, <1>3, RuleOfFacts, KindsApart
  <1>4. CASE ObjectOK(test, redirected, th[c].ctx, c, o) /\ o.kind # "CustomResource"
    <2>1. o.ns = NsOf(test, th[c].ctx, c)  BY <1>1, <1>2, <1>4 DEF ObjectOK
    <2>2. o.ns = <<th[c].ctx, c>>  BY <1>1, <1>2, <1>4, <2>1, NsFacts
    <2> QED  BY <1>1, <1>4, <2>2, PairFacts
  <1>5. CASE ObjectOK(test, redirected, th[c].ctx, c, o) /\ o.kind = "CustomResource"
    <2>1. PICK n, a : n = specNS[o.app]["CustomResource"] /\ a = o.app  OBVIOUS
    <2>2. a \in RunsOf(test, c) /\ a \in Apps /\ "CustomResource" \in ParseSpecs(test.specs[a])
      BY <1>2, <1>5, <2>1, RunsApps DEF ObjectOK
    <2>3. GivenBy(test, a, n)  BY <1>1, <1>2, <1>5, <2>1, <2>2, CallerFacts DEF SharedOK
    <2>4. PICK d \in Callers : \E y \in KeysOf(test, d) : n = NsOf(test, y, d) /\ a \in RunsOf(test, d)
      BY <2>3 DEF GivenBy
    <2>5. d = c  BY <1>1, <1>5, <2>1, <2>4, RunsRunBy DEF Unshared
    <2>6. PICK y : n = <<y, c>>  BY <1>1, <1>2, <1>5, <2>1, <2>4, <2>5, NsFacts
    <2> QED  BY <1>1, <1>5, <2>1, <2>6, PairFacts
  <1> QED  BY <1>1, <1>3, <1>4, <1>5

LEMMA DestroyObjectStep ==
    ASSUME AppsInv, NEW c \in Callers, th[c].pc = "destroy", NEW o \in th[c].todo,
           DestroyObject(c, o) \/ DestroyAttemptFails(c, o), test' = test
    PROVE  StepOf(c)
  <1>1. /\ cluster' = cluster \/ cluster' = cluster \ {Target(o)}
        /\ pods' = pods /\ specNS' = specNS /\ ctxs' = ctxs /\ left' = left
        /\ redirected' = redirected /\ unclean' = unclean
    BY DEF DestroyObject, DestroyAttemptFails, clusterVars, history
  <1>2. DeletesOwn(c)  BY <1>1, TargetOwn, TargetApp DEF DeletesOwn
  <1>3. PICK t, n : t = th[c] /\ n = th[c].tries + 1  OBVIOUS
  <1>4. ThreadOK(test, redirected, c, DOMAIN ctxs[c], t) /\ t.pc = "destroy"  BY <1>3, CallerFacts
  <1>5. \/ DestroyFails(c)
        \/ th' = [th EXCEPT ![c] = [t EXCEPT !.todo = t.todo \ {o}, !.tries = 0]]
        \/ n < MaxTries /\ th' = [th EXCEPT ![c] = [t EXCEPT !.tries = n]]
    BY <1>3 DEF DestroyObject, DestroyAttemptFails
  <1>6. test \in Tests /\ t.tries \in 0 .. test.tries - 1 /\ test.tries \in Nat
    BY <1>4, CallerFacts, SomeTry DEF ThreadOK
  <1>7. MovesOnly(c)
    <2>1. CASE DestroyFails(c)  BY <2>1, <1>1, DestroyFailsMoves
    <2>2. CASE th' = [th EXCEPT ![c] = [t EXCEPT !.todo = t.todo \ {o}, !.tries = 0]]
      <3> DEFINE u == [t EXCEPT !.todo = t.todo \ {o}, !.tries = 0]
      <3>0. IsThread(t)  BY <1>4 DEF ThreadOK
      <3>1. /\ IsThread(u) /\ u.pc = t.pc /\ u.call = t.call /\ u.i = t.i /\ u.app = t.app
            /\ u.ctx = t.ctx /\ u.ns = t.ns /\ u.todo = t.todo \ {o} /\ u.specs = t.specs /\ u.tries = 0
            /\ u.kind = t.kind
        BY <3>0 DEF IsThread, Fields
      <3>2. th' = [th EXCEPT ![c] = u]  BY <2>2
      <3> HIDE DEF u
      <3>3. th'[c] = u  BY <3>2, CallerFacts
      <3>4. ThreadOK(test, redirected, c, DOMAIN ctxs[c], u)  BY <1>4, <1>6, <3>1, SomeTry DEF ThreadOK
      <3> QED  BY <1>1, <1>3, <3>1, <3>2, <3>3, <3>4, CallerFacts DEF MovesOnly
    <2>3. CASE n < MaxTries /\ th' = [th EXCEPT ![c] = [t EXCEPT !.tries = n]]
      <3> DEFINE u == [t EXCEPT !.tries = n]
      <3>0. n \in 0 .. test.tries - 1 /\ IsThread(t)
        <4>1. IsThread(t)  BY <1>4 DEF ThreadOK
        <4>2. n \in 0 .. test.tries - 1  BY <1>3, <1>6, <2>3, SMT DEF MaxTries
        <4> QED  BY <4>1, <4>2
      <3>1. /\ IsThread(u) /\ u.pc = t.pc /\ u.call = t.call /\ u.i = t.i /\ u.app = t.app
            /\ u.ctx = t.ctx /\ u.ns = t.ns /\ u.todo = t.todo /\ u.specs = t.specs /\ u.tries = n
            /\ u.kind = t.kind
        BY <3>0 DEF IsThread, Fields
      <3>2. th' = [th EXCEPT ![c] = u]  BY <2>3
      <3> HIDE DEF u
      <3>3. th'[c] = u  BY <3>2, CallerFacts
      <3>4. ThreadOK(test, redirected, c, DOMAIN ctxs[c], u)  BY <1>4, <3>0, <3>1 DEF ThreadOK
      <3> QED  BY <1>1, <1>3, <3>1, <3>2, <3>3, <3>4, CallerFacts DEF MovesOnly
    <2> QED  BY <1>5, <2>1, <2>2, <2>3
  <1> QED  BY <1>1, <1>2, <1>7 DEF StepOf, CreatesFor, Leaves, Writes

LEMMA DestroyStepOf ==
    ASSUME AppsInv, NEW c \in Callers, DestroyStep(c), test' = test
    PROVE  StepOf(c)
  <1>1. th[c].pc = "destroy"  BY DEF DestroyStep
  <1>2. PICK o \in th[c].todo :
            DestroyObject(c, o) \/ DestroyRuleNotFound(c, o) \/ DestroyAttemptFails(c, o)
    BY DEF DestroyStep, NextObjects
  <1>3. CASE DestroyRuleNotFound(c, o)
    <2>1. /\ o.kind = "RuleOfOptions" /\ DestroyReturnsNil(c) /\ redirected' = redirected
          /\ cluster' = cluster /\ pods' = pods /\ specNS' = specNS /\ unclean' = unclean
      BY <1>3 DEF DestroyRuleNotFound, clusterVars
    <2>2. c \in test.rules  BY <1>1, <2>1, CallerFacts, KindsApart DEF ThreadOK, ObjectOK
    <2>3. /\ MovesOnly(c) /\ left' = left \cup th[c].specs
          /\ th'[c].pc = "running" /\ th'[c].call = "none" /\ th[c].ctx \notin DOMAIN ctxs'[c]
      BY <1>1, <2>1, DestroyReturnsNilMoves
    <2>4. Leaves(c)  BY <1>1, <2>1, <2>2, <2>3 DEF Leaves
    <2> QED  BY <2>1, <2>3, <2>4 DEF StepOf, CreatesFor, DeletesOwn, Writes
  <1> QED  BY <1>1, <1>2, <1>3, DestroyObjectStep

LEMMA DestroyReturnsStep ==
    ASSUME AppsInv, NEW c \in Callers, DestroyReturns(c), test' = test
    PROVE  StepOf(c)
  <1>1. /\ th[c].pc = "destroy" /\ th[c].todo = {} /\ redirected' = redirected
        /\ cluster' = cluster /\ pods' = pods /\ specNS' = specNS /\ unclean' = unclean
    BY DEF DestroyReturns, clusterVars
  <1>2. CASE DestroyReturnsNil(c) /\ (test.wait => WaitForDestroy(c))
    <2>1. /\ MovesOnly(c) /\ left' = left \cup th[c].specs
          /\ th'[c].pc = "running" /\ th'[c].call = "none" /\ th[c].ctx \notin DOMAIN ctxs'[c]
      BY <1>1, <1>2, DestroyReturnsNilMoves
    <2>2. Leaves(c)  BY <1>1, <1>2, <2>1 DEF Leaves
    <2> QED  BY <1>1, <2>1, <2>2 DEF StepOf, CreatesFor, DeletesOwn, Writes
  <1>3. CASE DestroyFails(c) /\ ctxs' = ctxs /\ left' = left
    <2>1. MovesOnly(c)  BY <1>1, <1>3, DestroyFailsMoves
    <2> QED  BY <1>1, <1>3, <2>1, QuietStep DEF Writes
  <1> QED  BY <1>2, <1>3 DEF DestroyReturns, WaitForGone

----------------------------------------------------------------------------
\* The invariant is inductive

\* Writing the namespace of a call keeps the shared specs those of some caller.
LEMMA WritesOK ==
    ASSUME AppsInv, NEW c \in Callers, Writes(c)
    PROVE  SharedOK(test, specNS')
  <1>1. CASE specNS' = specNS  BY <1>1, CallerFacts
  <1>2. ASSUME th[c].pc = "create", NEW k, SetSpecNS(th[c].app, k, th[c].ns)
        PROVE  SharedOK(test, specNS')
    <2>1. PICK a, s, n, m : a = th[c].app /\ s = th[c].ns /\ n = specNS /\ m = specNS'  OBVIOUS
    <2>2. SharedOK(test, n)  BY <2>1, CallerFacts
    <2>3. a \in Apps /\ GivenBy(test, a, s)
      <3>1. /\ a \in Apps /\ a \in RunsOf(test, c) /\ s = NsOf(test, th[c].ctx, c)
            /\ th[c].ctx \in KeysOf(test, c) /\ (a \in KeysOf(test, c) => th[c].ctx = a)
        BY <1>2, <2>1, CreatingFacts
      <3> QED  BY <3>1 DEF GivenBy
    <2>4. m = [n EXCEPT ![a] = [n[a] EXCEPT ![k] = s]]  BY <1>2, <2>1 DEF SetSpecNS
    <2>5. \A b \in Apps : m[b] = IF b = a THEN [n[a] EXCEPT ![k] = s] ELSE n[b]  BY <2>2, <2>4 DEF SharedOK
    <2>6. m = [b \in Apps |-> m[b]]  BY <2>2, <2>4 DEF SharedOK
    <2>7. ASSUME NEW b \in Apps
          PROVE  /\ m[b] = [j \in ParseSpecs(test.specs[b]) |-> m[b][j]]
                 /\ \A j \in ParseSpecs(test.specs[b]) : m[b][j] = NoNS \/ GivenBy(test, b, m[b][j])
      <3>1. /\ n[b] = [j \in ParseSpecs(test.specs[b]) |-> n[b][j]]
            /\ \A j \in ParseSpecs(test.specs[b]) : n[b][j] = NoNS \/ GivenBy(test, b, n[b][j])
        BY <2>2 DEF SharedOK
      <3>2. CASE b # a  BY <2>5, <3>1, <3>2
      <3>3. CASE b = a
        <4>1. PICK f, K : f = n[a] /\ K = ParseSpecs(test.specs[a])  OBVIOUS
        <4>2. m[b] = [f EXCEPT ![k] = s] /\ f = [j \in K |-> f[j]]  BY <2>5, <3>1, <3>3, <4>1
        <4>3. m[b] = [j \in K |-> IF j = k THEN s ELSE f[j]]  BY <4>2
        <4>4. \A j \in K : m[b][j] = s \/ m[b][j] = f[j]  BY <4>3
        <4>5. m[b] = [j \in K |-> m[b][j]]  BY <4>3
        <4> QED  BY <2>3, <3>1, <3>3, <4>1, <4>4, <4>5
      <3> QED  BY <3>2, <3>3
    <2>8. SharedOK(test, m)  BY <2>6, <2>7 DEF SharedOK
    <2> QED  BY <2>1, <2>8
  <1> QED  BY <1>1, <1>2 DEF Writes

\* A namespace stays retired.
LEMMA RetiredKept ==
    ASSUME AppsInv, NEW c \in Callers, MovesOnly(c), NEW n, Retired(n)
    PROVE  Retired(n)'
  <1>1. /\ th' = [th EXCEPT ![c] = th'[c]] /\ ctxs' = [ctxs EXCEPT ![c] = ctxs'[c]]
        /\ th[c].pc # "idle" /\ th[c].call # "schedule" =>
              /\ th'[c].pc # "idle" /\ th'[c].call # "schedule"
              /\ DOMAIN ctxs'[c] \subseteq DOMAIN ctxs[c]
    BY DEF MovesOnly
  <1>2. \A d \in Callers \ {c} : th'[d] = th[d] /\ ctxs'[d] = ctxs[d]  BY <1>1, CallerFacts
  <1> QED  BY <1>1, <1>2 DEF Retired

\* What a caller makes is in no retired namespace, unless it is redirected.
LEMMA NotRetired ==
    ASSUME AppsInv, NEW c \in Callers, NEW R, NEW o, Made(c, R, o), o.kind \notin ClusterScoped, o \notin R
    PROVE  ~ Retired(o.ns)
  <1> SUFFICES ASSUME Retired(o.ns) PROVE FALSE  OBVIOUS
  <1>1. th[c].pc = "create" /\ o.ns = th[c].ns  BY MadeFacts
  <1>2. o.ns = NsOf(test, th[c].ctx, c) /\ o.ns \in Apps \X Callers  BY <1>1, CreatingFacts DEF Retired
  <1>3. o.ns = <<th[c].ctx, c>>  BY <1>2, CallerFacts, NsFacts
  <1>4. o.ns[1] = th[c].ctx /\ o.ns[2] = c  BY <1>3, PairFacts
  <1>5. th[c].call # "schedule" => th[c].ctx \in DOMAIN ctxs[c]  BY <1>1, CallerFacts DEF ThreadOK
  <1> QED  BY <1>4, <1>5 DEF Retired

\* The namespace of a context that is gone is retired.
LEMMA LeftRetired ==
    ASSUME AppsInv, NEW c \in Callers, NEW R, NEW x \in KeysOf(test, c), NEW o, ObjectOK(test, R, x, c, o),
           o.kind \notin ClusterScoped, o \notin R, o.ns \in {NoNS} \cup (Apps \X Callers),
           th'[c].pc = "running", th'[c].call = "none", x \notin DOMAIN ctxs'[c]
    PROVE  Retired(o.ns)'
  <1>1. o.ns = NsOf(test, x, c) /\ test \in Tests  BY CallerFacts DEF ObjectOK
  <1>2. o.ns \in Apps \X Callers /\ o.ns = <<x, c>>  BY <1>1, NsFacts
  <1>3. o.ns[1] = x /\ o.ns[2] = c /\ o.ns = <<o.ns[1], o.ns[2]>>  BY <1>2, PairFacts
  <1> QED  BY <1>2, <1>3 DEF Retired

LEMMA StepKeepsInv ==
    ASSUME AppsInv, NEW c \in Callers, StepOf(c)
    PROVE  AppsInv'
  <1>1. MovesOnly(c) /\ CreatesFor(c) /\ Leaves(c) /\ SharedOK(test, specNS') /\ pods' = pods
    BY WritesOK DEF StepOf
  <1>2. /\ test' = test /\ th' = [th EXCEPT ![c] = th'[c]] /\ ctxs' = [ctxs EXCEPT ![c] = ctxs'[c]]
        /\ ThreadOK(test, redirected', c, DOMAIN ctxs'[c], th'[c])
        /\ ContextsOK(test, redirected', c, ctxs'[c]) /\ redirected \subseteq redirected'
    BY <1>1 DEF MovesOnly
  <1>3. /\ th' = [d \in Callers |-> th'[d]] /\ ctxs' = [d \in Callers |-> ctxs'[d]]
        /\ \A d \in Callers \ {c} : th'[d] = th[d] /\ ctxs'[d] = ctxs[d]
    BY <1>2, CallerFacts
  <1>4. CallersOK'
    <2>1. ASSUME NEW d \in Callers
          PROVE  /\ ThreadOK(test, redirected', d, DOMAIN ctxs'[d], th'[d])
                 /\ ContextsOK(test, redirected', d, ctxs'[d])
      <3>1. CASE d = c  BY <1>2, <3>1
      <3>2. CASE d # c
        <4>1. ThreadOK(test, redirected, d, DOMAIN ctxs[d], th[d]) /\ ContextsOK(test, redirected, d, ctxs[d])
          BY CallerFacts
        <4>2. ThreadOK(test, redirected', d, DOMAIN ctxs[d], th[d]) /\ ContextsOK(test, redirected', d, ctxs[d])
          BY <1>2, <4>1, MoreRedirected
        <4> QED  BY <1>3, <3>2, <4>2
      <3> QED  BY <3>1, <3>2
    <2> QED  BY <1>2, <1>3, <2>1 DEF CallersOK
  <1>5. GoneOK'
    <2>1. SUFFICES ASSUME test.wait, test.rules = {}, NEW o \in left', o.kind \in Workloads,
                          o.ns \in {NoNS} \cup (Apps \X Callers), o \notin redirected'
                   PROVE  o \notin cluster' \cup pods' /\ Retired(o.ns)'
      BY <1>2 DEF GoneOK, InOwnNamespace, InstanceNamespaces
    <2>2. o.kind \notin ClusterScoped  BY <2>1, KindsApart
    <2>3. CASE o \in left
      <3>1. o \notin cluster \cup pods /\ Retired(o.ns)
        BY <1>2, <2>1, <2>3 DEF AppsInv, GoneOK, InOwnNamespace, InstanceNamespaces
      <3>2. Retired(o.ns)'  BY <1>1, <3>1, RetiredKept
      <3>3. ~ Made(c, redirected', o)  BY <2>1, <2>2, <3>1, NotRetired
      <3> QED  BY <1>1, <3>1, <3>2, <3>3 DEF CreatesFor
    <2>4. CASE o \notin left
      <3>1. /\ o \in th[c].specs /\ cluster' = cluster /\ th[c].pc = "destroy" /\ redirected' = redirected
            /\ th'[c].pc = "running" /\ th'[c].call = "none"
            /\ th[c].ctx \notin DOMAIN ctxs'[c] /\ WaitForDestroy(c)
        BY <1>1, <2>1, <2>4 DEF Leaves
      <3>2. ObjectOK(test, redirected', th[c].ctx, c, o) /\ th[c].ctx \in KeysOf(test, c)
        BY <3>1, CallerFacts DEF ThreadOK
      <3>3. o \notin cluster' \cup pods'  BY <1>1, <2>1, <3>1 DEF WaitForDestroy
      <3>4. Retired(o.ns)'  BY <2>1, <2>2, <3>1, <3>2, LeftRetired
      <3> QED  BY <3>3, <3>4
    <2> QED  BY <2>3, <2>4
  <1> QED  BY <1>1, <1>2, <1>4, <1>5 DEF AppsInv

\* The cluster on its own removes objects, and starts pods only of what is there.
Quiet ==
    /\ test' = test /\ th' = th /\ ctxs' = ctxs /\ specNS' = specNS
    /\ left' = left /\ redirected' = redirected /\ unclean' = unclean
    /\ cluster' \subseteq cluster
    /\ \A o \in pods' : o \in pods \/ (o \in cluster /\ o.kind \in Workloads)

LEMMA ClusterKeepsInv ==
    ASSUME AppsInv, Quiet
    PROVE  AppsInv'
  <1>1. CallersOK'  BY DEF AppsInv, CallersOK, Quiet
  <1>2. \A n : Retired(n) => Retired(n)'  BY DEF Retired, Quiet
  <1>3. GoneOK'  BY <1>2 DEF AppsInv, GoneOK, InOwnNamespace, InstanceNamespaces, Quiet
  <1> QED  BY <1>1, <1>3 DEF AppsInv, Quiet

LEMMA InitInv == Init => AppsInv
  <1> SUFFICES ASSUME Init PROVE AppsInv  OBVIOUS
  <1>1. /\ test \in Tests /\ pods = {} /\ left = {}
        /\ specNS = [a \in Apps |-> [k \in SpecFactory[a] |-> NoNS]]
        /\ ctxs = [c \in Callers |-> <<>>] /\ th = [c \in Callers |-> Idle]
    BY DEF Init
  <1>2. /\ IsThread(Idle) /\ Idle.i \in Nat /\ Idle.pc = "idle" /\ Idle.tries = 0 /\ Idle.specs = {}
        /\ Idle.kind = "none"
    BY DEF Idle, IsThread, Fields
  <1>3. \A c : ThreadOK(test, redirected, c, DOMAIN <<>>, Idle)  BY <1>1, <1>2, SomeTry DEF ThreadOK
  <1>4. CallersOK  BY <1>1, <1>3, EmptyContexts DEF CallersOK
  <1>5. SharedOK(test, specNS)
    <2>1. \A a \in Apps : SpecFactory[a] = ParseSpecs(test.specs[a])  BY DEF SpecFactory, SpecDir
    <2> QED  BY <1>1, <2>1 DEF SharedOK
  <1> QED  BY <1>1, <1>4, <1>5 DEF AppsInv, GoneOK

\* Every step is a step of one caller, or the cluster's own.
LEMMA StepKinds ==
    ASSUME AppsInv, Next
    PROVE  (\E c \in Callers : StepOf(c)) \/ Quiet
  <1>0. test' = test  BY DEF Next
  <1>1. ASSUME NEW c \in Callers, Schedule(c)  PROVE StepOf(c)  BY <1>0, <1>1, ScheduleStep
  <1>2. ASSUME NEW c \in Callers, CallStep(c)  PROVE StepOf(c)
    BY <1>0, <1>2, CreateStepOf, HelmPrepareStep, HelmScheduleStep, AppCreatedStep, DestroyStepOf,
       DestroyReturnsStep DEF CallStep
  <1>3. ASSUME NEW c \in Callers, NEW a \in Apps, DestroyStart(c, a)  PROVE StepOf(c)
    BY <1>0, <1>3, DestroyStartStep
  <1>4. ASSUME NEW c \in Callers, NEW a \in Apps, NEW b \in Apps,
               ScheduleUninstall(c, a, b) \/ \E upgrade \in BOOLEAN : AddTasks(c, a, b, upgrade)
        PROVE  StepOf(c)
    BY <1>0, <1>4, AddTasksStep, ScheduleUninstallStep
  <1>5. ASSUME NEW o, PodsStart(o) \/ Vanish(o) \/ PodsStop(o) \/ DirsCleaned(o)
        PROVE  Quiet
    BY <1>0, <1>5 DEF PodsStart, Vanish, PodsStop, DirsCleaned, clusterVars, history, Quiet
  <1> QED  BY <1>1, <1>2, <1>3, <1>4, <1>5 DEF Next

LEMMA NextInv == AppsInv /\ [Next]_vars => AppsInv'
  <1>1. ASSUME AppsInv, Next  PROVE AppsInv'
    BY <1>1, StepKinds, StepKeepsInv, ClusterKeepsInv
  <1>2. ASSUME AppsInv, UNCHANGED vars  PROVE AppsInv'
    BY <1>2, ClusterKeepsInv DEF vars, Quiet
  <1> QED  BY <1>1, <1>2

----------------------------------------------------------------------------
\* The theorems

(* A Destroy that waits for its application (OptionsWaitForDestroy) and    *)
(* returns nil has left no pod of its workloads, and none ever comes back: *)
(* nothing is created in the namespace of a destroyed context again, save  *)
(* what another copy of the application, of which the spec objects are     *)
(* shared, was given there.                                                *)
THEOREM PodsStayGone == Spec => []DestroyWaitsForPods
  <1>1. ASSUME AppsInv, WaitForGone, RuleCallers = {}, NEW o \in left, InOwnNamespace(o), o \in pods
        PROVE  FALSE
    BY <1>1 DEF AppsInv, GoneOK, WaitForGone, RuleCallers
  <1>2. AppsInv => DestroyWaitsForPods  BY <1>1 DEF DestroyWaitsForPods
  <1> QED  BY <1>2, InitInv, NextInv, PTL DEF Spec

\* A step that changes a caller's call deletes nothing in another caller's namespaces.
LEMMA StepDeletesOwn ==
    ASSUME AppsInv, Next, NEW c \in Callers, NEW d \in Callers, c # d, th'[c] # th[c],
           NEW o \in cluster \ cluster', o.ns \in InstanceNamespaces, o \notin redirected,
           Unshared(c, o)
    PROVE  o.ns[2] # d
  <1>1. PICK e \in Callers : StepOf(e)  BY StepKinds DEF Quiet
  <1>2. th' = [th EXCEPT ![e] = th'[e]]  BY <1>1 DEF StepOf, MovesOnly
  <1>3. c = e  BY <1>2, CallerFacts
  <1>4. DeletesOwn(e)  BY <1>1 DEF StepOf
  <1> QED  BY <1>3, <1>4 DEF DeletesOwn, InstanceNamespaces

(* For any callers, applications, spec files and faults, no Schedule,      *)
(* AddTasks or Destroy of one caller removes an object from the namespaces *)
(* of another, save one it was given there because both run its application*)
(* and share the spec object (DeepCopy), and custom resources of such an   *)
(* application (destroyCustomResourceObjects uses the shared namespace).   *)
THEOREM OwnNamespaces == Spec => NoCrossDeletion
  <1>1. AppsInv /\ [Next]_vars =>
          [\A c, d \in Callers : c # d /\ th'[c] # th[c] =>
             \A o \in cluster \ cluster' :
                /\ o.ns \in InstanceNamespaces /\ o \notin redirected
                /\ o.kind = "CustomResource" => RunBy(o.app) \subseteq {c}
                => o.ns[2] # d]_vars
    BY StepDeletesOwn DEF Unshared
  <1> QED  BY <1>1, InitInv, NextInv, PTL DEF Spec, NoCrossDeletion
=============================================================================
