-------------------------- MODULE KubeClientProofs --------------------------
(***************************************************************************)
(* Proofs about the Kubernetes client (KubeClient), for every sequence of  *)
(* manifests, whatever their services expose, and with calls that fail, or *)
(* a process that stops, between any two calls.                            *)
(*                                                                         *)
(* RecordInv is what every step keeps: an object is the only one of its    *)
(* kind and name, the calls of a Deploy record the manifest before they    *)
(* apply anything, and no object is newer than the record.  With it, a     *)
(* Deploy that has not failed is on its way: each thing its manifest asks  *)
(* for is there or among the calls still to make (Reached), and when no    *)
(* call is left the cluster is what was asked for.  That last part needs   *)
(* NamesApart: Kubernetes tells services apart by name, and the name of a  *)
(* node port service must not be the name of another one.                  *)
(*                                                                         *)
(* DeployCalls concatenates one sequence per service.  That its elements   *)
(* are the elements of those sequences is shown by induction over their    *)
(* number, derived from the least number of a set (NumberInduction).       *)
(***************************************************************************)
EXTENDS KubeClient, WellFoundedInduction, TLAPS

\* Every set of numbers that is not empty has a least one.
LEMMA LeastNumber ==
    ASSUME NEW T, T \subseteq Nat, T # {}
    PROVE  \E m \in T : \A n \in T : m <= n
<1> DEFINE R == OpToRel(<, Nat)
<1>1. \A m, n \in Nat : <<n, m>> \in R <=> n < m
  BY DEF OpToRel
<1>2. IsWellFoundedOn(R, Nat)
  BY NatLessThanWellFounded
<1> HIDE DEF R
<1>3. PICK m \in T : \A n \in T : ~ (<<n, m>> \in R)
  BY <1>2, WFMin
<1>4. \A n \in T : ~ (n < m)
  BY <1>1, <1>3
<1> QED
  BY <1>4

\* Induction: a set of numbers that has 0, and n + 1 with every n, has all of them.
LEMMA NumberInduction ==
    ASSUME NEW P, 0 \in P, \A n \in Nat : n \in P => n + 1 \in P
    PROVE  \A n \in Nat : n \in P
<1> DEFINE B == Nat \ P
<1> SUFFICES ASSUME B # {} PROVE FALSE
  OBVIOUS
<1>1. PICK m \in B : \A n \in B : m <= n
  <2> HIDE DEF B
  <2>1. B \subseteq Nat
    BY DEF B
  <2> QED
    BY <2>1, LeastNumber
<1>2. m \in Nat /\ m # 0
  OBVIOUS
<1>3. m - 1 \in Nat /\ ~ (m <= m - 1)
  BY <1>2
<1>4. m - 1 \in P
  BY <1>1, <1>3
<1>5. (m - 1) + 1 = m
  BY <1>2
<1> QED
  BY <1>3, <1>4, <1>5

\* The elements of a sequence.
Elems(s) == {s[i] : i \in DOMAIN s}

\* Appending the calls of one loop to those of another gives the calls of both.
LEMMA ElemsAppended ==
    ASSUME NEW S, NEW a \in Seq(S), NEW b \in Seq(S)
    PROVE  a \o b \in Seq(S) /\ Elems(a \o b) = Elems(a) \cup Elems(b)
<1> DEFINE c == a \o b
<1>1. /\ c \in Seq(S) /\ Len(c) = Len(a) + Len(b)
      /\ \A i \in 1..Len(a) : c[i] = a[i]
      /\ \A i \in 1..Len(b) : c[Len(a) + i] = b[i]
      /\ \A i \in 1..Len(c) : i > Len(a) => c[i] = b[i - Len(a)]
  OBVIOUS
<1>2. /\ DOMAIN a = 1..Len(a) /\ DOMAIN b = 1..Len(b) /\ DOMAIN c = 1..Len(c)
      /\ Len(a) \in Nat /\ Len(b) \in Nat
  BY <1>1
<1> HIDE DEF c
<1>3. \A x \in Elems(a) : x \in Elems(c)
  BY <1>1, <1>2 DEF Elems
<1>4. \A x \in Elems(b) : x \in Elems(c)
  <2> SUFFICES ASSUME NEW i \in 1..Len(b) PROVE b[i] \in Elems(c)
    BY <1>2 DEF Elems
  <2>1. Len(a) + i \in DOMAIN c /\ c[Len(a) + i] = b[i]
    BY <1>1, <1>2
  <2> QED
    BY <2>1 DEF Elems
<1>5. \A x \in Elems(c) : x \in Elems(a) \cup Elems(b)
  <2> SUFFICES ASSUME NEW i \in 1..Len(c) PROVE c[i] \in Elems(a) \cup Elems(b)
    BY <1>2 DEF Elems
  <2>1. CASE i <= Len(a)
    BY <1>1, <1>2, <2>1 DEF Elems
  <2>2. CASE i > Len(a)
    <3>1. i - Len(a) \in DOMAIN b /\ c[i] = b[i - Len(a)]
      BY <1>1, <1>2, <2>2
    <3> QED
      BY <3>1 DEF Elems
  <2> QED
    BY <1>2, <2>1, <2>2
<1> QED
  BY <1>1, <1>3, <1>4, <1>5 DEF c

\* One round of the loop of Concat, and what it computes for the first n sequences.
\* The function that Concat defines, one argument at a time.
ConcatStep(seqs, g, i) == IF i = 0 THEN <<>> ELSE g[i - 1] \o seqs[i]

Concats(seqs, g, n) == g = [i \in 0..n |-> ConcatStep(seqs, g, i)]

\* Concat, which joins the calls of the loops of Deploy, takes the last value of
\* that function.
LEMMA ConcatDef ==
    ASSUME NEW seqs
    PROVE  Concat(seqs) = (CHOOSE g : Concats(seqs, g, Len(seqs)))[Len(seqs)]
  BY DEF Concat, Concats, ConcatStep

\* The recursive function of Concat exists.
LEMMA ConcatsExist ==
    ASSUME NEW seqs, NEW n \in Nat
    PROVE  \E g : Concats(seqs, g, n)
<1> DEFINE P == {m \in Nat : \E g : Concats(seqs, g, m)}
<1>1. 0 \in P
  <2> DEFINE g == [i \in 0..0 |-> <<>>]
  <2>1. \A i \in 0..0 : ConcatStep(seqs, g, i) = <<>>
    BY DEF ConcatStep
  <2>2. Concats(seqs, g, 0)
    BY <2>1 DEF Concats
  <2> QED
    BY <2>2
<1>2. ASSUME NEW m \in Nat, m \in P PROVE m + 1 \in P
  <2>1. PICK g : Concats(seqs, g, m)
    BY <1>2
  <2> DEFINE h == [i \in 0..(m + 1) |-> ConcatStep(seqs, g, i)]
  <2>2. \A i \in 0..m : h[i] = g[i]
    BY <2>1 DEF Concats
  <2> HIDE DEF h
  <2>3. ASSUME NEW i \in 0..(m + 1) PROVE ConcatStep(seqs, h, i) = ConcatStep(seqs, g, i)
    <3>1. CASE i = 0
      BY <3>1 DEF ConcatStep
    <3>2. CASE i # 0
      <4>1. i - 1 \in 0..m
        BY <3>2
      <4>2. h[i - 1] = g[i - 1]
        BY <2>2, <4>1
      <4> QED
        BY <3>2, <4>2 DEF ConcatStep
    <3> QED
      BY <3>1, <3>2
  <2>4. h = [i \in 0..(m + 1) |-> ConcatStep(seqs, h, i)]
    BY <2>3 DEF h
  <2>5. Concats(seqs, h, m + 1)
    BY <2>4 DEF Concats
  <2> QED
    BY <2>5
<1> HIDE DEF P
<1>3. n \in P
  BY <1>1, <1>2, NumberInduction
<1> QED
  BY <1>3 DEF P

\* Concat has the elements of the sequences it is given.
LEMMA ConcatFacts ==
    ASSUME NEW S, NEW seqs \in Seq(Seq(S))
    PROVE  /\ Concat(seqs) \in Seq(S)
           /\ Elems(Concat(seqs)) = UNION {Elems(seqs[k]) : k \in DOMAIN seqs}
<1> DEFINE n == Len(seqs)
           g == CHOOSE g : Concats(seqs, g, n)
           F == Concat(seqs)
<1>1. n \in Nat /\ DOMAIN seqs = 1..n /\ \A k \in 1..n : seqs[k] \in Seq(S)
  OBVIOUS
<1>2. Concats(seqs, g, n) /\ F = g[n]
  BY <1>1, ConcatsExist, ConcatDef
<1> HIDE DEF g, F, n
<1>3. \A i \in 0..n : g[i] = ConcatStep(seqs, g, i)
  BY <1>2 DEF Concats
<1> DEFINE Upto(m) == UNION {Elems(seqs[k]) : k \in 1..m}
           P == {m \in Nat : m \in 0..n => g[m] \in Seq(S) /\ Elems(g[m]) = Upto(m)}
<1>4. 0 \in P
  <2>1. g[0] = <<>>
    BY <1>1, <1>3 DEF ConcatStep
  <2>2. 1..0 = {}
    OBVIOUS
  <2>3. Upto(0) = {} /\ Elems(<<>>) = {} /\ <<>> \in Seq(S)
    BY <2>2 DEF Elems
  <2> HIDE DEF Upto
  <2> QED
    BY <2>1, <2>3
<1>5. ASSUME NEW m \in Nat, m \in P PROVE m + 1 \in P
  <2> SUFFICES ASSUME m + 1 \in 0..n
               PROVE  g[m + 1] \in Seq(S) /\ Elems(g[m + 1]) = Upto(m + 1)
    OBVIOUS
  <2>1. m \in 0..n /\ m + 1 \in 1..n /\ m + 1 # 0 /\ (m + 1) - 1 = m
    BY <1>1
  <2>2. g[m] \in Seq(S) /\ Elems(g[m]) = Upto(m)
    BY <1>5, <2>1
  <2>3. g[m + 1] = g[m] \o seqs[m + 1]
    BY <1>3, <2>1 DEF ConcatStep
  <2>4. seqs[m + 1] \in Seq(S)
    BY <1>1, <2>1
  <2>5. 1..(m + 1) = (1..m) \cup {m + 1}
    BY <2>1
  <2>6. Upto(m + 1) = Upto(m) \cup Elems(seqs[m + 1])
    BY <2>5
  <2> HIDE DEF Upto
  <2>7. /\ g[m] \o seqs[m + 1] \in Seq(S)
        /\ Elems(g[m] \o seqs[m + 1]) = Elems(g[m]) \cup Elems(seqs[m + 1])
    BY ONLY <2>2, <2>4, ElemsAppended
  <2> QED
    BY ONLY <2>2, <2>3, <2>6, <2>7
<1> HIDE DEF P
<1>6. n \in P
  BY <1>1, <1>4, <1>5, NumberInduction
<1>7. F \in Seq(S) /\ Elems(F) = Upto(n)
  BY <1>1, <1>2, <1>6 DEF P
<1> QED
  BY <1>1, <1>7 DEF F

\* The services of a manifest have a name that can be given to a node port service,
\* and expose ports.
LEMMA ServiceType ==
    ASSUME NEW v \in DOMAIN Manifests
    PROVE  /\ Manifests[v] \in Seq([name : DOMAIN NodePortName,
                                    expose : Seq([port : Nat, global : BOOLEAN])])
           /\ \A s \in Services(v) : /\ s.name \in DOMAIN NodePortName
                                     /\ s.expose \in Seq([port : Nat, global : BOOLEAN])
           /\ \A i \in DOMAIN Manifests[v] : Manifests[v][i] \in Services(v)
           /\ \A s \in Services(v) : \E i \in DOMAIN Manifests[v] : s = Manifests[v][i]
<1> DEFINE T == [name : DOMAIN NodePortName, expose : Seq([port : Nat, global : BOOLEAN])]
<1>1. Manifests \in Seq(Seq(T))
  BY KubeParameters
<1> HIDE DEF T
<1>2. Manifests[v] \in Seq(T)
  BY <1>1
<1>3. \A i \in DOMAIN Manifests[v] : Manifests[v][i] \in T
  BY <1>2
<1>4. \A s \in T : s.name \in DOMAIN NodePortName /\ s.expose \in Seq([port : Nat, global : BOOLEAN])
  BY DEF T
<1> QED
  BY <1>2, <1>3, <1>4 DEF Services, T

\* A call is what it was made from.
LEMMA CallFields ==
    \A op, kind, s : /\ Call(op, kind, s).op = op
                     /\ Call(op, kind, s).kind = kind
                     /\ Call(op, kind, s).service = s
  BY DEF Call

\* The calls that Deploy makes are calls.
LEMMA CallFacts ==
    \A s \in AllServices \cup {None} :
        /\ Call("namespace", "", s) \in CallType
        /\ Call("policy", "", s) \in CallType
        /\ Call("manifest", "", s) \in CallType
        /\ \A kind \in {"deployment", "ingress", "service"} : Call("cleanup", kind, s) \in CallType
        /\ \A kind \in {"deployment", "local", "global", "ingress"} : Call("apply", kind, s) \in CallType
  BY DEF Call, CallType

\* The same as ElemsAppended, for sequences of calls.
LEMMA CallsAppended ==
    \A a, b \in Seq(CallType) :
        a \o b \in Seq(CallType) /\ Elems(a \o b) = Elems(a) \cup Elems(b)
<1> TAKE a, b \in Seq(CallType)
<1> QED
  BY ElemsAppended

\* One element, or none.
LEMMA ElemsOfOne ==
    ASSUME NEW S, NEW x \in S
    PROVE  <<x>> \in Seq(S) /\ <<>> \in Seq(S) /\ Elems(<<x>>) = {x} /\ Elems(<<>>) = {}
  BY DEF Elems

\* The calls for one service are the ones it wants.
LEMMA ServiceCallsFacts ==
    ASSUME NEW v \in DOMAIN Manifests, NEW s \in Services(v)
    PROVE  ServiceCalls(s) \in Seq(CallType) /\ Elems(ServiceCalls(s)) = Wanted(s)
<1> DEFINE d == Call("apply", "deployment", s)
           l == Call("apply", "local", s)
           g == Call("apply", "global", s)
           e == Call("apply", "ingress", s)
           A == <<d>>
           B == IF AnyPort(s, FALSE) THEN <<l>> ELSE <<>>
           C == IF AnyPort(s, TRUE) THEN <<g>> ELSE <<>>
           seqs == [i \in DOMAIN s.expose |->
                      IF ShouldBeIngress(s.expose[i]) THEN <<e>> ELSE <<>>]
           D == Concat(seqs)
           ing == \E j \in DOMAIN s.expose : ShouldBeIngress(s.expose[j])
<1>0. s \in AllServices \cup {None}
  BY DEF AllServices
<1>1. d \in CallType /\ l \in CallType /\ g \in CallType /\ e \in CallType
  BY <1>0, CallFacts
<1>2. s.expose \in Seq([port : Nat, global : BOOLEAN])
  BY ServiceType
<1> HIDE DEF d, l, g, e
<1>3. seqs \in Seq(Seq(CallType))
  <2>1. <<e>> \in Seq(CallType) /\ <<>> \in Seq(CallType)
    BY <1>1, ElemsOfOne
  <2>2. DOMAIN s.expose = 1..Len(s.expose) /\ Len(s.expose) \in Nat
    BY <1>2
  <2> QED
    BY <2>1, <2>2
<1>4. D \in Seq(CallType) /\ Elems(D) = UNION {Elems(seqs[k]) : k \in DOMAIN seqs}
  BY <1>3, ConcatFacts
<1>5. Elems(D) = IF ing THEN {e} ELSE {}
  <2>1. \A k \in DOMAIN seqs : Elems(seqs[k]) = IF ShouldBeIngress(s.expose[k]) THEN {e} ELSE {}
    BY <1>1, ElemsOfOne
  <2>2. DOMAIN seqs = DOMAIN s.expose
    OBVIOUS
  <2> HIDE DEF D, seqs
  <2> QED
    BY <1>4, <2>1, <2>2
<1>6. A \in Seq(CallType) /\ Elems(A) = {d}
  BY <1>1, ElemsOfOne
<1>7. B \in Seq(CallType) /\ Elems(B) = IF AnyPort(s, FALSE) THEN {l} ELSE {}
  BY <1>1, ElemsOfOne
<1>8. C \in Seq(CallType) /\ Elems(C) = IF AnyPort(s, TRUE) THEN {g} ELSE {}
  BY <1>1, ElemsOfOne
<1>9. ServiceCalls(s) = ((A \o B) \o C) \o D
  BY DEF ServiceCalls, d, l, g, e
<1> HIDE DEF A, B, C, D
<1>10. A \o B \in Seq(CallType) /\ Elems(A \o B) = Elems(A) \cup Elems(B)
  BY ONLY <1>6, <1>7, CallsAppended
<1>11. (A \o B) \o C \in Seq(CallType) /\ Elems((A \o B) \o C) = Elems(A \o B) \cup Elems(C)
  BY ONLY <1>8, <1>10, CallsAppended
<1>12. /\ ((A \o B) \o C) \o D \in Seq(CallType)
       /\ Elems(((A \o B) \o C) \o D) = Elems((A \o B) \o C) \cup Elems(D)
  BY ONLY <1>4, <1>11, CallsAppended
<1>13. Wanted(s) = ((Elems(A) \cup Elems(B)) \cup Elems(C)) \cup Elems(D)
  BY <1>5, <1>6, <1>7, <1>8 DEF Wanted, d, l, g, e
<1> QED
  BY ONLY <1>9, <1>10, <1>11, <1>12, <1>13

\* The calls of a Deploy: no object is applied before the manifest is recorded,
\* every kind is cleaned up, and each service gets what it wants.
LEMMA DeployCallsFacts ==
    ASSUME NEW v \in DOMAIN Manifests
    PROVE  /\ DeployCalls(v) \in Seq(CallType)
           /\ DeployCalls(v) # <<>>
           /\ \A i \in DOMAIN DeployCalls(v) : DeployCalls(v)[i].op = "apply" =>
                 \E j \in 1..(i - 1) : DeployCalls(v)[j].op = "manifest"
           /\ \A s \in Services(v) : Wanted(s) \subseteq Elems(DeployCalls(v))
           /\ \A kind \in {"deployment", "ingress", "service"} :
                 Call("cleanup", kind, None) \in Elems(DeployCalls(v))
           /\ \A c \in Elems(DeployCalls(v)) : c.op = "apply" =>
                 \E s \in Services(v) : c \in Wanted(s)
<1> DEFINE m == Manifests[v]
           ns == Call("namespace", "", None)
           pol(s) == Call("policy", "", s)
           polOf(s) == IF AnyPort(s, TRUE) THEN <<pol(s)>> ELSE <<>>
           pols == [i \in DOMAIN m |-> polOf(m[i])]
           P == Concat(pols)
           Q == IF ~NetworkPoliciesEnabled THEN <<>> ELSE <<pol(None)>> \o P
           A == <<ns>> \o Q
           rec == Call("manifest", "", None)
           clean(kind) == Call("cleanup", kind, None)
           B == <<rec, clean("deployment"), clean("ingress"), clean("service")>>
           svcs == [i \in DOMAIN m |-> ServiceCalls(m[i])]
           C == Concat(svcs)
           q == DeployCalls(v)
<1>0. q = (A \o B) \o C
  BY DEF DeployCalls, PolicyCalls, PolicyOf
<1>1. /\ m \in Seq([name : DOMAIN NodePortName, expose : Seq([port : Nat, global : BOOLEAN])])
      /\ DOMAIN m = 1..Len(m) /\ Len(m) \in Nat
      /\ \A i \in DOMAIN m : m[i] \in Services(v)
      /\ \A s \in Services(v) : \E i \in DOMAIN m : s = m[i]
  <2>1. /\ m \in Seq([name : DOMAIN NodePortName, expose : Seq([port : Nat, global : BOOLEAN])])
        /\ \A i \in DOMAIN m : m[i] \in Services(v)
        /\ \A s \in Services(v) : \E i \in DOMAIN m : s = m[i]
    BY ServiceType
  <2>2. DOMAIN m = 1..Len(m) /\ Len(m) \in Nat
    <3> HIDE DEF m
    <3> QED BY <2>1
  <2> QED
    BY <2>1, <2>2
<1> HIDE DEF m
<1>a. /\ None \in AllServices \cup {None}
      /\ \A i \in DOMAIN m : m[i] \in AllServices \cup {None}
  BY <1>1 DEF AllServices
<1>2. /\ ns \in CallType /\ ns.op = "namespace" /\ rec \in CallType /\ rec.op = "manifest"
      /\ \A kind \in {"deployment", "ingress", "service"} :
            clean(kind) \in CallType /\ clean(kind).op = "cleanup"
      /\ pol(None) \in CallType /\ pol(None).op = "policy"
      /\ \A i \in DOMAIN m : pol(m[i]) \in CallType /\ pol(m[i]).op = "policy"
  BY <1>a, CallFacts, CallFields
<1> HIDE DEF ns, pol, rec, clean
<1>3. P \in Seq(CallType) /\ \A c \in Elems(P) : c.op = "policy"
  <2>1. \A i \in DOMAIN m : /\ pols[i] \in Seq(CallType)
                            /\ Elems(pols[i]) \subseteq {pol(m[i])}
    BY <1>2, ElemsOfOne
  <2>2. pols \in Seq(Seq(CallType)) /\ DOMAIN pols = DOMAIN m
    <3> HIDE DEF polOf
    <3> QED BY <1>1, <2>1
  <2> HIDE DEF pols
  <2>3. P \in Seq(CallType) /\ Elems(P) = UNION {Elems(pols[k]) : k \in DOMAIN pols}
    BY <2>2, ConcatFacts
  <2> HIDE DEF P
  <2> QED
    BY <1>2, <2>1, <2>2, <2>3
<1>4. /\ C \in Seq(CallType)
      /\ \A s \in Services(v) : Wanted(s) \subseteq Elems(C)
      /\ \A c \in Elems(C) : \E s \in Services(v) : c \in Wanted(s)
  <2>1. \A i \in DOMAIN m : svcs[i] \in Seq(CallType) /\ Elems(svcs[i]) = Wanted(m[i])
    BY <1>1, ServiceCallsFacts
  <2>2. svcs \in Seq(Seq(CallType)) /\ DOMAIN svcs = DOMAIN m
    BY <1>1, <2>1
  <2> HIDE DEF svcs
  <2>3. C \in Seq(CallType) /\ Elems(C) = UNION {Elems(svcs[k]) : k \in DOMAIN svcs}
    BY <2>2, ConcatFacts
  <2> HIDE DEF C, m
  <2> QED
    BY <1>1, <2>1, <2>2, <2>3
<1> HIDE DEF P, C
<1>5. A \in Seq(CallType) /\ \A c \in Elems(A) : c.op \in {"namespace", "policy"}
  <2>1. /\ <<ns>> \in Seq(CallType) /\ Elems(<<ns>>) = {ns}
        /\ <<pol(None)>> \in Seq(CallType) /\ Elems(<<pol(None)>>) = {pol(None)}
    BY <1>2, ElemsOfOne
  <2>2. /\ <<pol(None)>> \o P \in Seq(CallType)
        /\ Elems(<<pol(None)>> \o P) = Elems(<<pol(None)>>) \cup Elems(P)
    BY ONLY <1>3, <2>1, CallsAppended
  <2>3. Q \in Seq(CallType) /\ \A c \in Elems(Q) : c.op = "policy"
    <3>1. CASE NetworkPoliciesEnabled
      <4>1. Q = <<pol(None)>> \o P
        BY <3>1
      <4> HIDE DEF Q
      <4> QED
        BY <1>2, <1>3, <2>1, <2>2, <4>1
    <3>2. CASE ~NetworkPoliciesEnabled
      <4>1. Q = <<>>
        BY <3>2
      <4> HIDE DEF Q
      <4> QED
        BY <4>1 DEF Elems
    <3> QED
      BY <3>1, <3>2
  <2> HIDE DEF Q
  <2>4. A \in Seq(CallType) /\ Elems(A) = Elems(<<ns>>) \cup Elems(Q)
    BY <2>1, <2>3, CallsAppended
  <2> HIDE DEF A
  <2> QED
    BY <1>2, <2>1, <2>3, <2>4
<1> HIDE DEF A
<1>6. /\ B \in Seq(CallType) /\ B[1] = rec /\ Len(B) = 4
      /\ Elems(B) = {rec, clean("deployment"), clean("ingress"), clean("service")}
  <2>1. B \in Seq(CallType) /\ B[1] = rec /\ Len(B) = 4
    BY <1>2
  <2>2. DOMAIN B = {1, 2, 3, 4}
    OBVIOUS
  <2>3. Elems(B) = {B[1], B[2], B[3], B[4]}
    <3> HIDE DEF B
    <3> QED BY <2>2 DEF Elems
  <2> QED
    BY <2>1, <2>3
<1> HIDE DEF B
<1>7. A \o B \in Seq(CallType) /\ Elems(A \o B) = Elems(A) \cup Elems(B)
  BY ONLY <1>5, <1>6, CallsAppended
<1>8. (A \o B) \o C \in Seq(CallType) /\ Elems((A \o B) \o C) = Elems(A \o B) \cup Elems(C)
  BY ONLY <1>4, <1>7, CallsAppended
<1>9. q \in Seq(CallType) /\ Elems(q) = (Elems(A) \cup Elems(B)) \cup Elems(C)
  BY ONLY <1>0, <1>7, <1>8
<1>10. /\ Len(A) \in Nat /\ Len(q) = Len(A) + 4 + Len(C) /\ Len(C) \in Nat
       /\ \A i \in 1..Len(A) : q[i] = A[i]
       /\ q[Len(A) + 1] = rec
       /\ DOMAIN q = 1..Len(q) /\ DOMAIN A = 1..Len(A)
  <2>a. /\ Len(A) \in Nat /\ Len(C) \in Nat /\ Len(A \o B) = Len(A) + Len(B)
        /\ \A i \in 1..Len(A) : (A \o B)[i] = A[i]
        /\ \A i \in 1..Len(B) : (A \o B)[Len(A) + i] = B[i]
        /\ DOMAIN A = 1..Len(A)
    <3>1. A \in Seq(CallType) /\ B \in Seq(CallType) /\ C \in Seq(CallType)
      BY <1>4, <1>5, <1>6
    <3> QED
      BY ONLY <3>1
  <2>1. /\ Len(A) \in Nat /\ Len(C) \in Nat /\ Len(A \o B) = Len(A) + 4
        /\ \A i \in 1..Len(A) : (A \o B)[i] = A[i]
        /\ (A \o B)[Len(A) + 1] = B[1]
        /\ DOMAIN A = 1..Len(A)
    BY ONLY <1>6, <2>a
  <2>2. /\ Len(q) = Len(A \o B) + Len(C)
        /\ \A i \in 1..Len(A \o B) : q[i] = (A \o B)[i]
        /\ DOMAIN q = 1..Len(q)
    BY ONLY <1>0, <1>4, <1>7, <1>9
  <2>3. \A i \in 1..Len(A) : q[i] = A[i]
    BY ONLY <2>1, <2>2
  <2>4. q[Len(A) + 1] = rec
    BY ONLY <1>6, <2>1, <2>2
  <2> QED
    BY ONLY <2>1, <2>2, <2>3, <2>4
<1> HIDE DEF q
<1>11. ASSUME NEW i \in DOMAIN q, q[i].op = "apply"
       PROVE  \E j \in 1..(i - 1) : q[j].op = "manifest"
  <2>1. i \notin 1..Len(A)
    BY <1>5, <1>10, <1>11 DEF Elems
  <2>2. i # Len(A) + 1
    BY <1>2, <1>10, <1>11
  <2>3. Len(A) + 1 \in 1..(i - 1)
    BY <1>10, <2>1, <2>2
  <2> QED
    BY <1>2, <1>10, <2>3
<1>12. \A c \in Elems(q) : c.op = "apply" => c \in Elems(C)
  BY <1>2, <1>5, <1>6, <1>9
<1>13. q # <<>>
  BY <1>9, <1>10
<1> QED
  BY <1>4, <1>6, <1>9, <1>11, <1>12, <1>13 DEF q, clean

\* An object has the kind, name, service and version its builder gave it.
LEMMA ObjectFields ==
    \A kind, name, s, v :
        /\ Object(kind, name, s, v).kind = kind
        /\ Object(kind, name, s, v).name = name
        /\ Object(kind, name, s, v).service = s.name
        /\ Object(kind, name, s, v).version = v
        /\ Object(kind, name, s, v).ports = <<>>
  BY DEF Object

\* The two ways a call changes the objects: it deletes stale ones of its kind, or
\* puts one object of the version that is being deployed.
Deletes(c) ==
    /\ c.op = "cleanup"
    /\ objects' \subseteq objects
    /\ \A x \in objects : x \in objects' \/ x \in Stale(c.kind)
    /\ \A x \in objects' : x \in Stale(c.kind) => c.kind = "service" /\ Stale("service") # {}

Puts(c, o) ==
    /\ c.op \in {"policy", "apply"}
    /\ o.version = deploying
    /\ o.service = c.service.name
    /\ c.op = "policy" => o.kind = "policy"
    /\ c.op = "apply" => /\ o.kind = ObjectKind(c)
                         /\ o.kind \in {"deployment", "ingress", "service"}
                         /\ c.kind \in {"deployment", "ingress", "local", "global"}
                         /\ o.name = ObjectName(c)
    /\ \A x \in objects : x.kind = o.kind /\ x.name = o.name =>
          \A p \in DOMAIN x.ports \cap DOMAIN o.ports : x.ports[p] = o.ports[p]
    /\ o \in objects'
    /\ \A x \in objects' : x = o \/ (x \in objects /\ (x.kind # o.kind \/ x.name # o.name))
    /\ \A x \in objects : x \in objects' \/ (x.kind = o.kind /\ x.name = o.name)

\* Every call of apply.go and cleanup.go changes the record only when it is that of
\* the manifest, and the objects in one of the two ways.
LEMMA EffectFacts ==
    ASSUME NEW c, Effect(c)
    PROVE  /\ namespace' \in {namespace, "active"}
           /\ recorded' = IF c.op = "manifest" THEN deploying ELSE recorded
           /\ objects' = objects \/ Deletes(c) \/ \E o : Puts(c, o)
           /\ c.op \in {"cleanup"} => Deletes(c)
           /\ c.op = "apply" => \E o : Puts(c, o)
<1>1. CASE c.op = "namespace" /\ namespace' = "active" /\ UNCHANGED <<objects, recorded>>
  BY <1>1
<1>2. CASE c.op = "manifest" /\ recorded' = deploying /\ UNCHANGED <<namespace, objects>>
  BY <1>2
<1>3. CASE /\ c.op = "cleanup"
           /\ IF c.kind = "service" /\ Stale(c.kind) # {}
              THEN \E x \in Stale(c.kind) : objects' = objects \ {x}
              ELSE objects' = objects \ Stale(c.kind)
           /\ UNCHANGED <<namespace, recorded>>
  <2>1. CASE c.kind = "service" /\ Stale(c.kind) # {}
    BY <1>3, <2>1 DEF Deletes
  <2>2. CASE ~(c.kind = "service" /\ Stale(c.kind) # {})
    BY <1>3, <2>2 DEF Deletes
  <2> QED
    BY <2>1, <2>2
<1>4. ASSUME NEW o, c.op \in {"policy", "apply"}, Apply(o), UNCHANGED <<namespace, recorded>>,
             o.version = deploying, o.service = c.service.name,
             c.op = "policy" => o.kind = "policy",
             c.op = "apply" => /\ o.kind = ObjectKind(c)
                               /\ o.kind \in {"deployment", "ingress", "service"}
                               /\ c.kind \in {"deployment", "ingress", "local", "global"}
                               /\ o.name = ObjectName(c),
             \A x \in objects : x.kind = o.kind /\ x.name = o.name =>
                 \A p \in DOMAIN x.ports \cap DOMAIN o.ports : x.ports[p] = o.ports[p]
      PROVE  /\ namespace' \in {namespace, "active"}
             /\ recorded' = IF c.op = "manifest" THEN deploying ELSE recorded
             /\ c.op # "cleanup" /\ Puts(c, o)
  <2>1. /\ o \in objects'
        /\ \A x \in objects' : x = o \/ (x \in objects /\ (x.kind # o.kind \/ x.name # o.name))
        /\ \A x \in objects : x \in objects' \/ (x.kind = o.kind /\ x.name = o.name)
    BY <1>4 DEF Apply
  <2> QED
    BY <1>4, <2>1 DEF Puts
<1>5. CASE c.op = "policy" /\ Apply(Object("policy", c.service.name, c.service, deploying))
           /\ UNCHANGED <<namespace, recorded>>
  <2> DEFINE o == Object("policy", c.service.name, c.service, deploying)
  <2>1. /\ o.version = deploying /\ o.service = c.service.name /\ o.kind = "policy"
        /\ o.ports = <<>>
    BY ObjectFields
  <2>2. Apply(o) /\ DOMAIN o.ports = {}
    BY <1>5, <2>1
  <2> HIDE DEF o
  <2>3. Puts(c, o) /\ recorded' = recorded /\ namespace' = namespace
    BY <1>4, <1>5, <2>1, <2>2
  <2> QED
    BY <1>5, <2>3
<1>6. CASE /\ c.op = "apply"
           /\ c.kind \in {"deployment", "ingress"}
           /\ Apply(Object(c.kind, c.service.name, c.service, deploying))
           /\ UNCHANGED <<namespace, recorded>>
  <2> DEFINE o == Object(c.kind, c.service.name, c.service, deploying)
  <2>1. /\ o.version = deploying /\ o.service = c.service.name /\ o.kind = c.kind
        /\ o.name = c.service.name /\ o.ports = <<>>
    BY ObjectFields
  <2>2. Apply(o) /\ DOMAIN o.ports = {} /\ ObjectKind(c) = c.kind /\ ObjectName(c) = c.service.name
    BY <1>6, <2>1 DEF ObjectKind, ObjectName, ServiceName
  <2> HIDE DEF o
  <2>3. Puts(c, o) /\ recorded' = recorded /\ namespace' = namespace
    BY <1>4, <1>6, <2>1, <2>2
  <2> QED
    BY <1>6, <2>3
<1>7. CASE /\ c.op = "apply"
           /\ c.kind = "local"
           /\ Apply(Object("service", ServiceName(c.service, FALSE), c.service, deploying))
           /\ UNCHANGED <<namespace, recorded>>
  <2> DEFINE o == Object("service", ServiceName(c.service, FALSE), c.service, deploying)
  <2>1. /\ o.version = deploying /\ o.service = c.service.name /\ o.kind = "service"
        /\ o.name = ServiceName(c.service, FALSE) /\ o.ports = <<>>
    BY DEF Object
  <2>2. /\ Apply(o) /\ DOMAIN o.ports = {} /\ ObjectKind(c) = "service"
        /\ ObjectName(c) = ServiceName(c.service, FALSE)
    BY <1>7, <2>1 DEF ObjectKind, ObjectName, ServiceName
  <2> HIDE DEF o
  <2>a. c.op \in {"policy", "apply"} /\ c.op # "policy" /\ UNCHANGED <<namespace, recorded>>
    BY <1>7
  <2>b. /\ o.kind = ObjectKind(c) /\ o.kind \in {"deployment", "ingress", "service"}
        /\ c.kind \in {"deployment", "ingress", "local", "global"} /\ o.name = ObjectName(c)
    BY <1>7, <2>1, <2>2
  <2>c. /\ Apply(o) /\ o.version = deploying /\ o.service = c.service.name
        /\ \A x \in objects : x.kind = o.kind /\ x.name = o.name =>
              \A p \in DOMAIN x.ports \cap DOMAIN o.ports : x.ports[p] = o.ports[p]
    BY <2>1, <2>2
  <2>3. Puts(c, o) /\ recorded' = recorded /\ namespace' = namespace
    BY <1>4, <2>a, <2>b, <2>c
  <2> QED
    BY <1>7, <2>3
<1>8. CASE /\ c.op = "apply"
           /\ c.kind = "global"
           /\ ApplyGlobal(c.service)
           /\ UNCHANGED <<namespace, recorded>>
  <2> DEFINE b == Object("service", ServiceName(c.service, TRUE), c.service, deploying)
             old == {x \in objects : x.kind = b.kind /\ x.name = b.name}
  <2>1. PICK given \in [Ports(c.service) -> NodePorts] :
          /\ \A x \in old : \A p \in Ports(c.service) \cap DOMAIN x.ports : given[p] = x.ports[p]
          /\ Apply([b EXCEPT !.ports = given])
    BY <1>8 DEF ApplyGlobal
  <2> DEFINE o == [b EXCEPT !.ports = given]
  <2>2. /\ o.version = deploying /\ o.service = c.service.name /\ o.kind = "service"
        /\ o.name = ServiceName(c.service, TRUE) /\ o.ports = given
        /\ b.kind = "service" /\ b.name = ServiceName(c.service, TRUE)
    BY DEF Object
  <2>3. DOMAIN o.ports = Ports(c.service)
    BY <2>2
  <2>4. /\ Apply(o) /\ ObjectKind(c) = "service"
        /\ ObjectName(c) = ServiceName(c.service, TRUE)
    BY <1>8, <2>1 DEF ObjectKind, ObjectName, ServiceName
  <2>5. \A x \in objects : x.kind = o.kind /\ x.name = o.name => x \in old
    <3> HIDE DEF o, b
    <3> QED BY <2>2
  <2> HIDE DEF o, old, b
  <2>6. \A x \in objects : x.kind = o.kind /\ x.name = o.name =>
           \A p \in DOMAIN x.ports \cap DOMAIN o.ports : x.ports[p] = o.ports[p]
    BY <2>1, <2>2, <2>3, <2>5
  <2>a. c.op \in {"policy", "apply"} /\ c.op # "policy" /\ UNCHANGED <<namespace, recorded>>
    BY <1>8
  <2>b. /\ o.kind = ObjectKind(c) /\ o.kind \in {"deployment", "ingress", "service"}
        /\ c.kind \in {"deployment", "ingress", "local", "global"} /\ o.name = ObjectName(c)
    BY <1>8, <2>2, <2>4
  <2>c. /\ Apply(o) /\ o.version = deploying /\ o.service = c.service.name
        /\ \A x \in objects : x.kind = o.kind /\ x.name = o.name =>
              \A p \in DOMAIN x.ports \cap DOMAIN o.ports : x.ports[p] = o.ports[p]
    BY <2>2, <2>4, <2>6
  <2>7. Puts(c, o) /\ recorded' = recorded /\ namespace' = namespace
    BY <1>4, <2>a, <2>b, <2>c
  <2> QED
    BY <1>8, <2>7
<1> QED
  BY <1>1, <1>2, <1>3, <1>5, <1>6, <1>7, <1>8 DEF Effect

\* What a step does to the objects: nothing that is named is deleted, no port moves.
ServicesKept ==
    \A x \in objects : x.service \in Names(deploying) =>
        \E y \in objects' : y.kind = x.kind /\ y.name = x.name

PortsKept ==
    \A x \in objects, y \in objects' :
        x.kind = y.kind /\ x.name = y.name =>
            \A p \in DOMAIN x.ports \intersect DOMAIN y.ports : x.ports[p] = y.ports[p]

ObjectsOK ==
    \A x \in objects : /\ x.kind \in {"policy", "deployment", "ingress", "service"}
                       /\ x.version \in Nat

\* So a call of a Deploy keeps objects unique and no newer than the record, deletes
\* no service that the manifest still names, and changes no node port.
LEMMA EffectKeeps ==
    ASSUME RecordInv, deploying # 0, NEW c, Effect(c),
           c.op = "apply" => recorded = deploying
    PROVE  /\ ObjectsOK' /\ Unique' /\ WorkloadsAreRecorded'
           /\ recorded' \in 0..accepted /\ recorded' <= deploying
           /\ namespace' \in {"none", "active"}
           /\ ServicesKept /\ PortsKept
<1>1. /\ ObjectsOK /\ Unique /\ WorkloadsAreRecorded
      /\ deploying \in 0..accepted /\ recorded \in 0..accepted /\ accepted \in Nat
      /\ recorded <= deploying /\ namespace \in {"none", "active"}
  BY DEF RecordInv, TypeOK, OneDeploy, ObjectsOK
<1>2. /\ namespace' \in {namespace, "active"}
      /\ recorded' = IF c.op = "manifest" THEN deploying ELSE recorded
      /\ objects' = objects \/ Deletes(c) \/ \E o : Puts(c, o)
      /\ c.op = "apply" => \E o : Puts(c, o)
  BY EffectFacts
<1>3. /\ recorded' \in 0..accepted /\ recorded' <= deploying /\ recorded <= recorded'
      /\ namespace' \in {"none", "active"}
  BY <1>1, <1>2
<1>4. \A x \in objects : x.kind # "policy" => x.version <= recorded'
  BY <1>1, <1>3 DEF WorkloadsAreRecorded, ObjectsOK
<1>5. CASE objects' \subseteq objects /\ (objects' = objects \/ Deletes(c))
  <2>1. ObjectsOK' /\ Unique' /\ WorkloadsAreRecorded'
    BY <1>1, <1>4, <1>5 DEF ObjectsOK, Unique, WorkloadsAreRecorded
  <2>2. PortsKept
    BY <1>1, <1>5 DEF Unique, PortsKept
  <2>3. ServicesKept
    BY <1>5 DEF ServicesKept, Deletes, Stale
  <2> QED
    BY <1>3, <2>1, <2>2, <2>3
<1>6. ASSUME NEW o, Puts(c, o)
      PROVE  ObjectsOK' /\ Unique' /\ WorkloadsAreRecorded' /\ ServicesKept /\ PortsKept
  <2>1. /\ o \in objects' /\ o.version = deploying
        /\ o.kind \in {"policy", "deployment", "ingress", "service"}
        /\ o.kind # "policy" => recorded = deploying /\ c.op = "apply"
        /\ \A x \in objects' : x = o \/ (x \in objects /\ (x.kind # o.kind \/ x.name # o.name))
        /\ \A x \in objects : x \in objects' \/ (x.kind = o.kind /\ x.name = o.name)
        /\ \A x \in objects : x.kind = o.kind /\ x.name = o.name =>
              \A p \in DOMAIN x.ports \cap DOMAIN o.ports : x.ports[p] = o.ports[p]
    BY <1>6 DEF Puts
  <2>2. ObjectsOK'
    BY <1>1, <2>1 DEF ObjectsOK
  <2>3. Unique'
    BY <1>1, <2>1 DEF Unique
  <2>4. WorkloadsAreRecorded'
    <3>1. o.kind # "policy" => o.version <= recorded'
      BY <1>1, <1>2, <2>1
    <3> QED
      BY <1>4, <2>1, <3>1 DEF WorkloadsAreRecorded
  <2>5. ServicesKept
    BY <2>1 DEF ServicesKept
  <2>6. PortsKept
    BY <1>1, <2>1 DEF Unique, PortsKept
  <2> QED
    BY <2>2, <2>3, <2>4, <2>5, <2>6
<1> QED
  BY <1>2, <1>3, <1>5, <1>6 DEF Deletes

\* A step that leaves the objects and the record alone keeps what is said of them.
LEMMA QuietKeeps ==
    ASSUME RecordInv, UNCHANGED <<objects, recorded>>
    PROVE  /\ ObjectsOK' /\ Unique' /\ WorkloadsAreRecorded'
           /\ ServicesKept /\ PortsKept
<1>1. ObjectsOK /\ Unique /\ WorkloadsAreRecorded
  BY DEF RecordInv, TypeOK, ObjectsOK
<1>2. ObjectsOK' /\ Unique' /\ WorkloadsAreRecorded'
  BY <1>1 DEF ObjectsOK, Unique, WorkloadsAreRecorded
<1>3. ServicesKept /\ PortsKept
  BY <1>1 DEF ServicesKept, PortsKept, Unique
<1> QED
  BY <1>2, <1>3

\* The calls that remain are calls, and still record first.
LEMMA HeadAndTail ==
    ASSUME RecordInv, todo # <<>>
    PROVE  /\ Head(todo) \in CallType /\ Head(todo) = todo[1] /\ Len(todo) \in Nat \ {0}
           /\ Head(todo) \in Pending
           /\ Tail(todo) \in Seq(CallType)
           /\ \A i \in DOMAIN Tail(todo) : i \in Nat /\ i + 1 \in DOMAIN todo /\ Tail(todo)[i] = todo[i + 1]
           /\ Elems(todo) = {Head(todo)} \cup Elems(Tail(todo))
           /\ deploying # 0
           /\ Head(todo).op = "apply" => recorded = deploying
<1>1. todo \in Seq(CallType) /\ RecordFirst /\ deploying # 0
  BY DEF RecordInv, TypeOK, OneDeploy
<1>2. /\ Head(todo) \in CallType /\ Head(todo) = todo[1] /\ Len(todo) \in Nat \ {0}
      /\ DOMAIN todo = 1..Len(todo)
      /\ Tail(todo) \in Seq(CallType) /\ Len(Tail(todo)) = Len(todo) - 1
      /\ DOMAIN Tail(todo) = 1..Len(Tail(todo))
      /\ \A i \in 1..Len(Tail(todo)) : Tail(todo)[i] = todo[i + 1]
  BY <1>1
<1>3. \A i \in DOMAIN Tail(todo) : i \in Nat /\ i + 1 \in DOMAIN todo /\ Tail(todo)[i] = todo[i + 1]
  BY <1>2
<1>4. Elems(todo) = {Head(todo)} \cup Elems(Tail(todo))
  <2>1. \A i \in DOMAIN todo : i # 1 => i - 1 \in DOMAIN Tail(todo) /\ todo[i] = Tail(todo)[i - 1]
    BY <1>2
  <2>2. 1 \in DOMAIN todo
    BY <1>2
  <2>3. ASSUME NEW i \in DOMAIN todo PROVE todo[i] \in {Head(todo)} \cup Elems(Tail(todo))
    BY <1>2, <2>1 DEF Elems
  <2>4. Head(todo) \in Elems(todo) /\ \A i \in DOMAIN Tail(todo) : Tail(todo)[i] \in Elems(todo)
    BY <1>2, <1>3, <2>2 DEF Elems
  <2> QED
    BY <2>3, <2>4 DEF Elems
<1>5. Head(todo).op = "apply" => recorded = deploying
  <2> SUFFICES ASSUME todo[1].op = "apply", recorded # deploying PROVE FALSE
    BY <1>2
  <2>1. 1 \in DOMAIN todo
    BY <1>2
  <2>2. \E j \in 1..(1 - 1) : todo[j].op = "manifest"
    BY <1>1, <2>1 DEF RecordFirst
  <2> QED
    BY <2>2
<1> QED
  BY <1>1, <1>2, <1>3, <1>4, <1>5 DEF Pending

\* A Deploy that begins with version v.
LEMMA BeginFacts ==
    ASSUME RecordInv, NEW v \in DOMAIN Manifests, Begin(v)
    PROVE  /\ todo' \in Seq(CallType) /\ todo' # <<>>
           /\ \A i \in DOMAIN todo' : todo'[i].op = "apply" =>
                 \E j \in 1..(i - 1) : todo'[j].op = "manifest"
           /\ deploying' = v /\ v # 0 /\ v \in 1..Len(Manifests)
<1>1. DOMAIN Manifests = 1..Len(Manifests) /\ Len(Manifests) \in Nat
  BY KubeParameters
<1>2. todo' = DeployCalls(v) /\ deploying' = v
  BY DEF Begin
<1> QED
  BY <1>1, <1>2, DeployCallsFacts

\* The calls of a Deploy go on where they were.
LEMMA RestFacts ==
    ASSUME RecordInv, todo # <<>>, NEW rec,
           Head(todo).op = "manifest" => rec = deploying,
           rec # deploying => recorded # deploying
    PROVE  /\ Rest \in Seq(CallType)
           /\ \A i \in DOMAIN Rest : Rest[i].op = "apply" /\ rec # deploying =>
                 \E j \in 1..(i - 1) : Rest[j].op = "manifest"
<1>1. todo \in Seq(CallType) /\ RecordFirst
  BY DEF RecordInv, TypeOK
<1>2. CASE Rest = todo
  BY <1>1, <1>2 DEF RecordFirst
<1>3. CASE Rest = Tail(todo)
  <2> SUFFICES ASSUME NEW i \in DOMAIN Tail(todo), Tail(todo)[i].op = "apply", rec # deploying
               PROVE  \E j \in 1..(i - 1) : Tail(todo)[j].op = "manifest"
    BY <1>3, HeadAndTail
  <2>1. i \in Nat /\ i + 1 \in DOMAIN todo /\ Tail(todo)[i] = todo[i + 1]
    BY HeadAndTail
  <2>2. PICK j \in 1..((i + 1) - 1) : todo[j].op = "manifest"
    BY <1>1, <2>1 DEF RecordFirst
  <2>3. j # 1
    BY <2>2, HeadAndTail
  <2>4. /\ j - 1 \in 1..(i - 1) /\ j - 1 \in DOMAIN Tail(todo) /\ (j - 1) + 1 = j
    <3>1. DOMAIN Tail(todo) = 1..Len(Tail(todo)) /\ Len(Tail(todo)) \in Nat
      BY HeadAndTail
    <3> QED
      BY <2>1, <2>2, <2>3, <3>1
  <2>5. Tail(todo)[j - 1] = todo[j]
    BY <2>4, HeadAndTail
  <2> QED
    BY <2>2, <2>4, <2>5
<1> QED
  BY <1>2, <1>3 DEF Rest

\* And after a policy failed, from the first call that is none of a policy.
LEMMA SkipFacts ==
    ASSUME RecordInv, todo # <<>>, Head(todo).op = "policy",
           NEW n \in DOMAIN todo, todo[n].op # "policy",
           \A i \in 1..(n - 1) : todo[i].op = "policy"
    PROVE  LET q == SubSeq(todo, n, Len(todo))
           IN  /\ q \in Seq(CallType) /\ q # <<>>
               /\ \A i \in DOMAIN q : q[i].op = "apply" /\ recorded # deploying =>
                     \E j \in 1..(i - 1) : q[j].op = "manifest"
               /\ Elems(q) \subseteq Elems(todo)
               /\ \A c \in Elems(todo) : c \in Elems(q) \/ c.op = "policy"
<1> DEFINE q == SubSeq(todo, n, Len(todo))
<1>1. todo \in Seq(CallType) /\ RecordFirst
  BY DEF RecordInv, TypeOK
<1>2. n \in 1..Len(todo) /\ Len(todo) \in Nat /\ DOMAIN todo = 1..Len(todo)
  BY <1>1
<1>3. /\ q \in Seq(CallType)
      /\ Len(q) = Len(todo) - n + 1
      /\ \A i \in 1..Len(q) : q[i] = todo[n + i - 1]
  BY <1>1, <1>2
<1>4. DOMAIN q = 1..Len(q)
  BY <1>3
<1> HIDE DEF q
<1>5. q # <<>>
  BY <1>2, <1>3
<1>6. ASSUME NEW i \in DOMAIN q, q[i].op = "apply", recorded # deploying
      PROVE  \E j \in 1..(i - 1) : q[j].op = "manifest"
  <2>1. n + i - 1 \in DOMAIN todo /\ todo[n + i - 1].op = "apply"
    BY <1>2, <1>3, <1>4, <1>6
  <2>2. PICK j \in 1..((n + i - 1) - 1) : todo[j].op = "manifest"
    BY <1>1, <1>6, <2>1 DEF RecordFirst
  <2>3. j \notin 1..(n - 1)
    BY <2>2
  <2>4. /\ j - n + 1 \in 1..(i - 1) /\ j - n + 1 \in 1..Len(q) /\ n + (j - n + 1) - 1 = j
    BY <1>2, <1>3, <1>4, <2>3
  <2> QED
    BY <1>3, <2>2, <2>4
<1>7. \A i \in DOMAIN q : n + i - 1 \in DOMAIN todo /\ q[i] = todo[n + i - 1]
  BY <1>2, <1>3, <1>4
<1>8. ASSUME NEW i \in DOMAIN todo PROVE todo[i] \in Elems(q) \/ todo[i].op = "policy"
  <2>1. CASE i \in 1..(n - 1)
    BY <2>1
  <2>2. CASE i \notin 1..(n - 1)
    <3>1. i - n + 1 \in DOMAIN q /\ n + (i - n + 1) - 1 = i
      BY <1>2, <1>3, <1>4, <2>2
    <3>2. q[i - n + 1] = todo[i]
      BY <1>7, <3>1
    <3> QED
      BY <3>1, <3>2 DEF Elems
  <2> QED
    BY <2>1, <2>2
<1>9. Elems(q) \subseteq Elems(todo)
  BY <1>7 DEF Elems
<1>10. \A c \in Elems(todo) : c \in Elems(q) \/ c.op = "policy"
  <2> SUFFICES ASSUME NEW c \in Elems(todo) PROVE c \in Elems(q) \/ c.op = "policy"
    OBVIOUS
  <2>1. PICK i \in DOMAIN todo : c = todo[i]
    BY DEF Elems
  <2> QED
    BY <1>8, <2>1
<1>11. q \in Seq(CallType)
  BY <1>3
<1> QED
  BY ONLY <1>5, <1>6, <1>9, <1>10, <1>11 DEF q

\* What every step keeps, and what it may never do, whatever the services are
\* called.
LEMMA RecordPreserves ==
    ASSUME RecordInv, [Next]_vars
    PROVE  /\ RecordInv'
           /\ deploying # 0 /\ deploying' \in {deploying, 0} => ServicesKept
           /\ PortsKept
<1>0. /\ accepted \in 0..Len(Manifests) /\ Len(Manifests) \in Nat
      /\ DOMAIN Manifests = 1..Len(Manifests)
      /\ deploying \in 0..accepted /\ deployed \in 0..accepted /\ recorded \in 0..accepted
      /\ manager \in {"new", "up", "gone", "killed", "closed"}
      /\ namespace \in {"none", "active", "deleting"}
      /\ todo \in Seq(CallType) /\ ObjectsOK
      /\ OneDeploy /\ Unique /\ RecordFirst /\ WorkloadsAreRecorded
  BY KubeParameters DEF RecordInv, TypeOK, ObjectsOK
<1>q. ASSUME UNCHANGED <<objects, recorded>>
      PROVE  ObjectsOK' /\ Unique' /\ WorkloadsAreRecorded' /\ ServicesKept /\ PortsKept
  BY <1>q, QuietKeeps
\* What remains to show of a step.
<1>s. ASSUME accepted' \in 0..Len(Manifests),
             deploying' \in 0..accepted', deployed' \in 0..accepted', recorded' \in 0..accepted',
             manager' \in {"new", "up", "gone", "killed", "closed"},
             namespace' \in {"none", "active", "deleting"},
             todo' \in Seq(CallType), ObjectsOK',
             OneDeploy', Unique', RecordFirst', WorkloadsAreRecorded'
      PROVE  RecordInv'
  BY <1>s DEF RecordInv, TypeOK, ObjectsOK
<1>1. CASE Deploy
  <2>1. /\ manager \in {"new", "up"} /\ deploying = 0 /\ accepted < Len(Manifests)
        /\ accepted' = accepted + 1 /\ manager' = "up" /\ Begin(accepted + 1)
        /\ deployed' = 0 /\ UNCHANGED <<namespace, objects, recorded>>
    BY <1>1 DEF Deploy, Begin
  <2>2. accepted + 1 \in DOMAIN Manifests
    BY <1>0, <2>1
  <2>3. /\ todo' \in Seq(CallType) /\ todo' # <<>> /\ deploying' = accepted + 1
        /\ \A i \in DOMAIN todo' : todo'[i].op = "apply" =>
                 \E j \in 1..(i - 1) : todo'[j].op = "manifest"
    BY <2>1, <2>2, BeginFacts
  <2>4. RecordFirst'
    BY <2>3 DEF RecordFirst
  <2>5. OneDeploy'
    BY <1>0, <2>1, <2>3 DEF OneDeploy
  <2>6. /\ accepted' \in 0..Len(Manifests) /\ deploying' \in 0..accepted'
        /\ deployed' \in 0..accepted' /\ recorded' \in 0..accepted'
    BY <1>0, <2>1, <2>3
  <2> QED
    BY <1>0, <1>q, <1>s, <2>1, <2>3, <2>4, <2>5, <2>6
<1>2. CASE Succeeds
  <2>1. /\ todo # <<>> /\ Effect(Head(todo)) /\ todo' = Rest
        /\ accepted' = accepted /\ manager' = manager
        /\ IF Rest = <<>> THEN deployed' = deploying /\ deploying' = 0
                          ELSE deployed' = deployed /\ deploying' = deploying
    BY <1>2 DEF Succeeds
  <2>2. /\ deploying # 0
        /\ Head(todo).op = "apply" => recorded = deploying
    BY <2>1, HeadAndTail
  <2>3. /\ ObjectsOK' /\ Unique' /\ WorkloadsAreRecorded'
        /\ recorded' \in 0..accepted /\ recorded' <= deploying
        /\ namespace' \in {"none", "active"}
        /\ ServicesKept /\ PortsKept
    BY <2>1, <2>2, EffectKeeps
  <2>4. recorded' = IF Head(todo).op = "manifest" THEN deploying ELSE recorded
    BY <2>1, EffectFacts
  <2>5. /\ Rest \in Seq(CallType)
        /\ \A i \in DOMAIN Rest : Rest[i].op = "apply" /\ recorded' # deploying =>
              \E j \in 1..(i - 1) : Rest[j].op = "manifest"
    <3>1. /\ Head(todo).op = "manifest" => recorded' = deploying
          /\ recorded' # deploying => recorded # deploying
      BY <2>4
    <3> QED
      BY <2>1, <3>1, RestFacts
  <2>6. RecordFirst'
    <3>1. CASE Rest = <<>>
      BY <2>1, <3>1 DEF RecordFirst
    <3>2. CASE Rest # <<>>
      BY <2>1, <2>5, <3>2 DEF RecordFirst
    <3> QED
      BY <3>1, <3>2
  <2>7. OneDeploy'
    BY <1>0, <2>1, <2>2, <2>3 DEF OneDeploy
  <2> QED
    BY <1>0, <1>s, <2>1, <2>3, <2>5, <2>6, <2>7
<1>3. CASE PolicyFails
  <2>1. /\ todo # <<>> /\ Head(todo).op = "policy"
        /\ Effect(Head(todo)) \/ UNCHANGED <<namespace, objects, recorded>>
        /\ UNCHANGED <<accepted, deploying, deployed, manager>>
    BY <1>3 DEF PolicyFails
  <2>2. PICK n \in DOMAIN todo :
          /\ todo[n].op # "policy"
          /\ \A i \in 1..(n - 1) : todo[i].op = "policy"
          /\ todo' = SubSeq(todo, n, Len(todo))
    BY <1>3 DEF PolicyFails
  <2>3. deploying # 0
    BY <2>1, HeadAndTail
  <2>4. /\ ObjectsOK' /\ Unique' /\ WorkloadsAreRecorded'
        /\ recorded' = recorded
        /\ namespace' \in {"none", "active"}
        /\ ServicesKept /\ PortsKept
    <3>1. CASE Effect(Head(todo))
      BY <2>1, <2>3, <3>1, EffectKeeps, EffectFacts
    <3>2. CASE UNCHANGED <<namespace, objects, recorded>>
      BY <1>0, <1>q, <2>3, <3>2 DEF OneDeploy
    <3> QED
      BY <2>1, <3>1, <3>2
  <2>5. /\ todo' \in Seq(CallType) /\ todo' # <<>>
        /\ \A i \in DOMAIN todo' : todo'[i].op = "apply" /\ recorded # deploying =>
              \E j \in 1..(i - 1) : todo'[j].op = "manifest"
    BY <2>1, <2>2, SkipFacts
  <2>6. RecordFirst'
    BY <2>1, <2>4, <2>5 DEF RecordFirst
  <2>7. OneDeploy'
    BY <1>0, <2>1, <2>3, <2>4, <2>5 DEF OneDeploy
  <2> QED
    BY <1>0, <1>s, <2>1, <2>4, <2>5, <2>6, <2>7
<1>4. CASE Fails
  <2>1. /\ todo # <<>> /\ todo' = <<>> /\ deploying' = 0 /\ manager' = "gone"
        /\ Effect(Head(todo)) \/ UNCHANGED <<namespace, objects, recorded>>
        /\ UNCHANGED <<accepted, deployed>>
    BY <1>4 DEF Fails
  <2>2. /\ deploying # 0
        /\ Head(todo).op = "apply" => recorded = deploying
    BY <2>1, HeadAndTail
  <2>3. /\ ObjectsOK' /\ Unique' /\ WorkloadsAreRecorded'
        /\ recorded' \in 0..accepted
        /\ namespace' \in {"none", "active"}
        /\ ServicesKept /\ PortsKept
    <3>1. CASE Effect(Head(todo))
      BY <2>1, <2>2, <3>1, EffectKeeps
    <3>2. CASE UNCHANGED <<namespace, objects, recorded>>
      BY <1>0, <1>q, <2>2, <3>2 DEF OneDeploy
    <3> QED
      BY <2>1, <3>1, <3>2
  <2>4. todo' \in Seq(CallType) /\ RecordFirst'
    BY <2>1 DEF RecordFirst
  <2>5. OneDeploy'
    BY <2>1, <2>3 DEF OneDeploy
  <2> QED
    BY <1>0, <1>s, <2>1, <2>3, <2>4, <2>5
<1>5. CASE Killed
  <2>1. /\ manager \in {"up", "gone"} /\ manager' = "killed" /\ todo' = <<>> /\ deploying' = 0
        /\ deployed' = 0 /\ UNCHANGED <<accepted, namespace, objects, recorded>>
    BY <1>5 DEF Killed
  <2>2. todo' \in Seq(CallType) /\ RecordFirst'
    BY <2>1 DEF RecordFirst
  <2>3. OneDeploy'
    BY <1>0, <2>1 DEF OneDeploy
  <2> QED
    BY <1>0, <1>q, <1>s, <2>1, <2>2, <2>3
<1>6. CASE Restart
  <2>1. /\ manager = "killed" /\ recorded # 0 /\ manager' = "up" /\ Begin(recorded)
        /\ accepted' = accepted /\ deployed' = 0 /\ UNCHANGED <<namespace, objects, recorded>>
    BY <1>6 DEF Restart, Begin
  <2>2. recorded \in DOMAIN Manifests
    BY <1>0, <2>1
  <2>3. /\ todo' \in Seq(CallType) /\ todo' # <<>> /\ deploying' = recorded
        /\ \A i \in DOMAIN todo' : todo'[i].op = "apply" =>
                 \E j \in 1..(i - 1) : todo'[j].op = "manifest"
    BY <2>1, <2>2, BeginFacts
  <2>4. RecordFirst'
    BY <2>3 DEF RecordFirst
  <2>5. OneDeploy'
    BY <1>0, <2>1, <2>3 DEF OneDeploy
  <2>6. deploying' \in 0..accepted' /\ deployed' \in 0..accepted' /\ recorded' \in 0..accepted'
    BY <1>0, <2>1, <2>3
  <2> QED
    BY <1>0, <1>q, <1>s, <2>1, <2>3, <2>4, <2>5, <2>6
<1>7. CASE TeardownLease
  <2>1. /\ manager = "up" /\ deploying = 0 /\ manager' = "closed"
        /\ namespace' \in {"deleting", namespace}
        /\ deployed' = 0 /\ UNCHANGED <<accepted, todo, deploying, objects, recorded>>
    BY <1>7 DEF TeardownLease
  <2>2. RecordFirst'
    BY <1>0, <2>1 DEF RecordFirst
  <2>3. OneDeploy'
    BY <1>0, <2>1 DEF OneDeploy
  <2> QED
    BY <1>0, <1>q, <1>s, <2>1, <2>2, <2>3
<1>8. CASE Collect
  <2>1. /\ namespace = "deleting" /\ namespace' \in {"deleting", "none"}
        /\ objects' \subseteq objects
        /\ UNCHANGED <<accepted, todo, deploying, deployed, manager, recorded>>
    BY <1>8 DEF Collect
  <2>2. deploying = 0
    BY <1>0, <2>1 DEF OneDeploy
  <2>3. ObjectsOK' /\ Unique' /\ WorkloadsAreRecorded' /\ PortsKept
    <3>1. ObjectsOK' /\ WorkloadsAreRecorded'
      BY <1>0, <2>1 DEF ObjectsOK, WorkloadsAreRecorded
    <3>2. Unique' /\ PortsKept
      BY <1>0, <2>1 DEF Unique, PortsKept
    <3> QED
      BY <3>1, <3>2
  <2>4. RecordFirst'
    BY <1>0, <2>1 DEF RecordFirst
  <2>5. OneDeploy'
    BY <1>0, <2>1, <2>2 DEF OneDeploy
  <2> QED
    BY <1>0, <1>s, <2>1, <2>2, <2>3, <2>4, <2>5
<1>9. CASE UNCHANGED vars
  <2>1. UNCHANGED <<accepted, todo, deploying, deployed, manager, namespace, objects, recorded>>
    BY <1>9 DEF vars
  <2>2. RecordFirst' /\ OneDeploy'
    BY <1>0, <2>1 DEF RecordFirst, OneDeploy
  <2> QED
    BY <1>0, <1>q, <1>s, <2>1, <2>2
<1> QED
  BY <1>1, <1>2, <1>3, <1>4, <1>5, <1>6, <1>7, <1>8, <1>9 DEF Next

\* A cluster without the namespace satisfies it.
LEMMA RecordInitially == Init => RecordInv
<1> SUFFICES ASSUME Init PROVE RecordInv
  OBVIOUS
<1>1. Len(Manifests) \in Nat
  BY KubeParameters
<1>2. todo \in Seq(CallType)
  BY DEF Init
<1>3. TypeOK
  BY <1>1, <1>2 DEF Init, TypeOK
<1> QED
  BY <1>3 DEF Init, RecordInv, OneDeploy, Unique, RecordFirst, WorkloadsAreRecorded

\* RecordInv is an invariant: in particular no Deploy applies anything before the
\* manifest is recorded, whichever calls fail and wherever the process stops.
THEOREM RecordInvariance == Spec => []RecordInv
<1>1. Init => RecordInv
  BY RecordInitially
<1>2. RecordInv /\ [Next]_vars => RecordInv'
  BY RecordPreserves
<1> QED
  BY <1>1, <1>2, PTL DEF Spec

\* Nothing runs that a restarted provider would not find: no object in the cluster
\* is newer than the manifest that Deploy recorded before it.
THEOREM WorkloadsRecorded == Spec => []WorkloadsAreRecorded
<1>1. RecordInv => WorkloadsAreRecorded
  BY DEF RecordInv
<1> QED
  BY <1>1, RecordInvariance, PTL

\* An update keeps serving: it deletes no service that the manifest still names and
\* keeps the node ports that leases were told, for every sequence of manifests.
THEOREM UpdatesServe == Spec => UpdatesKeepServing
<1>1. RecordInv /\ [Next]_vars =>
        /\ [deploying # 0 /\ deploying' \in {deploying, 0} =>
               \A x \in objects : x.service \in Names(deploying) =>
                   \E y \in objects' : y.kind = x.kind /\ y.name = x.name]_vars
        /\ [\A x \in objects, y \in objects' :
               x.kind = y.kind /\ x.name = y.name =>
                   \A p \in DOMAIN x.ports \intersect DOMAIN y.ports : x.ports[p] = y.ports[p]]_vars
  BY RecordPreserves DEF ServicesKept, PortsKept
<1> QED
  BY <1>1, RecordInvariance, PTL DEF Spec, UpdatesKeepServing, UpdatesKeepServices, NodePortsStay

\* The calls a service wants.
LEMMA WantedFacts ==
    ASSUME NEW s, NEW d \in Wanted(s)
    PROVE  /\ d.op = "apply" /\ d.service = s
           /\ d.kind \in {"deployment", "local", "global", "ingress"}
           /\ d.kind = "local" => AnyPort(s, FALSE)
           /\ d.kind = "global" => AnyPort(s, TRUE)
<1>1. \/ d = Call("apply", "deployment", s)
      \/ d = Call("apply", "local", s) /\ AnyPort(s, FALSE)
      \/ d = Call("apply", "global", s) /\ AnyPort(s, TRUE)
      \/ d = Call("apply", "ingress", s)
  BY DEF Wanted
<1>2. CASE d = Call("apply", "deployment", s)
  <2>1. d.op = "apply" /\ d.service = s /\ d.kind = "deployment"
    BY <1>2, CallFields
  <2> QED
    BY <1>2, <2>1
<1>3. CASE d = Call("apply", "local", s) /\ AnyPort(s, FALSE)
  <2>1. d.op = "apply" /\ d.service = s /\ d.kind = "local"
    BY <1>3, CallFields
  <2> QED
    BY <1>3, <2>1
<1>4. CASE d = Call("apply", "global", s) /\ AnyPort(s, TRUE)
  <2>1. d.op = "apply" /\ d.service = s /\ d.kind = "global"
    BY <1>4, CallFields
  <2> QED
    BY <1>4, <2>1
<1>5. CASE d = Call("apply", "ingress", s)
  <2>1. d.op = "apply" /\ d.service = s /\ d.kind = "ingress"
    BY <1>5, CallFields
  <2> QED
    BY <1>5, <2>1
<1> QED
  BY <1>1, <1>2, <1>3, <1>4, <1>5

\* Two calls that put the same object are for services of the same name.
LEMMA SameObject ==
    ASSUME NamesApart, NEW v \in DOMAIN Manifests, NEW s \in Services(v), NEW r \in Services(v),
           NEW d \in Wanted(s), NEW c \in Wanted(r),
           ObjectKind(d) = ObjectKind(c), ObjectName(d) = ObjectName(c)
    PROVE  s.name = r.name
<1>1. /\ d.service = s /\ d.kind \in {"deployment", "local", "global", "ingress"}
      /\ c.service = r /\ c.kind \in {"deployment", "local", "global", "ingress"}
      /\ d.kind = "local" => AnyPort(s, FALSE)
      /\ d.kind = "global" => AnyPort(s, TRUE)
      /\ c.kind = "local" => AnyPort(r, FALSE)
      /\ c.kind = "global" => AnyPort(r, TRUE)
  BY WantedFacts
<1>2. /\ ObjectName(d) = IF d.kind = "global" THEN NodePortName[s.name] ELSE s.name
      /\ ObjectName(c) = IF c.kind = "global" THEN NodePortName[r.name] ELSE r.name
      /\ ObjectKind(d) = IF d.kind \in {"local", "global"} THEN "service" ELSE d.kind
      /\ ObjectKind(c) = IF c.kind \in {"local", "global"} THEN "service" ELSE c.kind
  BY <1>1 DEF ObjectName, ObjectKind, ServiceName
<1>3. /\ AnyPort(s, TRUE) /\ AnyPort(r, FALSE) => NodePortName[s.name] # r.name
      /\ AnyPort(r, TRUE) /\ AnyPort(s, FALSE) => NodePortName[r.name] # s.name
      /\ NodePortName[s.name] = NodePortName[r.name] => s.name = r.name
  BY DEF NamesApart
<1>4. CASE d.kind = "global" /\ c.kind = "global"
  BY <1>2, <1>3, <1>4
<1>5. CASE d.kind = "global" /\ c.kind # "global"
  <2>1. c.kind = "local"
    BY <1>1, <1>2, <1>5
  <2> QED
    BY <1>1, <1>2, <1>3, <1>5, <2>1
<1>6. CASE d.kind # "global" /\ c.kind = "global"
  <2>1. d.kind = "local"
    BY <1>1, <1>2, <1>6
  <2> QED
    BY <1>1, <1>2, <1>3, <1>6, <2>1
<1>7. CASE d.kind # "global" /\ c.kind # "global"
  BY <1>2, <1>7
<1> QED
  BY <1>4, <1>5, <1>6, <1>7

\* A call brings the Deploy one step further; what it drops it has done.
LEMMA ReachedStep ==
    ASSUME NamesApart, NEW v \in DOMAIN Manifests, v = deploying,
           NEW calls, Reached(v, calls), NEW c \in calls, Effect(c),
           NEW rest \in SUBSET calls,
           \A d \in calls : d \in rest \/ d = c \/ d.op = "policy",
           c \in rest \/ ~(c.op = "cleanup" /\ c.kind = "service" /\ Stale("service") # {})
    PROVE  Reached(v, rest)'
<1>1. /\ \A s \in Services(v) : \A d \in Wanted(s) :
            d \in calls \/ Has(ObjectKind(d), ObjectName(d), s, v)
      /\ \A kind \in {"deployment", "ingress", "service"} :
            \/ Call("cleanup", kind, None) \in calls
            \/ \A x \in objects : x.kind = kind => x.service \in Names(v)
      /\ \A d \in calls : d.op = "apply" => \E s \in Services(v) : d \in Wanted(s)
  BY DEF Reached
<1>2. /\ objects' = objects \/ Deletes(c) \/ \E o : Puts(c, o)
      /\ c.op = "cleanup" => Deletes(c)
      /\ c.op = "apply" => \E o : Puts(c, o)
  BY EffectFacts
<1>3. \A s \in Services(v) : s.name \in Names(v)
  BY DEF Services, Names
<1>4. ASSUME NEW s \in Services(v), NEW d \in Wanted(s), d \notin rest
      PROVE  Has(ObjectKind(d), ObjectName(d), s, v)'
  <2>0. d.op = "apply" /\ d.service = s /\ ObjectKind(d) # "policy"
    BY WantedFacts DEF ObjectKind
  <2>1. CASE d \in calls
    <3>1. d = c
      BY <1>4, <2>0, <2>1
    <3>2. PICK o : Puts(c, o)
      BY <1>2, <2>0, <3>1
    <3> QED
      BY <2>0, <3>1, <3>2 DEF Puts, Has
  <2>2. CASE d \notin calls
    <3>1. PICK x \in objects : /\ x.kind = ObjectKind(d) /\ x.name = ObjectName(d)
                               /\ x.service = s.name /\ x.version = v
      BY <1>1, <2>2 DEF Has
    <3>2. CASE x \in objects'
      BY <3>1, <3>2 DEF Has
    <3>3. CASE x \notin objects' /\ Deletes(c)
      BY <1>3, <3>1, <3>3 DEF Deletes, Stale
    <3>4. ASSUME NEW o, Puts(c, o), x \notin objects'
          PROVE  Has(ObjectKind(d), ObjectName(d), s, v)'
      <4>1. /\ o \in objects' /\ o.version = v /\ o.service = c.service.name
            /\ o.kind = ObjectKind(d) /\ o.name = ObjectName(d)
        BY <3>1, <3>4 DEF Puts
      <4>2. c.op = "apply" /\ ObjectKind(c) = ObjectKind(d) /\ ObjectName(c) = ObjectName(d)
        BY <2>0, <3>4, <4>1 DEF Puts
      <4>3. PICK r \in Services(v) : c \in Wanted(r)
        BY <1>1, <4>2
      <4>4. c.service = r
        BY <4>3, WantedFacts
      <4>5. s.name = r.name
        BY <4>2, <4>3, SameObject
      <4> QED
        BY <4>1, <4>4, <4>5 DEF Has
    <3> QED
      BY <1>2, <3>2, <3>3, <3>4
  <2> QED
    BY <2>1, <2>2
<1>5. ASSUME NEW kind \in {"deployment", "ingress", "service"},
             Call("cleanup", kind, None) \notin rest,
             NEW x \in objects', x.kind = kind
      PROVE  x.service \in Names(v)
  <2> DEFINE d == Call("cleanup", kind, None)
  <2>0. d.op = "cleanup" /\ d.kind = kind
    BY CallFields
  <2> HIDE DEF d
  <2>1. CASE d \in calls
    <3>1. d = c /\ c \notin rest
      BY <1>5, <2>0, <2>1 DEF d
    <3>2. Deletes(c) /\ c.kind = kind /\ ~(c.kind = "service" /\ Stale("service") # {})
      BY <1>2, <2>0, <3>1
    <3>3. x \in objects /\ x \notin Stale(kind)
      BY <1>5, <3>2 DEF Deletes
    <3> QED
      BY <1>5, <3>3 DEF Stale
  <2>2. CASE d \notin calls
    <3>1. \A y \in objects : y.kind = kind => y.service \in Names(v)
      BY <1>1, <2>2 DEF d
    <3>2. CASE x \in objects
      BY <1>5, <3>1, <3>2
    <3>3. CASE x \notin objects
      <4>1. PICK o : Puts(c, o)
        BY <1>2, <3>3 DEF Deletes
      <4>2. x = o
        BY <3>3, <4>1 DEF Puts
      <4>3. c.op = "apply" /\ x.service = c.service.name
        BY <1>5, <4>1, <4>2 DEF Puts
      <4>4. PICK r \in Services(v) : c \in Wanted(r)
        BY <1>1, <4>3
      <4>5. c.service = r
        BY <4>4, WantedFacts
      <4> QED
        BY <1>3, <4>3, <4>4, <4>5
    <3> QED
      BY <3>2, <3>3
  <2> QED
    BY <2>1, <2>2
<1>6. \A d \in rest : d.op = "apply" => \E s \in Services(v) : d \in Wanted(s)
  BY <1>1
<1> QED
  BY <1>4, <1>5, <1>6 DEF Reached

\* Calls for policies are not needed on the way.
LEMMA ReachedQuiet ==
    ASSUME NEW v, NEW calls, Reached(v, calls), UNCHANGED objects,
           NEW rest \in SUBSET calls, \A d \in calls : d \in rest \/ d.op = "policy"
    PROVE  Reached(v, rest)'
<1>1. \A s : \A d \in Wanted(s) : d.op # "policy"
  BY WantedFacts
<1>2. \A kind : Call("cleanup", kind, None).op # "policy"
  BY CallFields
<1> QED
  BY <1>1, <1>2 DEF Reached, Has

\* A Deploy has all of it to do.
LEMMA ReachedFirst ==
    ASSUME NEW v \in DOMAIN Manifests
    PROVE  Reached(v, Elems(DeployCalls(v)))'
  BY DeployCallsFacts DEF Reached

\* A Deploy without calls left has done what the manifest asks for.
LEMMA ReachedLast ==
    ASSUME NEW v \in DOMAIN Manifests, Reached(v, {})', deployed' = v, ObjectsOK'
    PROVE  DeployedMatches'
<1>1. /\ \A s \in Services(v) : \A d \in Wanted(s) : Has(ObjectKind(d), ObjectName(d), s, v)'
      /\ \A kind \in {"deployment", "ingress", "service"} :
            \A x \in objects' : x.kind = kind => x.service \in Names(v)
  BY DEF Reached
<1>2. ASSUME NEW s \in Services(v)
      PROVE  /\ Has("deployment", s.name, s, v)'
             /\ AnyPort(s, FALSE) => Has("service", ServiceName(s, FALSE), s, v)'
             /\ AnyPort(s, TRUE) => Has("service", ServiceName(s, TRUE), s, v)'
             /\ (\E j \in DOMAIN s.expose : ShouldBeIngress(s.expose[j]))
                   => Has("ingress", s.name, s, v)'
  <2>1. ASSUME NEW kind \in {"deployment", "local", "global", "ingress"}
        PROVE  /\ ObjectKind(Call("apply", kind, s)) =
                     IF kind \in {"local", "global"} THEN "service" ELSE kind
               /\ ObjectName(Call("apply", kind, s)) =
                     IF kind = "global" THEN NodePortName[s.name] ELSE s.name
    BY CallFields DEF ObjectKind, ObjectName, ServiceName
  <2>2. /\ ServiceName(s, FALSE) = s.name /\ ServiceName(s, TRUE) = NodePortName[s.name]
    BY DEF ServiceName
  <2>3. Has("deployment", s.name, s, v)'
    <3>1. Call("apply", "deployment", s) \in Wanted(s)
      BY DEF Wanted
    <3> QED
      BY <1>1, <2>1, <3>1
  <2>4. ASSUME AnyPort(s, FALSE) PROVE Has("service", s.name, s, v)'
    <3>1. Call("apply", "local", s) \in Wanted(s)
      BY <2>4 DEF Wanted
    <3> QED
      BY <1>1, <2>1, <3>1
  <2>5. ASSUME AnyPort(s, TRUE) PROVE Has("service", NodePortName[s.name], s, v)'
    <3>1. Call("apply", "global", s) \in Wanted(s)
      BY <2>5 DEF Wanted
    <3> QED
      BY <1>1, <2>1, <3>1
  <2>6. ASSUME \E j \in DOMAIN s.expose : ShouldBeIngress(s.expose[j])
        PROVE  Has("ingress", s.name, s, v)'
    <3>1. Call("apply", "ingress", s) \in Wanted(s)
      BY <2>6 DEF Wanted
    <3> QED
      BY <1>1, <2>1, <3>1
  <2> QED
    BY <2>2, <2>3, <2>4, <2>5, <2>6
<1>3. \A x \in objects' : x.kind # "policy" => x.service \in Names(v)
  BY <1>1 DEF ObjectsOK
<1>4. \A i \in DOMAIN Manifests[v] : Manifests[v][i] \in Services(v)
  BY DEF Services
<1> QED
  BY <1>2, <1>3, <1>4 DEF DeployedMatches

\* Every step keeps the Deploy on its way, and its result when it is there.
LEMMA ProgressPreserves ==
    ASSUME NamesApart, IInv, [Next]_vars
    PROVE  Progress' /\ DeployedMatches'
<1>0. /\ RecordInv /\ Progress /\ DeployedMatches /\ OneDeploy
      /\ accepted \in 0..Len(Manifests) /\ Len(Manifests) \in Nat
      /\ DOMAIN Manifests = 1..Len(Manifests)
      /\ deploying \in 0..accepted /\ recorded \in 0..accepted
      /\ Pending = Elems(todo)
  BY KubeParameters DEF IInv, RecordInv, TypeOK, Pending, Elems
<1>a. ObjectsOK'
  <2>1. RecordInv'
    BY <1>0, RecordPreserves
  <2> QED
    BY <2>1 DEF RecordInv, TypeOK, ObjectsOK
\* The two cases where nothing is to show.
<1>b. deploying' = 0 => Progress'
  BY DEF Progress
<1>c. deployed' = 0 => DeployedMatches'
  BY DEF DeployedMatches
<1>d. ASSUME todo # <<>>
      PROVE  /\ deploying # 0 /\ deploying \in DOMAIN Manifests /\ deployed = 0
             /\ Head(todo) \in Elems(todo) /\ Reached(deploying, Elems(todo))
             /\ Elems(todo) = {Head(todo)} \cup Elems(Tail(todo))
  <2>1. /\ deploying # 0 /\ Elems(todo) = {Head(todo)} \cup Elems(Tail(todo))
    BY <1>0, <1>d, HeadAndTail
  <2> QED
    BY <1>0, <2>1 DEF Progress, OneDeploy
<1>e. ASSUME NEW v \in DOMAIN Manifests, Begin(v)
      PROVE  Progress' /\ deployed' = 0
  <2>1. deploying' = v /\ todo' = DeployCalls(v) /\ deployed' = 0
    BY <1>e DEF Begin
  <2>2. Pending' = Elems(DeployCalls(v))
    BY <2>1 DEF Pending, Elems
  <2>3. Reached(v, Elems(DeployCalls(v)))'
    BY ReachedFirst
  <2> QED
    BY <2>1, <2>2, <2>3 DEF Progress
<1>1. CASE Deploy
  <2>1. Begin(accepted + 1) /\ accepted + 1 \in DOMAIN Manifests
    BY <1>0, <1>1 DEF Deploy
  <2> QED
    BY <1>c, <1>e, <2>1
<1>2. CASE Succeeds
  <2>1. /\ todo # <<>> /\ Effect(Head(todo)) /\ todo' = Rest
        /\ IF Rest = <<>> THEN deployed' = deploying /\ deploying' = 0
                          ELSE deployed' = deployed /\ deploying' = deploying
    BY <1>2 DEF Succeeds
  <2> DEFINE v == deploying
             calls == Elems(todo)
             c == Head(todo)
             rest == Elems(Rest)
  <2>2. /\ v # 0 /\ v \in DOMAIN Manifests /\ deployed = 0 /\ c \in calls /\ Reached(v, calls)
    BY <1>d, <2>1
  <2>3. /\ rest \in SUBSET calls /\ \A d \in calls : d \in rest \/ d = c
        /\ c \in rest \/ ~(c.op = "cleanup" /\ c.kind = "service" /\ Stale("service") # {})
    BY <1>d, <2>1 DEF Rest
  <2>4. ASSUME NEW w, w = v, NEW r, r = rest PROVE Reached(w, r)'
    <3>1. w \in DOMAIN Manifests /\ w = deploying /\ Reached(w, calls)
      BY <2>2, <2>4
    <3>2. Effect(c)
      BY <2>1
    <3> HIDE DEF v, calls, c, rest
    <3> QED
      BY <2>2, <2>3, <2>4, <3>1, <3>2, ReachedStep
  <2>5. CASE Rest = <<>>
    <3>1. rest = {}
      BY <2>5 DEF Elems
    <3>2. PICK w : w = v
      OBVIOUS
    <3>3. Reached(w, {})'
      BY <2>4, <3>1, <3>2
    <3>4. DeployedMatches'
      BY <1>a, <2>1, <2>2, <2>5, <3>2, <3>3, ReachedLast
    <3> QED
      BY <1>b, <2>1, <2>5, <3>4
  <2>6. CASE Rest # <<>>
    <3>1. PICK w, r : w = v /\ r = rest
      OBVIOUS
    <3>2. Reached(w, r)'
      BY <2>4, <3>1
    <3>3. deploying' = w /\ Pending' = r /\ deployed' = 0
      BY <2>1, <2>2, <2>6, <3>1 DEF Pending, Elems
    <3> QED
      BY <1>c, <3>2, <3>3 DEF Progress
  <2> QED
    BY <2>5, <2>6
<1>3. CASE PolicyFails
  <2>1. /\ todo # <<>> /\ Head(todo).op = "policy"
        /\ Effect(Head(todo)) \/ UNCHANGED objects
        /\ deploying' = deploying /\ deployed' = deployed
    BY <1>3 DEF PolicyFails
  <2>2. PICK n \in DOMAIN todo :
          /\ todo[n].op # "policy"
          /\ \A i \in 1..(n - 1) : todo[i].op = "policy"
          /\ todo' = SubSeq(todo, n, Len(todo))
    BY <1>3 DEF PolicyFails
  <2>3. PICK w, r : w = deploying /\ r = Elems(SubSeq(todo, n, Len(todo)))
    OBVIOUS
  <2>4. /\ w # 0 /\ w \in DOMAIN Manifests /\ deployed = 0
        /\ Head(todo) \in Elems(todo) /\ Reached(w, Elems(todo))
    BY <1>d, <2>1, <2>3
  <2>5. r \in SUBSET Elems(todo) /\ \A d \in Elems(todo) : d \in r \/ d.op = "policy"
    BY <1>0, <2>1, <2>2, <2>3, SkipFacts
  <2>6. Reached(w, r)'
    <3>1. CASE Effect(Head(todo))
      BY <2>1, <2>3, <2>4, <2>5, <3>1, ReachedStep
    <3>2. CASE UNCHANGED objects
      BY <2>4, <2>5, <3>2, ReachedQuiet
    <3> QED
      BY <2>1, <3>1, <3>2
  <2>7. deploying' = w /\ Pending' = r /\ deployed' = 0
    BY <2>1, <2>2, <2>3, <2>4 DEF Pending, Elems
  <2> QED
    BY <1>c, <2>6, <2>7 DEF Progress
<1>4. CASE Fails
  BY <1>4, <1>b, <1>c, <1>d DEF Fails
<1>5. CASE Killed
  BY <1>5, <1>b, <1>c DEF Killed
<1>6. CASE Restart
  <2>1. Begin(recorded) /\ recorded \in DOMAIN Manifests
    BY <1>0, <1>6 DEF Restart
  <2> QED
    BY <1>c, <1>e, <2>1
<1>7. CASE TeardownLease
  BY <1>7, <1>b, <1>c DEF TeardownLease
<1>8. CASE Collect
  <2>1. namespace = "deleting" /\ deploying' = deploying /\ deployed' = deployed
    BY <1>8 DEF Collect
  <2>2. deploying = 0 /\ deployed = 0
    BY <1>0, <2>1 DEF OneDeploy
  <2> QED
    BY <1>b, <1>c, <2>1, <2>2
<1>9. CASE UNCHANGED vars
  <2>1. UNCHANGED <<todo, deploying, deployed, objects>>
    BY <1>9 DEF vars
  <2>2. Progress'
    BY <1>0, <2>1 DEF Progress, Reached, Has, Pending
  <2>3. DeployedMatches'
    BY <1>0, <2>1 DEF DeployedMatches, Has
  <2> QED
    BY <2>2, <2>3
<1> QED
  BY <1>1, <1>2, <1>3, <1>4, <1>5, <1>6, <1>7, <1>8, <1>9 DEF Next

\* When a Deploy has succeeded, the cluster has what the manifest asks for and
\* nothing that it does not name, where the names of services are apart.
THEOREM DeployedAsAsked ==
    ASSUME NamesApart
    PROVE  Spec => []DeployedMatches
<1>1. Init => IInv
  BY RecordInitially DEF Init, IInv, Progress, DeployedMatches
<1>2. IInv /\ [Next]_vars => IInv'
  BY RecordPreserves, ProgressPreserves DEF IInv
<1>3. IInv => DeployedMatches
  BY DEF IInv
<1> QED
  BY <1>1, <1>2, <1>3, PTL DEF Spec
=============================================================================
