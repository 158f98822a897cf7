-------------------------- MODULE KernelStartProofs --------------------------
(***************************************************************************)
(* Proofs about the start of a kernel, for every guest, user, symbol file  *)
(* and bound on failures that the assumptions of KernelStart admit.        *)
(*                                                                         *)
(*  AddedOnceAlways         indices rise in added, and what is needed lies *)
(*                          below all of them                              *)
(*  NoEmptyLeftoversAlways  what is to be written has been downloaded      *)
(*  OffsetsAlwaysFit        where a builder looks is an image of the       *)
(*                          kernel, and what it has read there is true     *)
(*  NotFoundIsAlwaysTrue    as long as nothing fails a build is on the way *)
(*                          to the kernel: the fallback is x64, without    *)
(*                          the hints that misled the first scan           *)
(***************************************************************************)
EXTENDS KernelStart, NaturalsInduction, WellFoundedInduction, TLAPS
----------------------------------------------------------------------------
(* Numbers and lists *)

LEMMA LessThan == \A x, y \in Nat : <<y, x>> \in OpToRel(<, Nat) <=> y < x
BY DEF OpToRel

LEMMA Smallest ==
    ASSUME NEW S \in SUBSET Nat, S # {}
    PROVE  \E x \in S : \A y \in S : x <= y
<1>1. PICK x \in S : \A y \in S : ~ (<<y, x>> \in OpToRel(<, Nat))
  BY NatLessThanWellFounded, WFMin, Zenon
<1>2. \A y \in S : x <= y
  <2> SUFFICES ASSUME NEW y \in S PROVE x <= y
    OBVIOUS
  <2>1. ~(y < x)
    BY <1>1, LessThan
  <2> QED BY <2>1
<1> QED BY <1>2

LEMMA Largest ==
    ASSUME NEW n \in Nat, NEW S, \A x \in S : x \in 0..n, S # {}
    PROVE  \E x \in S : \A y \in S : y <= x
<1> DEFINE T == {n - x : x \in S}
<1>1. T \in SUBSET Nat /\ T # {}
  OBVIOUS
<1>2. PICK t \in T : \A u \in T : t <= u
  <2> HIDE DEF T
  <2> QED BY <1>1, Smallest
<1>3. PICK x \in S : t = n - x
  OBVIOUS
<1>4. \A y \in S : n - x <= n - y
  BY <1>2, <1>3
<1> QED BY <1>4

(* What holds at 0 and is carried from each number to the next one up to   *)
(* N holds up to N.                                                        *)
LEMMA UpTo ==
    ASSUME NEW N \in Nat, NEW S, 0 \in S, \A k \in 1..N : k - 1 \in S => k \in S
    PROVE  \A k \in 0..N : k \in S
<1> DEFINE Out == {k \in 0..N : k \notin S}
<1> SUFFICES ASSUME Out # {} PROVE FALSE
  OBVIOUS
<1>1. PICK k \in Out : \A y \in Out : k <= y
  <2>1. Out \in SUBSET Nat
    OBVIOUS
  <2> HIDE DEF Out
  <2> QED BY <2>1, Smallest
<1>2. k \in 1..N /\ k - 1 \in 0..N /\ ~(k <= k - 1)
  BY <1>1
<1>3. k - 1 \in S
  BY <1>1, <1>2
<1> QED BY <1>1, <1>2, <1>3

(* The same where each number is carried by all that are below it.         *)
LEMMA Below ==
    ASSUME NEW N \in Nat, NEW S, \A k \in 0..N : (\A j \in 0..(k - 1) : j \in S) => k \in S
    PROVE  \A k \in 0..N : k \in S
<1> DEFINE Out == {k \in 0..N : k \notin S}
<1> SUFFICES ASSUME Out # {} PROVE FALSE
  OBVIOUS
<1>1. PICK k \in Out : \A y \in Out : k <= y
  <2>1. Out \in SUBSET Nat
    OBVIOUS
  <2> HIDE DEF Out
  <2> QED BY <2>1, Smallest
<1>2. k \in 0..N /\ \A j \in 0..(k - 1) : j \in 0..N /\ ~(k <= j)
  BY <1>1
<1>3. \A j \in 0..(k - 1) : j \in S
  BY <1>1, <1>2
<1> QED BY <1>1, <1>2, <1>3

(* A recursion in which every number ends with a value of its own or goes  *)
(* on with one number below it has a solution in every set that is closed  *)
(* under its steps g.                                                      *)
Chain(S, N, leaf, v, next, g) ==
    /\ N \in Nat /\ g \in [0..N -> [S -> S]]
    /\ \A i \in 0..N : /\ i \in leaf => v[i] \in S
                       /\ i \notin leaf => next[i] \in 0..(i - 1)

Follows(f, S, n, leaf, v, next, g) ==
    /\ f \in [0..n -> S]
    /\ \A i \in 0..n : f[i] = IF i \in leaf THEN v[i] ELSE g[i][f[next[i]]]

LEMMA Followed ==
    ASSUME NEW S, NEW N, NEW leaf, NEW v, NEW next, NEW g, Chain(S, N, leaf, v, next, g)
    PROVE  \E f : Follows(f, S, N, leaf, v, next, g)
<1>1. /\ N \in Nat /\ g \in [0..N -> [S -> S]]
      /\ \A i \in 0..N : /\ i \in leaf => v[i] \in S
                         /\ i \notin leaf => next[i] \in 0..(i - 1)
  BY DEF Chain
<1> DEFINE Done == {n \in 0..N : \E f : Follows(f, S, n, leaf, v, next, g)}
<1>2. 0 \in Done
  <2> DEFINE h == [i \in 0..0 |-> v[i]]
  <2>1. 0 \in 0..N /\ 0 \in leaf /\ v[0] \in S
    BY <1>1
  <2>2. h \in [0..0 -> S] /\ \A i \in 0..0 : i = 0 /\ h[i] = v[i]
    BY <2>1
  <2> HIDE DEF h
  <2>3. Follows(h, S, 0, leaf, v, next, g)
    BY <2>1, <2>2 DEF Follows
  <2> QED BY <2>1, <2>3
<1>3. ASSUME NEW n \in 1..N, n - 1 \in Done PROVE n \in Done
  <2>1. PICK f : Follows(f, S, n - 1, leaf, v, next, g)
    BY <1>3
  <2>2. /\ f \in [0..(n - 1) -> S]
        /\ \A i \in 0..(n - 1) : f[i] = IF i \in leaf THEN v[i] ELSE g[i][f[next[i]]]
    BY <2>1 DEF Follows
  <2> DEFINE a == IF n \in leaf THEN v[n] ELSE g[n][f[next[n]]]
             h == [k \in 0..n |-> IF k = n THEN a ELSE f[k]]
  <2>3. n \in 0..N
    BY <1>1
  <2>4. a \in S
    <3>1. CASE n \in leaf
      BY <1>1, <2>3, <3>1
    <3>2. CASE n \notin leaf
      <4>1. f[next[n]] \in S
        BY <1>1, <2>2, <2>3, <3>2
      <4>2. g[n] \in [S -> S]
        BY <1>1, <2>3
      <4> QED BY <3>2, <4>1, <4>2
    <3> QED BY <3>1, <3>2
  <2>5. \A k \in 0..n : k # n => k \in 0..(n - 1)
    BY <1>1
  <2>6. h \in [0..n -> S]
    <3> HIDE DEF a
    <3> QED BY <2>2, <2>4, <2>5
  <2>7. h[n] = a /\ \A k \in 0..(n - 1) : h[k] = f[k]
    <3> HIDE DEF a
    <3> QED BY <1>1
  <2> HIDE DEF h
  <2>8. ASSUME NEW i \in 0..n
        PROVE  h[i] = IF i \in leaf THEN v[i] ELSE g[i][h[next[i]]]
    <3>1. i \notin leaf => next[i] \in 0..(n - 1)
      BY <1>1
    <3>2. i \notin leaf => h[next[i]] = f[next[i]]
      BY <2>7, <3>1
    <3>3. CASE i = n
      BY <2>7, <3>2, <3>3
    <3>4. CASE i # n
      BY <2>2, <2>5, <2>7, <3>2, <3>4
    <3> QED BY <3>3, <3>4
  <2>9. Follows(h, S, n, leaf, v, next, g)
    BY <2>6, <2>8 DEF Follows
  <2> QED BY <2>3, <2>9
<1> HIDE DEF Done
<1>4. \A k \in 0..N : k \in Done
  BY <1>1, <1>2, <1>3, UpTo
<1>5. N \in Done
  BY <1>1, <1>4
<1> QED BY <1>5 DEF Done

----------------------------------------------------------------------------
(* What a type needs is not behind it *)

TypeIndex == 0..Len(types)

LEMMA StreamFacts ==
    ASSUME IsStream(types)
    PROVE  /\ Len(types) \in Nat /\ DOMAIN types = 1..Len(types)
           /\ \A i \in 1..Len(types) :
                /\ types[i].kind \in {"class", "enum"} => types[i].fields \in 0..(i - 1)
                /\ types[i].kind = "enum" => types[i].underlying \in 0..(i - 1)
                /\ types[i].kind \in {"pointer", "memberfn"} => types[i].to \in 0..(i - 1)
                /\ types[i].kind = "memberfn" => types[i].args \in 0..(i - 1)
                /\ types[i].kind \in {"args", "methods"}
                    => ToSet(types[i].list) \subseteq 0..(i - 1)
                /\ types[i].kind = "fieldlist" =>
                    /\ types[i].members \in Seq(ToSet(types[i].members))
                    /\ types[i].continuation \in 0..(i - 1)
                    /\ \A m \in ToSet(types[i].members) :
                        m.type \in 0..(i - 1) /\ (m.kind = "overloaded" => m.type # 0)
<1>1. types \in Seq(ToSet(types))
  BY DEF IsStream, IsList
<1>2. Len(types) \in Nat /\ DOMAIN types = 1..Len(types)
  BY <1>1
<1> QED BY <1>2, Zenon DEF IsStream, IsList

NameOf(f, i) ==
    IF i = NoType THEN Failed
    ELSE LET t == types[i] IN
        CASE t.kind = "bad"                           -> Failed
          [] t.kind \in {"class", "enum", "union"}    -> {i}
          [] t.kind = "pointer"                       -> f[t.to]
          [] OTHER                                    -> {}

LEMMA TypeNames ==
    ASSUME IsStream(types)
    PROVE  /\ \A i \in TypeIndex : type_name[i] = NameOf(type_name, i)
           /\ \A i \in TypeIndex : type_name[i] \subseteq 0..i
<1> DEFINE N == Len(types)
           S == SUBSET Nat
           leaf == {i \in 0..N : i = 0 \/ types[i].kind # "pointer"}
           v == [i \in 0..N |-> NameOf([j \in {} |-> {}], i)]
           next == [i \in 0..N |-> types[i].to]
           g == [i \in 0..N |-> [x \in S |-> x]]
<1>1. /\ N \in Nat
      /\ \A i \in 1..N : types[i].kind = "pointer" => types[i].to \in 0..(i - 1)
  BY StreamFacts
<1>2. \A i \in leaf : NameOf([j \in {} |-> {}], i) \in S
  BY <1>1 DEF NameOf, Failed, NoType
<1>3. Chain(S, N, leaf, v, next, g)
  <2>1. g \in [0..N -> [S -> S]]
    OBVIOUS
  <2>2. ASSUME NEW i \in 0..N, i \notin leaf PROVE next[i] \in 0..(i - 1)
    <3>1. i \in 1..N /\ types[i].kind = "pointer"
      BY <1>1, <2>2
    <3> QED BY <1>1, <3>1
  <2>3. \A i \in 0..N : i \in leaf => v[i] \in S
    BY <1>2
  <2> HIDE DEF leaf, v, next, g, S
  <2> QED BY <1>1, <2>1, <2>2, <2>3 DEF Chain
<1>4. PICK f : Follows(f, S, N, leaf, v, next, g)
  <2> HIDE DEF leaf, v, next, g, S, N
  <2> QED BY <1>3, Followed
<1>5. f \in [0..N -> S] /\ \A i \in 0..N : f[i] = IF i \in leaf THEN v[i] ELSE g[i][f[next[i]]]
  <2> HIDE DEF leaf, v, next, g, S, N
  <2> QED BY <1>4 DEF Follows
<1>6. ASSUME NEW i \in 0..N PROVE f[i] = NameOf(f, i)
  <2>1. CASE i \in leaf
    <3>1. f[i] = NameOf([j \in {} |-> {}], i)
      BY <1>5, <2>1
    <3>2. i = 0 \/ types[i].kind # "pointer"
      BY <2>1
    <3> HIDE DEF leaf, v, next, g, S, N
    <3> QED BY <3>1, <3>2 DEF NameOf, NoType
  <2>2. CASE i \notin leaf
    <3>1. i \in 1..N /\ types[i].kind = "pointer"
      BY <1>1, <2>2
    <3>2. types[i].to \in 0..N
      BY <1>1, <3>1
    <3>3. f[types[i].to] \in S
      BY <1>5, <3>2
    <3>4. f[i] = f[types[i].to]
      BY <1>5, <2>2, <3>3
    <3>5. NameOf(f, i) = f[types[i].to]
      BY <3>1 DEF NameOf, NoType
    <3> QED BY <3>4, <3>5
  <2> QED BY <2>1, <2>2
<1>7. f = [i \in 0..N |-> NameOf(f, i)]
  <2>1. f = [i \in 0..N |-> f[i]]
    BY <1>5
  <2> HIDE DEF leaf, v, next, g, S, N
  <2> QED BY <1>6, <2>1
<1>8. type_name = [i \in 0..N |-> NameOf(type_name, i)]
  <2> HIDE DEF leaf, v, next, g, S
  <2> QED BY <1>7 DEF type_name, NameOf
<1>9. \A i \in 0..N : type_name[i] = NameOf(type_name, i)
  <2> HIDE DEF N
  <2> QED BY <1>8
<1>10. \A i \in 0..N : type_name[i] \subseteq 0..i
  <2> DEFINE Good == {i \in 0..N : type_name[i] \subseteq 0..i}
  <2>1. ASSUME NEW i \in 0..N, \A j \in 0..(i - 1) : j \in Good PROVE i \in Good
    <3>1. type_name[i] = NameOf(type_name, i)
      BY <1>9
    <3>2. CASE i = 0
      BY <3>1, <3>2 DEF NameOf, NoType, Failed
    <3>3. CASE i # 0 /\ types[i].kind = "pointer"
      <4>1. types[i].to \in 0..(i - 1) /\ types[i].to \in 0..N
        BY <1>1, <3>3
      <4>2. type_name[types[i].to] \subseteq 0..types[i].to
        BY <2>1, <4>1
      <4>3. type_name[i] = type_name[types[i].to]
        BY <3>1, <3>3 DEF NameOf, NoType
      <4>4. type_name[i] \subseteq 0..i
        BY <1>1, <4>1, <4>2, <4>3
      <4> QED BY <4>4
    <3>4. CASE i # 0 /\ types[i].kind # "pointer"
      <4>1. type_name[i] \in {{0}, {i}, {}}
        BY <3>1, <3>4 DEF NameOf, NoType, Failed
      <4> QED BY <1>1, <4>1
    <3> QED BY <3>2, <3>3, <3>4
  <2> HIDE DEF Good
  <2>2. \A i \in 0..N : i \in Good
    <3> HIDE DEF N
    <3> QED BY <1>1, <2>1, Below
  <2> QED BY <2>2 DEF Good
<1> QED BY <1>9, <1>10 DEF TypeIndex

LEMMA JoinedLists ==
    ASSUME NEW p, NEW q, p \in Seq(ToSet(p)), q \in Seq(ToSet(q))
    PROVE  /\ p \o q \in Seq(ToSet(p) \cup ToSet(q))
           /\ ToSet(p \o q) = ToSet(p) \cup ToSet(q)
<1> DEFINE P == ToSet(p)
           Q == ToSet(q)
<1>1. P = {p[i] : i \in DOMAIN p} /\ Q = {q[i] : i \in DOMAIN q}
  BY DEF ToSet
<1>2. p \in Seq(P) /\ q \in Seq(Q)
  OBVIOUS
<1> HIDE DEF P, Q
<1>3. p \in Seq(P \cup Q) /\ q \in Seq(P \cup Q)
  BY <1>2
<1>4. p \o q \in Seq(P \cup Q)
  BY <1>3
<1>5. /\ Len(p) \in Nat /\ Len(q) \in Nat /\ DOMAIN p = 1..Len(p) /\ DOMAIN q = 1..Len(q)
      /\ DOMAIN (p \o q) = 1..(Len(p) + Len(q))
      /\ \A i \in 1..(Len(p) + Len(q)) : (p \o q)[i] = IF i <= Len(p) THEN p[i] ELSE q[i - Len(p)]
  BY <1>3
<1>6. ASSUME NEW x \in P \cup Q PROVE x \in ToSet(p \o q)
  <2>1. CASE x \in P
    <3>1. PICK i \in DOMAIN p : x = p[i]
      BY <1>1, <2>1
    <3>2. i \in 1..(Len(p) + Len(q)) /\ (p \o q)[i] = x
      BY <1>5, <3>1
    <3> QED BY <1>5, <3>2 DEF ToSet
  <2>2. CASE x \in Q
    <3>1. PICK i \in DOMAIN q : x = q[i]
      BY <1>1, <2>2
    <3>2. /\ Len(p) + i \in 1..(Len(p) + Len(q))
          /\ ~(Len(p) + i <= Len(p)) /\ (Len(p) + i) - Len(p) = i
      BY <1>5
    <3>3. (p \o q)[Len(p) + i] = q[i]
      BY <1>5, <3>2
    <3> QED BY <1>5, <3>1, <3>2, <3>3 DEF ToSet
  <2> QED BY <2>1, <2>2
<1>7. ASSUME NEW x \in ToSet(p \o q) PROVE x \in P \cup Q
  <2>1. PICK i \in DOMAIN (p \o q) : x = (p \o q)[i]
    BY <1>7 DEF ToSet
  <2> QED BY <1>4, <2>1
<1> QED BY <1>4, <1>6, <1>7 DEF P, Q

LEMMA Arguments ==
    ASSUME IsStream(types), NEW i \in TypeIndex
    PROVE  argument_list(i) \subseteq 0..i
<1>1. CASE i # NoType /\ types[i].kind = "args"
  <2>1. i \in 1..Len(types) /\ i \in Nat
    BY <1>1, StreamFacts DEF TypeIndex, NoType
  <2>2. \A t \in ToSet(types[i].list) : t \in 0..(i - 1) /\ t \in TypeIndex
    <3>1. ToSet(types[i].list) \subseteq 0..(i - 1)
      BY <1>1, <2>1, StreamFacts
    <3>2. \A t \in 0..(i - 1) : t \in TypeIndex
      BY <2>1, StreamFacts DEF TypeIndex
    <3> QED BY <3>1, <3>2
  <2>3. \A t \in ToSet(types[i].list) : type_name[t] \subseteq 0..t
    BY <2>2, TypeNames
  <2>4. ASSUME NEW x \in argument_list(i) PROVE x \in 0..i
    <3>1. PICK t \in ToSet(types[i].list) : x \in type_name[t]
      BY <1>1, <2>4 DEF argument_list
    <3> QED BY <2>1, <2>2, <2>3, <3>1
  <2> QED BY <2>4
<1>2. CASE ~(i # NoType /\ types[i].kind = "args")
  <2>1. argument_list(i) = {0}
    BY <1>2 DEF argument_list, Failed
  <2>2. i \in Nat
    BY StreamFacts DEF TypeIndex
  <2> QED BY <2>1, <2>2
<1> QED BY <1>1, <1>2

LEMMA Methods ==
    ASSUME IsStream(types), NEW i \in TypeIndex
    PROVE  method(i) \subseteq 0..i
<1>1. CASE i # NoType /\ types[i].kind = "memberfn"
  <2>1. i \in 1..Len(types) /\ i \in Nat
    BY <1>1, StreamFacts DEF TypeIndex, NoType
  <2>2. /\ types[i].to \in 0..(i - 1) /\ types[i].to \in TypeIndex
        /\ types[i].args \in 0..(i - 1) /\ types[i].args \in TypeIndex
    BY <1>1, <2>1, StreamFacts DEF TypeIndex
  <2>3. /\ type_name[types[i].to] \subseteq 0..types[i].to
        /\ argument_list(types[i].args) \subseteq 0..types[i].args
    BY <2>2, TypeNames, Arguments
  <2>4. method(i) = type_name[types[i].to] \cup argument_list(types[i].args)
    BY <1>1 DEF method
  <2>5. \A x : x \in 0..types[i].to \/ x \in 0..types[i].args => x \in 0..i
    BY <2>1, <2>2
  <2> QED BY <2>3, <2>4, <2>5
<1>2. CASE ~(i # NoType /\ types[i].kind = "memberfn")
  <2>1. method(i) = {0}
    BY <1>2 DEF method, Failed
  <2>2. i \in Nat
    BY StreamFacts DEF TypeIndex
  <2> QED BY <2>1, <2>2
<1> QED BY <1>1, <1>2

(* A member of a list before n refers to what is before n.                 *)
RefersBelow(m, n) ==
    /\ m.type \in 0..(n - 1)
    /\ m.kind = "overloaded" => m.type # 0

LEMMA FieldNeeds ==
    ASSUME IsStream(types), NEW n \in TypeIndex, NEW m, RefersBelow(m, n)
    PROVE  add_field(m) \subseteq 0..(n - 1)
<1> DEFINE i == m.type
<1>1. i \in TypeIndex /\ i \in Nat /\ i <= n - 1 /\ n \in Nat
  BY StreamFacts DEF RefersBelow, TypeIndex
<1>2. CASE m.kind = "overloaded" /\ types[i].kind = "methods"
  <2>1. i \in 1..Len(types)
    BY <1>1, <1>2 DEF RefersBelow, TypeIndex
  <2>2. \A t \in ToSet(types[i].list) : t \in 0..(i - 1) /\ t \in TypeIndex
    BY <1>1, <1>2, <2>1, StreamFacts DEF TypeIndex
  <2>3. \A t \in ToSet(types[i].list) : method(t) \subseteq 0..t
    BY <2>2, Methods
  <2>4. add_field(m) = UNION {method(t) : t \in ToSet(types[i].list)}
    BY <1>2 DEF add_field
  <2>5. ASSUME NEW x \in add_field(m) PROVE x \in 0..(n - 1)
    <3>1. PICK t \in ToSet(types[i].list) : x \in method(t)
      BY <2>4, <2>5
    <3>2. x \in 0..t /\ t \in 0..(i - 1)
      BY <2>2, <2>3, <3>1
    <3> HIDE DEF i
    <3> QED BY <1>1, <3>2
  <2> QED BY <2>5
<1>3. CASE ~(m.kind = "overloaded" /\ types[i].kind = "methods")
  <2>1. add_field(m) \in {type_name[i], method(i), {0}, {}}
    BY <1>3 DEF add_field, Failed
  <2>2. type_name[i] \subseteq 0..i /\ method(i) \subseteq 0..i
    BY <1>1, TypeNames, Methods
  <2>3. \A x : x \in 0..i => x \in 0..(n - 1)
    <3> HIDE DEF i
    <3> QED BY <1>1
  <2>4. 0 \in 0..(n - 1)
    <3> HIDE DEF i
    <3> QED BY <1>1
  <2>5. CASE add_field(m) = {0}
    BY <2>4, <2>5
  <2>6. CASE add_field(m) \in {type_name[i], method(i), {}}
    BY <2>2, <2>3, <2>6
  <2> QED BY <2>1, <2>5, <2>6
<1> QED BY <1>2, <1>3

FieldsOf(f, i) ==
    IF i = NoType THEN <<>>
    ELSE LET t == types[i] IN
        CASE t.kind = "fieldlist" -> t.members \o f[t.continuation]
          [] t.kind = "bad"       -> Stop("error")
          [] OTHER                -> Stop("panic")

Stopped(m) == m.kind \in {"error", "panic"}

LEMMA MemberLists ==
    ASSUME IsStream(types)
    PROVE  \A i \in TypeIndex :
              /\ add_fields[i] \in Seq(ToSet(add_fields[i]))
              /\ \A m \in ToSet(add_fields[i]) : Stopped(m) \/ RefersBelow(m, i)
<1> DEFINE N == Len(types)
           M == (UNION {ToSet(types[i].members) : i \in {j \in 1..N : types[j].kind = "fieldlist"}})
                  \cup {Stop("error")[1], Stop("panic")[1]}
           S == Seq(M)
           leaf == {i \in 0..N : i = 0 \/ types[i].kind # "fieldlist"}
           none == [j \in {} |-> {}]
           v == [i \in 0..N |-> FieldsOf(none, i)]
           next == [i \in 0..N |-> types[i].continuation]
           g == [i \in 0..N |-> [x \in S |-> IF i \in leaf THEN x ELSE types[i].members \o x]]
<1>1. /\ N \in Nat
      /\ \A i \in 1..N : types[i].kind = "fieldlist" =>
            /\ types[i].members \in Seq(ToSet(types[i].members))
            /\ types[i].continuation \in 0..(i - 1)
            /\ \A m \in ToSet(types[i].members) : RefersBelow(m, i)
  BY StreamFacts DEF RefersBelow
<1>2. <<>> \in S /\ Stop("error") \in S /\ Stop("panic") \in S
  <2>1. Stop("error")[1] \in M /\ Stop("panic")[1] \in M
    OBVIOUS
  <2>2. Stop("error") = <<Stop("error")[1]>> /\ Stop("panic") = <<Stop("panic")[1]>>
    BY DEF Stop
  <2> HIDE DEF M
  <2> QED BY <2>1, <2>2
<1>3. \A i \in 1..N : types[i].kind = "fieldlist" => types[i].members \in S
  <2> SUFFICES ASSUME NEW i \in 1..N, types[i].kind = "fieldlist" PROVE types[i].members \in S
    OBVIOUS
  <2>1. ToSet(types[i].members) \subseteq M
    OBVIOUS
  <2>2. types[i].members \in Seq(ToSet(types[i].members))
    BY <1>1
  <2> HIDE DEF M
  <2> QED BY <2>1, <2>2
<1>4. \A i \in leaf : FieldsOf(none, i) \in S
  <2> SUFFICES ASSUME NEW i \in leaf PROVE FieldsOf(none, i) \in S
    OBVIOUS
  <2>1. FieldsOf(none, i) \in {<<>>, Stop("error"), Stop("panic")}
    <3> HIDE DEF none
    <3> QED BY DEF FieldsOf, NoType
  <2> HIDE DEF S
  <2> QED BY <1>2, <2>1
<1>5. \A x, y \in S : x \o y \in S
  <2> HIDE DEF M
  <2> QED OBVIOUS
<1>6. g \in [0..N -> [S -> S]]
  <2>1. \A i \in 0..N, x \in S : (IF i \in leaf THEN x ELSE types[i].members \o x) \in S
    <3> SUFFICES ASSUME NEW i \in 0..N, NEW x \in S, i \notin leaf
                 PROVE  types[i].members \o x \in S
      OBVIOUS
    <3>1. i \in 1..N /\ types[i].kind = "fieldlist"
      BY <1>1
    <3> HIDE DEF S
    <3> QED BY <1>3, <1>5, <3>1
  <2> HIDE DEF S, leaf
  <2> QED BY <2>1
<1>7. Chain(S, N, leaf, v, next, g)
  <2>1. ASSUME NEW i \in 0..N, i \notin leaf PROVE next[i] \in 0..(i - 1)
    <3>1. i \in 1..N /\ types[i].kind = "fieldlist"
      BY <1>1, <2>1
    <3> QED BY <1>1, <3>1
  <2>2. \A i \in 0..N : i \in leaf => v[i] \in S
    <3> HIDE DEF S, none
    <3> QED BY <1>4
  <2> HIDE DEF leaf, v, next, g, S
  <2> QED BY <1>1, <1>6, <2>1, <2>2 DEF Chain
<1>8. PICK f : Follows(f, S, N, leaf, v, next, g)
  <2> HIDE DEF leaf, v, next, g, S, N
  <2> QED BY <1>7, Followed
<1>9. f \in [0..N -> S] /\ \A i \in 0..N : f[i] = IF i \in leaf THEN v[i] ELSE g[i][f[next[i]]]
  <2> HIDE DEF leaf, v, next, g, S, N
  <2> QED BY <1>8 DEF Follows
<1>10. ASSUME NEW i \in 0..N PROVE f[i] = FieldsOf(f, i)
  <2>1. CASE i \in leaf
    <3>1. f[i] = FieldsOf(none, i)
      <4> HIDE DEF S, none, leaf
      <4> QED BY <1>9, <2>1
    <3>2. i = 0 \/ types[i].kind # "fieldlist"
      BY <2>1
    <3> HIDE DEF leaf, v, next, g, S, N, none
    <3> QED BY <3>1, <3>2 DEF FieldsOf, NoType
  <2>2. CASE i \notin leaf
    <3>1. i \in 1..N /\ types[i].kind = "fieldlist"
      BY <1>1, <2>2
    <3>2. types[i].continuation \in 0..N
      BY <1>1, <3>1
    <3>3. f[types[i].continuation] \in S
      <4> HIDE DEF S, leaf
      <4> QED BY <1>9, <3>2
    <3>4. f[i] = types[i].members \o f[types[i].continuation]
      <4> HIDE DEF S, leaf
      <4> QED BY <1>9, <2>2, <3>3
    <3>5. FieldsOf(f, i) = types[i].members \o f[types[i].continuation]
      <4>1. i # 0 /\ types[i].kind = "fieldlist"
        BY <3>1
      <4> HIDE DEF leaf, v, next, g, S, N, none
      <4> QED BY <4>1 DEF FieldsOf, NoType
    <3> HIDE DEF leaf, v, next, g, S, N, none
    <3> QED BY <3>4, <3>5
  <2> QED BY <2>1, <2>2
<1>11. f = [i \in 0..N |-> FieldsOf(f, i)]
  <2>1. f = [i \in 0..N |-> f[i]]
    <3> HIDE DEF leaf, v, next, g, S, N
    <3> QED BY <1>9
  <2> HIDE DEF leaf, v, next, g, S, N
  <2> QED BY <1>10, <2>1
<1>12. add_fields = [i \in 0..N |-> FieldsOf(add_fields, i)]
  <2> HIDE DEF leaf, v, next, g, S
  <2> QED BY <1>11 DEF add_fields, FieldsOf
<1>13. \A i \in 0..N : add_fields[i] = FieldsOf(add_fields, i)
  <2> HIDE DEF N
  <2> QED BY <1>12
<1> DEFINE Fine(i) == /\ add_fields[i] \in Seq(ToSet(add_fields[i]))
                      /\ \A m \in ToSet(add_fields[i]) : Stopped(m) \/ RefersBelow(m, i)
           Good == {i \in 0..N : Fine(i)}
<1>14. ASSUME NEW i \in 0..N, \A j \in 0..(i - 1) : j \in Good PROVE i \in Good
  <2>1. add_fields[i] = FieldsOf(add_fields, i)
    <3> HIDE DEF N
    <3> QED BY <1>13
  <2>2. CASE i = 0
    <3>1. add_fields[i] = <<>>
      BY <2>1, <2>2 DEF FieldsOf, NoType
    <3>2. ToSet(add_fields[i]) = {} /\ add_fields[i] \in Seq({})
      BY <3>1 DEF ToSet
    <3> QED BY <3>1, <3>2
  <2>3. CASE i # 0 /\ types[i].kind = "fieldlist"
    <3> DEFINE c == types[i].continuation
               p == types[i].members
               q == add_fields[c]
    <3>1. i \in 1..N /\ i \in Nat
      BY <1>1, <2>3
    <3>2. /\ c \in 0..(i - 1) /\ p \in Seq(ToSet(p)) /\ \A m \in ToSet(p) : RefersBelow(m, i)
      BY <1>1, <2>3, <3>1
    <3>3. Fine(c)
      BY <1>14, <3>2
    <3>4. q \in Seq(ToSet(q)) /\ \A m \in ToSet(q) : Stopped(m) \/ RefersBelow(m, c)
      BY <3>3
    <3>5. add_fields[i] = p \o q
      BY <2>1, <2>3 DEF FieldsOf, NoType
    <3>6. \A m : RefersBelow(m, c) => RefersBelow(m, i)
      <4> HIDE DEF p, q, c
      <4> QED BY <3>1, <3>2 DEF RefersBelow
    <3> HIDE DEF p, q, c
    <3>7. p \o q \in Seq(ToSet(p) \cup ToSet(q)) /\ ToSet(p \o q) = ToSet(p) \cup ToSet(q)
      BY <3>2, <3>4, JoinedLists
    <3>8. Fine(i)
      BY <3>2, <3>4, <3>5, <3>6, <3>7
    <3> QED BY <3>8
  <2>4. CASE i # 0 /\ types[i].kind # "fieldlist"
    <3>1. add_fields[i] \in {Stop("error"), Stop("panic")}
      BY <2>1, <2>4 DEF FieldsOf, NoType
    <3>2. ASSUME NEW why \in {"error", "panic"}, add_fields[i] = Stop(why) PROVE Fine(i)
      <4> DEFINE e == [kind |-> why, name |-> why, type |-> NoType, offset |-> 0]
      <4>1. add_fields[i] = <<e>>
        BY <3>2 DEF Stop
      <4>2. e.kind = why
        OBVIOUS
      <4> HIDE DEF e
      <4>3. ToSet(<<e>>) = {e} /\ <<e>> \in Seq({e})
        BY DEF ToSet
      <4>4. Stopped(e)
        BY <4>2 DEF Stopped
      <4> QED BY <4>1, <4>3, <4>4
    <3> QED BY <3>1, <3>2
  <2> QED BY <2>2, <2>3, <2>4
<1> HIDE DEF Good
<1>15. \A i \in 0..N : i \in Good
  <2> HIDE DEF N
  <2> QED BY <1>1, <1>14, Below
<1> QED BY <1>15 DEF TypeIndex, Good

----------------------------------------------------------------------------
(* The parser: types are added from the highest index down                 *)

Phases == {"idle", "scan", "needed", "ok", "error", "panic"}

ParseTypes ==
    /\ IsStream(types)
    /\ parse \in Phases
    /\ cursor \in 0..Len(types)
    /\ added \in Seq(1..Len(types))
    /\ needed_types \subseteq 1..Len(types)

(* Indices rise in added, and what is needed lies below all of them.       *)
Rising ==
    /\ \A k, l \in DOMAIN added : k < l => added[k] < added[l]
    /\ \A k \in DOMAIN added : \A n \in needed_types : n < added[k]

ParseInv ==
    /\ ParseTypes
    /\ Rising
    /\ added # <<>> => IsWanted(Last(added))
    /\ added = <<>> => needed_types = {}
    /\ parse = "scan" => added = <<>>
    /\ parse = "ok" => field_map = fields

LEMMA NeededBelow ==
    ASSUME IsStream(types), NEW i \in 1..Len(types), IsClass(i), Verdict(Listed(i)) = "ok"
    PROVE  NewlyNeeded(i) \subseteq 1..(i - 1)
<1>1. types[i].fields \in 0..(i - 1) /\ Len(types) \in Nat
  BY StreamFacts DEF IsClass
<1>2. types[i].fields \in TypeIndex
  BY <1>1 DEF TypeIndex
<1>3. \A k \in DOMAIN Listed(i) : ~Wrong(Listed(i)[k])
  <2> SUFFICES ASSUME NEW k \in DOMAIN Listed(i), Wrong(Listed(i)[k]) PROVE FALSE
    OBVIOUS
  <2>1. Verdict(Listed(i)) \in {"panic", "error"}
    BY DEF Verdict
  <2> QED BY <2>1
<1>4. ASSUME NEW x \in NewlyNeeded(i) PROVE x \in 1..(i - 1)
  <2>1. PICK m \in ToSet(Listed(i)) : x \in add_field(m)
    BY <1>4 DEF NewlyNeeded
  <2>2. ~Wrong(m)
    BY <1>3 DEF ToSet
  <2>3. 0 \notin add_field(m) /\ ~Stopped(m)
    BY <2>2 DEF Wrong, Stopped, NoType
  <2>4. RefersBelow(m, types[i].fields)
    BY <1>2, <2>3, MemberLists DEF Listed
  <2>5. add_field(m) \subseteq 0..(types[i].fields - 1)
    BY <1>2, <2>4, FieldNeeds
  <2>6. x \in 0..(types[i].fields - 1) /\ x # 0
    BY <2>1, <2>3, <2>5
  <2> QED BY <1>1, <2>6
<1> QED BY <1>4

LEMMA EnumNeedsBelow ==
    ASSUME IsStream(types), NEW i \in 1..Len(types), types[i].kind = "enum",
           EnumVerdict(types[i]) = "ok"
    PROVE  type_name[types[i].underlying] \subseteq 1..(i - 1)
<1> DEFINE u == types[i].underlying
<1>1. u \in 0..(i - 1) /\ Len(types) \in Nat
  BY StreamFacts
<1>2. u \in TypeIndex
  BY <1>1 DEF TypeIndex
<1>3. type_name[u] \subseteq 0..u
  BY <1>2, TypeNames
<1>4. NoType \notin type_name[u]
  BY DEF EnumVerdict
<1> HIDE DEF u
<1>5. \A x \in type_name[u] : x \in 1..(i - 1)
  BY <1>1, <1>3, <1>4 DEF NoType
<1> QED BY <1>5 DEF u

LEMMA AddCases ==
    ASSUME NEW i, NEW rest, Add(i, rest)
    PROVE  \/ parse' \in {"error", "panic"} /\ added' = added /\ needed_types' = {}
           \/ /\ parse' = "needed" /\ IsClass(i) /\ Verdict(Listed(i)) = "ok"
              /\ added' = <<i>> \o added /\ needed_types' = rest \cup NewlyNeeded(i)
           \/ /\ parse' = "needed" /\ added' = added /\ ~IsClass(i)
              /\ \/ needed_types' = rest
                 \/ /\ types[i].kind = "enum" /\ EnumVerdict(types[i]) = "ok"
                    /\ needed_types' = rest \cup type_name[types[i].underlying]
<1> DEFINE verdict == CASE types[i].kind = "bad"  -> "error"
                        [] types[i].kind = "enum" -> EnumVerdict(types[i])
                        [] IsClass(i)             -> Verdict(Listed(i))
                        [] OTHER                  -> "ok"
<1>1. /\ parse' = IF verdict = "ok" THEN "needed" ELSE verdict
      /\ added' = IF verdict = "ok" /\ IsClass(i) THEN <<i>> \o added ELSE added
      /\ needed_types' =
            IF verdict # "ok" THEN {}
            ELSE rest \cup CASE IsClass(i) -> NewlyNeeded(i)
                             [] types[i].kind = "enum" -> type_name[types[i].underlying]
                             [] OTHER -> {}
  BY DEF Add
<1>2. /\ Verdict(Listed(i)) \in {"ok", "error", "panic"}
      /\ EnumVerdict(types[i]) \in {"ok", "error", "panic"}
  BY DEF Verdict, EnumVerdict
<1>3. verdict \in {"ok", "error", "panic"}
  BY <1>2
<1>4. IsClass(i) => types[i].kind = "class"
  BY DEF IsClass
<1>5. verdict = "ok" /\ IsClass(i) => Verdict(Listed(i)) = "ok"
  BY <1>4
<1>6. verdict = "ok" /\ types[i].kind = "enum" => EnumVerdict(types[i]) = "ok" /\ ~IsClass(i)
  BY <1>4
<1> HIDE DEF verdict
<1>7. CASE verdict # "ok"
  BY <1>1, <1>3, <1>7
<1>8. CASE verdict = "ok" /\ IsClass(i)
  <2>1. parse' = "needed" /\ added' = <<i>> \o added
    BY <1>1, <1>8
  <2>2. needed_types' = rest \cup NewlyNeeded(i)
    BY <1>1, <1>4, <1>8
  <2> QED BY <1>5, <1>8, <2>1, <2>2
<1>9. CASE verdict = "ok" /\ ~IsClass(i)
  <2>1. parse' = "needed" /\ added' = added
    BY <1>1, <1>9
  <2>2. CASE types[i].kind = "enum"
    <3>1. needed_types' = rest \cup type_name[types[i].underlying]
      BY <1>1, <1>9, <2>2
    <3> QED BY <1>4, <1>6, <1>9, <2>1, <2>2, <3>1
  <2>3. CASE types[i].kind # "enum"
    <3>1. needed_types' = rest
      BY <1>1, <1>9, <2>3
    <3> QED BY <1>9, <2>1, <3>1
  <2> QED BY <2>2, <2>3
<1> QED BY <1>7, <1>8, <1>9

LEMMA FrontFacts ==
    ASSUME NEW S, NEW s \in Seq(S), NEW e \in S
    PROVE  /\ <<e>> \o s \in Seq(S) /\ <<e>> \o s # <<>>
           /\ DOMAIN (<<e>> \o s) = 1..(Len(s) + 1)
           /\ \A k \in 1..(Len(s) + 1) :
                 (<<e>> \o s)[k] = IF k = 1 THEN e ELSE s[k - 1]
           /\ Last(<<e>> \o s) = IF s = <<>> THEN e ELSE Last(s)
<1>1. Len(s) \in Nat /\ DOMAIN s = 1..Len(s)
  OBVIOUS
<1>2. <<e>> \o s \in Seq(S) /\ Len(<<e>> \o s) = Len(s) + 1
  OBVIOUS
<1>3. \A k \in 1..(Len(s) + 1) : (<<e>> \o s)[k] = IF k = 1 THEN e ELSE s[k - 1]
  OBVIOUS
<1>4. s = <<>> <=> Len(s) = 0
  OBVIOUS
<1>5. Last(<<e>> \o s) = IF Len(s) = 0 THEN e ELSE s[Len(s)]
  BY <1>1, <1>2, <1>3 DEF Last
<1> QED BY <1>1, <1>2, <1>3, <1>4, <1>5 DEF Last

LEMMA AddKeeps ==
    ASSUME ParseTypes, Rising, NEW i \in 1..Len(types), NEW rest, \A n \in rest : n \in 1..(i - 1),
           \A k \in DOMAIN added : i < added[k],
           Add(i, rest)
    PROVE  /\ parse' \in {"needed", "error", "panic"}
           /\ added' \in Seq(1..Len(types)) /\ needed_types' \subseteq 1..Len(types)
           /\ Rising'
           /\ \/ added' = added /\ (IsClass(i) => needed_types' = {})
              \/ /\ IsClass(i) /\ added' # <<>>
                 /\ Last(added') = IF added = <<>> THEN i ELSE Last(added)
<1>1. Len(types) \in Nat /\ IsStream(types) /\ added \in Seq(1..Len(types))
  BY StreamFacts DEF ParseTypes
<1>2. /\ \A k, l \in DOMAIN added : k < l => added[k] < added[l]
      /\ Len(added) \in Nat /\ DOMAIN added = 1..Len(added)
      /\ \A k \in DOMAIN added : added[k] \in 1..Len(types)
  BY <1>1 DEF Rising
<1>3. \A n : n \in 1..(i - 1) => n \in 1..Len(types) /\ n < i
  BY <1>1
<1>4. \A k \in DOMAIN added : \A n \in 1..(i - 1) : n < added[k]
  BY <1>2, <1>3
<1>5. CASE parse' \in {"error", "panic"} /\ added' = added /\ needed_types' = {}
  BY <1>1, <1>2, <1>5 DEF Rising
<1>6. CASE /\ parse' = "needed" /\ IsClass(i) /\ Verdict(Listed(i)) = "ok"
           /\ added' = <<i>> \o added /\ needed_types' = rest \cup NewlyNeeded(i)
  <2>1. \A n \in needed_types' : n \in 1..(i - 1)
    BY <1>1, <1>6, NeededBelow
  <2>2. /\ added' \in Seq(1..Len(types)) /\ added' # <<>>
        /\ DOMAIN added' = 1..(Len(added) + 1)
        /\ \A k \in 1..(Len(added) + 1) : added'[k] = IF k = 1 THEN i ELSE added[k - 1]
        /\ Last(added') = IF added = <<>> THEN i ELSE Last(added)
    BY <1>1, <1>6, FrontFacts
  <2>3. ASSUME NEW k \in DOMAIN added', NEW l \in DOMAIN added', k < l PROVE added'[k] < added'[l]
    <3>1. l - 1 \in DOMAIN added /\ added'[l] = added[l - 1]
      BY <1>2, <2>2, <2>3
    <3>2. CASE k = 1
      BY <2>2, <3>1, <3>2
    <3>3. CASE k # 1
      <4>1. k - 1 \in DOMAIN added /\ added'[k] = added[k - 1] /\ k - 1 < l - 1
        BY <1>2, <2>2, <2>3, <3>3
      <4> QED BY <1>2, <3>1, <4>1
    <3> QED BY <3>2, <3>3
  <2>4. ASSUME NEW k \in DOMAIN added', NEW n \in needed_types' PROVE n < added'[k]
    <3>1. n \in 1..(i - 1)
      BY <2>1
    <3>2. CASE k = 1
      BY <1>3, <2>2, <3>1, <3>2
    <3>3. CASE k # 1
      <4>1. k - 1 \in DOMAIN added /\ added'[k] = added[k - 1]
        BY <1>2, <2>2, <3>3
      <4> QED BY <1>4, <3>1, <4>1
    <3> QED BY <3>2, <3>3
  <2>5. Rising'
    BY <2>3, <2>4 DEF Rising
  <2> QED BY <1>3, <1>6, <2>1, <2>2, <2>5
<1>7. CASE /\ parse' = "needed" /\ added' = added /\ ~IsClass(i)
           /\ \/ needed_types' = rest
              \/ /\ types[i].kind = "enum" /\ EnumVerdict(types[i]) = "ok"
                 /\ needed_types' = rest \cup type_name[types[i].underlying]
  <2>1. \A n \in needed_types' : n \in 1..(i - 1)
    BY <1>1, <1>7, EnumNeedsBelow
  <2>2. Rising'
    BY <1>2, <1>4, <1>7, <2>1 DEF Rising
  <2> QED BY <1>1, <1>3, <1>7, <2>1, <2>2
<1> QED BY <1>5, <1>6, <1>7, AddCases

(* The lists, the names and the fields are functions of the stream.        *)
ListsFrom(ts) ==
    CHOOSE f : f = [i \in 0..Len(ts) |->
        IF i = NoType THEN <<>>
        ELSE LET t == ts[i] IN
            CASE t.kind = "fieldlist" -> t.members \o f[t.continuation]
              [] t.kind = "bad"       -> Stop("error")
              [] OTHER                -> Stop("panic")]

PlacesFrom(lists, ts, i, n) ==
    {k \in DOMAIN lists[ts[i].fields] :
        lists[ts[i].fields][k].kind = "member" /\ lists[ts[i].fields][k].name = n}

FieldsFrom(lists, ts, ad) ==
    [n \in {m.name : m \in {m \in UNION {ToSet(lists[ts[i].fields]) : i \in ToSet(ad)} :
                                m.kind = "member"}} |->
        LET i == ad[highest({k \in DOMAIN ad : PlacesFrom(lists, ts, ad[k], n) # {}})]
        IN  lists[ts[i].fields][highest(PlacesFrom(lists, ts, i, n))].offset]

LEMMA SameFields ==
    ASSUME types' = types, added' = added
    PROVE  fields' = fields
<1>1. add_fields = ListsFrom(types) /\ add_fields' = ListsFrom(types')
  BY DEF add_fields, ListsFrom
<1>2. fields = FieldsFrom(add_fields, types, added)
  BY DEF fields, FieldsFrom, FieldNames, Places, PlacesFrom, Listed
<1>3. fields' = FieldsFrom(add_fields', types', added')
  BY DEF fields, FieldsFrom, FieldNames, Places, PlacesFrom, Listed
<1> QED BY <1>1, <1>2, <1>3

ParseChange ==
    \/ ParseStep
    \/ Reset
    \/ \E name : With(name)
    \/ UNCHANGED pdb_vars

LEMMA ParseKept ==
    ASSUME ParseInv, ParseChange
    PROVE  ParseInv' /\ types' = types
<1>1. /\ ParseTypes /\ Rising /\ (added # <<>> => IsWanted(Last(added)))
      /\ added = <<>> => needed_types = {}
      /\ parse = "scan" => added = <<>>
      /\ parse = "ok" => field_map = fields
  BY DEF ParseInv
<1>2. Len(types) \in Nat /\ IsStream(types) /\ added \in Seq(1..Len(types))
  BY <1>1, StreamFacts DEF ParseTypes
<1>3. ASSUME types' = types, added' = added, needed_types' \subseteq needed_types,
             class_name' = class_name,
             parse' \in Phases \ {"scan"}, cursor' \in 0..Len(types),
             parse' = "ok" => field_map' = fields
      PROVE  ParseInv' /\ types' = types
  <2>1. ParseTypes'
    BY <1>1, <1>2, <1>3 DEF ParseTypes
  <2>2. Rising'
    BY <1>1, <1>3 DEF Rising
  <2>3. (added # <<>> => IsWanted(Last(added)))'
    BY <1>1, <1>3 DEF IsWanted, IsClass
  <2>4. (parse = "ok" => field_map = fields)'
    BY <1>3, SameFields
  <2>5. (added = <<>> => needed_types = {})'
    BY <1>1, <1>3
  <2> QED BY <1>3, <2>1, <2>2, <2>3, <2>4, <2>5 DEF ParseInv
<1>4. ASSUME Reset PROVE ParseInv' /\ types' = types
  BY <1>1, <1>3, <1>4 DEF Reset, ParseTypes, Phases
<1>5. ASSUME NEW name, With(name) PROVE ParseInv' /\ types' = types
  <2>1. /\ class_name' = name /\ parse' = "scan" /\ cursor' = 0 /\ needed_types' = {}
        /\ added' = <<>> /\ field_map' = <<>> /\ types' = types
    BY <1>5 DEF With
  <2>2. ParseTypes'
    BY <1>1, <1>2, <2>1 DEF ParseTypes, Phases
  <2>3. Rising'
    BY <2>1 DEF Rising
  <2> QED BY <2>1, <2>2, <2>3 DEF ParseInv
<1>6. ASSUME UNCHANGED pdb_vars PROVE ParseInv' /\ types' = types
  <2>1. /\ types' = types /\ class_name' = class_name /\ cursor' = cursor
        /\ needed_types' = needed_types /\ added' = added /\ field_map' = field_map
        /\ parse' = parse
    BY <1>6 DEF pdb_vars
  <2>2. CASE parse = "scan"
    <3>1. ParseTypes' /\ Rising'
      BY <1>1, <2>1 DEF ParseTypes, Rising
    <3> QED BY <1>1, <2>1, <2>2, <3>1 DEF ParseInv
  <2>3. CASE parse # "scan"
    BY <1>1, <1>3, <2>1, <2>3 DEF ParseTypes
  <2> QED BY <2>2, <2>3
(* What Add does, with the class added first. *)
<1>7. ASSUME NEW i \in 1..Len(types), NEW rest, \A n \in rest : n \in 1..(i - 1),
             \A k \in DOMAIN added : i < added[k],
             Add(i, rest), added = <<>> => IsWanted(i),
             cursor' \in 0..Len(types), types' = types, class_name' = class_name
      PROVE  ParseInv' /\ types' = types
  <2>1. /\ parse' \in {"needed", "error", "panic"}
        /\ added' \in Seq(1..Len(types)) /\ needed_types' \subseteq 1..Len(types)
        /\ Rising'
        /\ \/ added' = added /\ (IsClass(i) => needed_types' = {})
           \/ /\ IsClass(i) /\ added' # <<>>
              /\ Last(added') = IF added = <<>> THEN i ELSE Last(added)
    BY <1>1, <1>7, AddKeeps
  <2>2. ParseTypes'
    BY <1>2, <1>7, <2>1 DEF ParseTypes, Phases
  <2>3. added' # <<>> => IsWanted(Last(added'))
    BY <1>1, <1>7, <2>1
  <2>4. (added # <<>> => IsWanted(Last(added)))'
    BY <1>7, <2>3 DEF IsWanted, IsClass
  <2>5. added' = <<>> => needed_types' = {}
    BY <1>7, <2>1 DEF IsWanted
  <2> QED BY <1>7, <2>1, <2>2, <2>4, <2>5 DEF ParseInv
<1>8. CASE ScanType
  <2>1. /\ parse = "scan" /\ cursor < Len(types) /\ cursor' = cursor + 1
        /\ types' = types /\ class_name' = class_name /\ field_map' = field_map
        /\ added = <<>> /\ needed_types = {} /\ cursor \in 0..Len(types)
    BY <1>1, <1>8 DEF ScanType, ParseTypes
  <2>2. cursor' \in 1..Len(types) /\ cursor' \in 0..Len(types)
    BY <1>2, <2>1
  <2>3. CASE IsWanted(cursor')
    <3>1. Add(cursor', {})
      BY <1>8, <2>3 DEF ScanType
    <3>2. DOMAIN added = {}
      BY <2>1
    <3> DEFINE i == cursor'
    <3>3. i \in 1..Len(types) /\ Add(i, {}) /\ IsWanted(i) /\ i \in 0..Len(types)
      BY <2>2, <2>3, <3>1
    <3> HIDE DEF i
    <3>4. \A n \in {} : n \in 1..(i - 1)
      OBVIOUS
    <3>5. \A k \in DOMAIN added : i < added[k]
      BY <3>2
    <3> QED BY <1>7, <2>1, <2>2, <3>3, <3>4, <3>5
  <2>4. CASE ~IsWanted(cursor')
    <3>1. parse' = parse /\ added' = added /\ needed_types' = needed_types
      BY <1>8, <2>4 DEF ScanType
    <3>2. ParseTypes' /\ Rising'
      BY <1>1, <1>2, <2>1, <2>2, <3>1 DEF ParseTypes, Rising
    <3> QED BY <2>1, <3>1, <3>2 DEF ParseInv
  <2> QED BY <2>3, <2>4
<1>9. CASE ScanEnds
  BY <1>1, <1>3, <1>9 DEF ScanEnds, ParseTypes, Phases
<1>10. CASE AddNeeded
  <2> DEFINE i == last_needed
  <2>1. /\ needed_types # {} /\ Add(i, needed_types \ {i})
        /\ types' = types /\ class_name' = class_name /\ cursor' = cursor
    BY <1>10 DEF AddNeeded
  <2>2. i \in needed_types /\ \A j \in needed_types : j <= i
    <3>1. \A n \in needed_types : n \in 0..Len(types)
      BY <1>1, <1>2 DEF ParseTypes
    <3>2. \E m \in needed_types : \A j \in needed_types : j <= m
      BY <1>2, <2>1, <3>1, Largest
    <3> QED BY <3>2 DEF last_needed, highest
  <2>3. i \in 1..Len(types) /\ \A n \in needed_types : n \in 1..Len(types)
    BY <1>1, <2>2 DEF ParseTypes
  <2> HIDE DEF i
  <2>4. \A n \in needed_types \ {i} : n \in 1..(i - 1)
    BY <1>2, <2>2, <2>3
  <2>5. \A k \in DOMAIN added : i < added[k]
    BY <1>1, <2>2 DEF Rising
  <2>6. added = <<>> => IsWanted(i)
    BY <1>1, <2>1
  <2>7. cursor' \in 0..Len(types)
    BY <1>1, <2>1 DEF ParseTypes
  <2> DEFINE rest == needed_types \ {i}
  <2>8. Add(i, rest) /\ \A n \in rest : n \in 1..(i - 1)
    BY <2>1, <2>4
  <2> HIDE DEF rest
  <2> QED BY <1>7, <2>1, <2>3, <2>5, <2>6, <2>7, <2>8
<1>11. CASE Collect
  BY <1>1, <1>3, <1>11 DEF Collect, ParseTypes, Phases
<1> QED BY <1>4, <1>5, <1>6, <1>8, <1>9, <1>10, <1>11 DEF ParseChange, ParseStep

LEMMA TypesAreAddedOnce ==
    ASSUME ParseInv
    PROVE  AddedOnce
<1>1. /\ ParseTypes /\ Rising /\ (added # <<>> => IsWanted(Last(added)))
      /\ parse = "ok" => field_map = fields
  BY DEF ParseInv
<1>2. Len(types) \in Nat /\ IsStream(types) /\ added \in Seq(1..Len(types))
  BY <1>1, StreamFacts DEF ParseTypes
<1>3. IsInjective(added)
  <2> SUFFICES ASSUME NEW k \in DOMAIN added, NEW l \in DOMAIN added, added[k] = added[l]
               PROVE  k = l
    BY DEF IsInjective
  <2>1. k \in Nat /\ l \in Nat /\ added[k] \in Nat
    BY <1>2
  <2>2. ~(k < l) /\ ~(l < k)
    BY <1>1, <2>1 DEF Rising
  <2> QED BY <2>1, <2>2
<1>4. ASSUME parse = "ok", added # <<>>
      PROVE  LET own == Listed(Last(added)) IN
                /\ types[Last(added)].name = class_name
                /\ \A k \in DOMAIN own :
                       k \in Places(Last(added), own[k].name)
                         /\ (\A l \in Places(Last(added), own[k].name) : l <= k)
                             => find_field(own[k].name) = {own[k].offset}
  <2> DEFINE c == Last(added)
             own == Listed(c)
  <2>1. /\ Len(added) \in 1..Len(added) /\ DOMAIN added = 1..Len(added)
        /\ c = added[Len(added)] /\ c \in 1..Len(types) /\ Len(added) \in Nat
    BY <1>2, <1>4 DEF Last
  <2>2. IsWanted(c)
    BY <1>1, <1>4
  <2>3. own \in Seq(ToSet(own)) /\ DOMAIN own = 1..Len(own) /\ Len(own) \in Nat
    <3>1. types[c].fields \in TypeIndex
      BY <1>2, <2>1, <2>2, StreamFacts DEF IsWanted, IsClass, TypeIndex
    <3>2. own \in Seq(ToSet(own))
      BY <1>2, <3>1, MemberLists DEF Listed
    <3> HIDE DEF own
    <3> QED BY <3>2
  <2> HIDE DEF c, own
  <2>4. ASSUME NEW k \in DOMAIN own, k \in Places(c, own[k].name),
               \A l \in Places(c, own[k].name) : l <= k
        PROVE  find_field(own[k].name) = {own[k].offset}
    <3> DEFINE n == own[k].name
               D == {d \in DOMAIN added : Places(added[d], n) # {}}
    <3>1. own[k].kind = "member"
      BY <2>4 DEF Places, own
    <3>2. highest(Places(c, n)) = k
      <4>1. \A l \in Places(c, n) : l \in Nat
        BY <2>3 DEF Places, own
      <4>2. k \in Places(c, n) /\ \A l \in Places(c, n) : l <= k
        BY <2>4
      <4> HIDE DEF n
      <4>3. \A x \in Places(c, n) : (\A l \in Places(c, n) : l <= x) => x = k
        BY <4>1, <4>2
      <4> QED BY <4>2, <4>3 DEF highest
    <3>3. highest(D) = Len(added)
      <4>1. Len(added) \in D /\ \A d \in D : d \in Nat /\ d <= Len(added)
        BY <2>1, <2>4
      <4> HIDE DEF D
      <4>2. \A x \in D : (\A d \in D : d <= x) => x = Len(added)
        BY <4>1
      <4> QED BY <4>1, <4>2 DEF highest
    <3>4. n \in FieldNames
      <4>1. c \in ToSet(added) /\ own[k] \in ToSet(own)
        BY <2>1 DEF ToSet
      <4>2. own[k] \in UNION {ToSet(Listed(i)) : i \in ToSet(added)}
        BY <4>1 DEF own
      <4> QED BY <3>1, <4>2 DEF FieldNames
    <3>5. field_map = fields
      BY <1>1, <1>4
    <3>6. fields[n] = Listed(added[highest(D)])[highest(Places(added[highest(D)], n))].offset
      BY <3>4 DEF fields
    <3>7. fields[n] = own[k].offset
      BY <2>1, <3>2, <3>3, <3>6 DEF own
    <3>8. n \in DOMAIN field_map
      BY <3>4, <3>5 DEF fields
    <3> HIDE DEF n
    <3>9. find_field(n) = {own[k].offset}
      BY <3>5, <3>7, <3>8 DEF find_field
    <3> QED BY <3>9 DEF n
  <2>5. types[c].name = class_name
    BY <2>2 DEF IsWanted
  <2> QED BY <2>4, <2>5 DEF c, own
<1> QED BY <1>3, <1>4, Zenon DEF AddedOnce


----------------------------------------------------------------------------
(* A step changes one builder *)

Fields     == {"pc", "archs", "sb", "probe", "info", "fallback", "buffer", "offsets", "sysproc_dtb"}
InfoFields == {"base", "guid", "winver", "eprocess"}

Shape(r) == DOMAIN r = Fields /\ DOMAIN r.info = InfoFields
Shapes   == DOMAIN builder = Builders /\ \A b \in Builders : Shape(builder[b])

Only(b) == /\ scenario' = scenario /\ Shapes'
           /\ \A c \in Builders : c # b => builder'[c] = builder[c]

LEMMA StepOnly ==
    ASSUME Shapes, NEW b \in Builders, BuildStep(b) \/ Crash(b)
    PROVE  Only(b)
<1>1. DOMAIN builder = Builders /\ \A c \in Builders : Shape(builder[c])
  BY DEF Shapes
<1>2. DOMAIN builder[b] = Fields /\ DOMAIN builder[b].info = InfoFields
  BY <1>1 DEF Shape
<1> DEFINE Changes == /\ DOMAIN builder' = Builders /\ Shape(builder'[b])
                      /\ \A c \in Builders : c # b => builder'[c] = builder[c]
<1>3. ASSUME scenario' = scenario, Changes PROVE Only(b)
  BY <1>1, <1>3 DEF Only, Shapes
<1>4. /\ \A pc : Go(b, pc) => Changes
      /\ \A page : Located(b, page) => Changes
      /\ ScanFails(b) => Changes
  BY <1>1, <1>2 DEF Go, Located, NoImage, ScanFails, Shape, Fields, InfoFields
<1>5. CASE Build(b)
  <2> DEFINE u == settings(b)
  <2>1. scenario' = scenario
    BY <1>5 DEF Build, OnlyBuilder
  <2>2. CASE u.arch # None /\ u.dtb # NoHint /\ u.kernel_hint # NoHint
    <3>1. builder' = [builder EXCEPT
                ![b].pc = "ntos", ![b].probe = u.kernel_hint - (u.kernel_hint % Align),
                ![b].sb = [arch |-> u.arch, kernel_hint |-> u.kernel_hint, dtb |-> u.dtb]]
      BY <1>5, <2>2 DEF Build
    <3> QED BY <1>1, <1>2, <1>3, <2>1, <3>1 DEF Shape, Fields, InfoFields
  <2>3. CASE ~(u.arch # None /\ u.dtb # NoHint /\ u.kernel_hint # NoHint)
    <3> DEFINE archs == IF u.arch = None THEN <<"x64", "x32_pae", "x32">> ELSE <<u.arch>>
    <3>1. builder' = [builder EXCEPT
                    ![b].pc = IF archs[1] = "x64" THEN "lowstub" ELSE "low16m", ![b].archs = archs]
      BY <1>5, <2>3 DEF Build
    <3> HIDE DEF archs
    <3> QED BY <1>1, <1>2, <1>3, <2>1, <3>1 DEF Shape, Fields, InfoFields
  <2> QED BY <2>2, <2>3
<1>6. CASE ReadLowStub(b)
  BY <1>1, <1>2, <1>3, <1>4, <1>6
          DEF ReadLowStub, OnlyBuilder, FindsBlock, NotHere, Shape, Fields, InfoFields
<1>7. CASE ReadLow16M(b)
  BY <1>1, <1>2, <1>3, <1>4, <1>7
          DEF ReadLow16M, OnlyBuilder, FindsBlock, NotHere, Shape, Fields, InfoFields
<1>8. CASE ProbeHint(b)
  BY <1>1, <1>2, <1>3, <1>4, <1>8
          DEF ProbeHint, OnlyBuilder, Located, NoImage, Shape, Fields, InfoFields
<1>9. CASE SearchPageMap(b)
  BY <1>3, <1>4, <1>9 DEF SearchPageMap, OnlyBuilder
<1>10. CASE SearchX86(b)
  BY <1>1, <1>2, <1>3, <1>4, <1>10
          DEF SearchX86, OnlyBuilder, Located, NoImage, ScanFails, Shape, Fields, InfoFields
<1>11. CASE FindGuid(b)
  BY <1>1, <1>2, <1>3, <1>4, <1>11 DEF FindGuid, OnlyBuilder, Shape, Fields, InfoFields
<1>12. CASE FindWinver(b)
  BY <1>1, <1>2, <1>3, <1>4, <1>12 DEF FindWinver, OnlyBuilder, Shape, Fields, InfoFields
<1>13. CASE FindSysproc(b)
  BY <1>1, <1>2, <1>3, <1>4, <1>13 DEF FindSysproc, OnlyBuilder, ScanFails, Shape, Fields, InfoFields
<1>14. CASE OpenStore(b)
  BY <1>1, <1>2, <1>3, <1>4, <1>14 DEF OpenStore, OnlyBuilder, Shape, Fields, InfoFields
<1>15. CASE ReadCache(b)
  BY <1>1, <1>2, <1>3, <1>4, <1>15 DEF ReadCache, OnlyBuilder, Shape, Fields, InfoFields
<1>16. CASE Download(b)
  BY <1>1, <1>2, <1>3, <1>4, <1>16 DEF Download, OnlyBuilder, Fetched, Shape, Fields, InfoFields
<1>17. CASE CreateFile(b)
  BY <1>1, <1>2, <1>3, <1>4, <1>17 DEF CreateFile, OnlyBuilder, Cacheless, Shape, Fields, InfoFields
<1>18. CASE WriteFile(b)
  BY <1>1, <1>2, <1>3, <1>4, <1>18 DEF WriteFile, OnlyBuilder, Cacheless, Shape, Fields, InfoFields
<1>19. CASE FromPdb(b)
  BY <1>1, <1>2, <1>3, <1>4, <1>19 DEF FromPdb, OnlyBuilder, Shape, Fields, InfoFields
<1>20. CASE ParsePdb(b)
  BY <1>1, <1>2, <1>3, <1>4, <1>20 DEF ParsePdb, OnlyBuilder, Shape, Fields, InfoFields
<1>21. CASE NextStruct(b)
  BY <1>1, <1>2, <1>3, <1>4, <1>21
          DEF NextStruct, OnlyBuilder, UsePdb, Finish, Shape, Fields, InfoFields
<1>22. CASE PdbFails(b)
  BY <1>1, <1>2, <1>3, <1>4, <1>22
          DEF PdbFails, OnlyBuilder, UsePdb, Finish, Shape, Fields, InfoFields
<1>23. CASE UseList(b)
  BY <1>1, <1>2, <1>3, <1>4, <1>23 DEF UseList, OnlyBuilder, Shape, Fields, InfoFields
<1>24. CASE NewKernel(b)
  BY <1>1, <1>2, <1>3, <1>4, <1>24 DEF NewKernel, OnlyBuilder, Uses, Shape, Fields, InfoFields
<1>25. CASE Crash(b)
  BY <1>1, <1>2, <1>3, <1>4, <1>25 DEF Crash, OnlyBuilder, Shape, Fields, InfoFields
<1> QED BY <1>5, <1>6, <1>7, <1>8, <1>9, <1>10, <1>11, <1>12, <1>13, <1>14, <1>15, <1>16,
        <1>17, <1>18, <1>19, <1>20, <1>21, <1>22, <1>23, <1>24, <1>25 DEF BuildStep

----------------------------------------------------------------------------
(* Every type is added once *)

LEMMA StepParses ==
    ASSUME NEW b \in Builders, BuildStep(b) \/ Crash(b)
    PROVE  ParseChange
<1>1. CASE FromPdb(b)
  BY <1>1 DEF FromPdb, ParseChange, pdb_vars
<1>2. CASE ParsePdb(b)
  BY <1>2 DEF ParsePdb, ParseChange
<1>3. CASE NextStruct(b)
  BY <1>3, Zenon DEF NextStruct, UsePdb, Finish, ParseChange
<1>4. CASE PdbFails(b)
  BY <1>4, Zenon DEF PdbFails, UsePdb, Finish, ParseChange
<1>5. CASE Crash(b)
  BY <1>5 DEF Crash, ParseChange, pdb_vars
<1>6. ASSUME OnlyBuilder \/ Cacheless PROVE ParseChange
  BY <1>6 DEF OnlyBuilder, Cacheless, ParseChange
<1>7. CASE Build(b) \/ ReadLowStub(b) \/ ReadLow16M(b) \/ ProbeHint(b) \/ SearchPageMap(b)
  BY <1>6, <1>7 DEF Build, ReadLowStub, ReadLow16M, ProbeHint, SearchPageMap
<1>8. CASE SearchX86(b) \/ FindGuid(b) \/ FindWinver(b) \/ FindSysproc(b) \/ OpenStore(b)
  BY <1>6, <1>8 DEF SearchX86, FindGuid, FindWinver, FindSysproc, OpenStore
<1>9. CASE ReadCache(b) \/ Download(b) \/ CreateFile(b) \/ WriteFile(b)
  BY <1>6, <1>9 DEF ReadCache, Download, CreateFile, WriteFile
<1>10. CASE UseList(b) \/ NewKernel(b)
  BY <1>6, <1>10 DEF UseList, NewKernel
<1> QED BY <1>1, <1>2, <1>3, <1>4, <1>5, <1>7, <1>8, <1>9, <1>10 DEF BuildStep

LEMMA FirstShapes == StartInit => Shapes /\ scenario \in Scenarios
<1> SUFFICES ASSUME StartInit PROVE Shapes /\ scenario \in Scenarios
  OBVIOUS
<1>1. builder = [b \in Builders |-> NewBuilder(b)] /\ scenario \in Scenarios
  BY DEF StartInit
<1>2. ASSUME NEW b \in Builders PROVE Shape(NewBuilder(b))
  BY DEF NewBuilder, Shape, NoImage, Fields, InfoFields
<1> QED BY <1>1, <1>2 DEF Shapes

KeptShapes == Shapes /\ scenario \in Scenarios

LEMMA ShapesKept == StartSpec => []KeptShapes
<1>1. StartInit => KeptShapes
  BY FirstShapes DEF KeptShapes
<1>2. KeptShapes /\ [StartNext]_kvars => KeptShapes'
  <2> SUFFICES ASSUME KeptShapes, [StartNext]_kvars PROVE KeptShapes'
    OBVIOUS
  <2>1. CASE StartNext
    <3>1. PICK b \in Builders : BuildStep(b) \/ Crash(b)
      BY <2>1 DEF StartNext
    <3> QED BY <3>1, StepOnly DEF KeptShapes, Only
  <2>2. CASE UNCHANGED kvars
    BY <2>2 DEF KeptShapes, kvars, svars, Shapes, Shape
  <2> QED BY <2>1, <2>2
<1> QED BY <1>1, <1>2, PTL DEF StartSpec

LEMMA FirstParse == StartInit => ParseInv
<1> SUFFICES ASSUME StartInit PROVE ParseInv
  OBVIOUS
<1>1. /\ types = scenario.pdb /\ cursor = 0 /\ needed_types = {} /\ added = <<>>
      /\ parse = "idle" /\ IsStream(types)
  BY StreamsAssumption DEF StartInit
<1>2. Len(types) \in Nat /\ DOMAIN added = {}
  BY <1>1, StreamFacts
<1>3. ParseTypes
  BY <1>1, <1>2 DEF ParseTypes, Phases
<1>4. Rising
  BY <1>1, <1>2 DEF Rising
<1> QED BY <1>1, <1>3, <1>4 DEF ParseInv

(* Invariant: PdbStruct::with adds no type twice, and the map it ends with *)
(* has the structure's own fields at their own offsets                     *)
(* (offsets/pdb_struct.rs, pdb_struct/data.rs).                            *)
THEOREM AddedOnceAlways == StartSpec => []AddedOnce
<1>1. StartInit => ParseInv
  BY FirstParse
<1>2. ParseInv /\ [StartNext]_kvars => ParseInv'
  <2> SUFFICES ASSUME ParseInv, [StartNext]_kvars PROVE ParseInv'
    OBVIOUS
  <2>1. CASE StartNext
    <3>1. PICK b \in Builders : BuildStep(b) \/ Crash(b)
      BY <2>1 DEF StartNext
    <3> QED BY <3>1, StepParses, ParseKept
  <2>2. CASE UNCHANGED kvars
    BY <2>2, ParseKept DEF kvars, ParseChange
  <2> QED BY <2>1, <2>2
<1>3. ParseInv => AddedOnce
  BY TypesAreAddedOnce
<1> QED BY <1>1, <1>2, <1>3, PTL DEF StartSpec

----------------------------------------------------------------------------
(* The cache of symbol files *)

LeftInv ==
    /\ NoEmptyLeftovers
    /\ \A b \in Builders :
            builder[b].pc \in {"create", "write"} => builder[b].buffer \in {"pdb", "ptr"}

LEMMA LeftStep ==
    ASSUME LeftInv, Shapes, NEW b \in Builders, BuildStep(b) \/ Crash(b)
    PROVE  LeftInv'
<1>1. /\ DOMAIN builder = Builders /\ DOMAIN builder[b] = Fields
      /\ \A c \in Builders : c # b => builder'[c] = builder[c]
      /\ DOMAIN builder' = Builders
  BY StepOnly DEF Shapes, Shape, Only
<1>2. /\ cache_file = "empty" => \E c \in Builders : builder[c].pc \in {"write", "crashed"}
      /\ \A c \in Builders :
            builder[c].pc \in {"create", "write"} => builder[c].buffer \in {"pdb", "ptr"}
  BY DEF LeftInv, NoEmptyLeftovers
<1>3. ASSUME cache_file' = cache_file, builder[b].pc \notin {"write", "crashed"},
             builder'[b].pc \notin {"create", "write"}
      PROVE  LeftInv'
  BY <1>1, <1>2, <1>3 DEF LeftInv, NoEmptyLeftovers
<1>4. /\ \A pc : Go(b, pc) => builder'[b].pc = pc /\ builder'[b].buffer = builder[b].buffer
      /\ \A page : Located(b, page) => builder'[b].pc = "guid"
      /\ ScanFails(b) => builder'[b].pc \in {"failed", "low16m"}
      /\ NotHere(b) => builder'[b].pc \in {"failed", "low16m"}
      /\ \A s : FindsBlock(b, s) => builder'[b].pc = "ntos"
      /\ \A d : Uses(b, d) => builder'[b].pc = "ready"
      /\ \A m : UsePdb(b, m) => builder'[b].pc = "dtb"
  <2>1. \A pc : Go(b, pc) => builder'[b].pc = pc /\ builder'[b].buffer = builder[b].buffer
    BY <1>1 DEF Go, Fields
  <2>2. \A page : Located(b, page) => builder'[b].pc = "guid"
    BY <1>1 DEF Located, Fields
  <2>3. ScanFails(b) => builder'[b].pc \in {"failed", "low16m"}
    BY <1>1 DEF ScanFails, Fields
  <2>4. NotHere(b) => builder'[b].pc \in {"failed", "low16m"}
    BY <1>1 DEF NotHere, Fields
  <2>5. \A s : FindsBlock(b, s) => builder'[b].pc = "ntos"
    BY <1>1 DEF FindsBlock, Fields
  <2>6. \A d : Uses(b, d) => builder'[b].pc = "ready"
    BY <1>1 DEF Uses, Fields
  <2>7. \A m : UsePdb(b, m) => builder'[b].pc = "dtb"
    BY <1>1 DEF UsePdb, Fields
  <2> QED BY <2>1, <2>2, <2>3, <2>4, <2>5, <2>6, <2>7, Zenon
<1>5. CASE Build(b) \/ ReadLowStub(b) \/ ReadLow16M(b) \/ ProbeHint(b) \/ SearchPageMap(b)
  <2>1. cache_file' = cache_file
    BY <1>5 DEF Build, ReadLowStub, ReadLow16M, ProbeHint, SearchPageMap, OnlyBuilder
  <2>2. builder[b].pc \in {"build", "lowstub", "low16m", "ntos"}
    BY <1>5 DEF Build, ReadLowStub, ReadLow16M, ProbeHint, SearchPageMap, IsAt
  <2>3. CASE Build(b)
    <3>1. builder'[b].pc \in {"ntos", "lowstub", "low16m"}
      BY <1>1, <2>3 DEF Build, Fields
    <3> QED BY <1>3, <2>1, <2>2, <3>1
  <2>4. CASE ReadLowStub(b) \/ ReadLow16M(b)
    BY <1>3, <1>4, <2>1, <2>2, <2>4 DEF ReadLowStub, ReadLow16M
  <2>5. CASE ProbeHint(b)
    <3>1. builder'[b].pc \in {"guid", "ntos"}
      BY <1>1, <1>4, <2>2, <2>5 DEF ProbeHint, IsAt, Fields
    <3> QED BY <1>3, <2>1, <2>2, <3>1
  <2>6. CASE SearchPageMap(b)
    BY <1>3, <1>4, <2>1, <2>2, <2>6 DEF SearchPageMap
  <2> QED BY <1>5, <2>3, <2>4, <2>5, <2>6
<1>6. CASE SearchX86(b) \/ FindGuid(b) \/ FindWinver(b) \/ FindSysproc(b) \/ OpenStore(b)
  <2>1. cache_file' = cache_file
    BY <1>6 DEF SearchX86, FindGuid, FindWinver, FindSysproc, OpenStore, OnlyBuilder
  <2>2. builder[b].pc \in {"ntos", "guid", "winver", "sysproc", "offsets"}
    BY <1>6 DEF SearchX86, FindGuid, FindWinver, FindSysproc, OpenStore, IsAt
  <2>3. builder'[b].pc \in {"guid", "failed", "low16m", "winver", "sysproc", "offsets", "list",
                            "read", "download"}
    BY <1>1, <1>4, <1>6 DEF SearchX86, FindGuid, FindWinver, FindSysproc, OpenStore, Fields
  <2> QED BY <1>3, <2>1, <2>2, <2>3
<1>7. CASE \/ ReadCache(b) \/ FromPdb(b) \/ ParsePdb(b) \/ NextStruct(b) \/ PdbFails(b)
           \/ UseList(b) \/ NewKernel(b)
  <2>1. cache_file' = cache_file
    BY <1>7 DEF ReadCache, FromPdb, ParsePdb, NextStruct, PdbFails, UseList, NewKernel, OnlyBuilder
  <2>2. builder[b].pc \in {"read", "parse", "list", "dtb"}
    BY <1>7
            DEF ReadCache, FromPdb, ParsePdb, NextStruct, PdbFails, UseList, NewKernel, IsAt, Parses
  <2>3. builder'[b].pc \notin {"create", "write"}
    <3>1. CASE ReadCache(b)
      BY <1>1, <1>4, <3>1 DEF ReadCache, Fields
    <3>2. CASE FromPdb(b) \/ ParsePdb(b)
      BY <1>4, <2>2, <3>2 DEF FromPdb, ParsePdb
    <3>3. CASE NextStruct(b) \/ PdbFails(b)
      BY <1>4, <2>2, <3>3 DEF NextStruct, PdbFails
    <3>4. CASE UseList(b) \/ NewKernel(b)
      BY <1>1, <1>4, <3>4 DEF UseList, NewKernel, Fields
    <3> QED BY <1>7, <3>1, <3>2, <3>3, <3>4
  <2> QED BY <1>3, <2>1, <2>2, <2>3
<1>8. CASE Download(b)
  BY <1>1, <1>2, <1>4, <1>8 DEF Download, Fetched, Fields, OnlyBuilder, IsAt, LeftInv, NoEmptyLeftovers
<1>9. CASE CreateFile(b)
  BY <1>1, <1>2, <1>4, <1>9 DEF CreateFile, IsAt, LeftInv, NoEmptyLeftovers
<1>10. CASE WriteFile(b)
  BY <1>1, <1>2, <1>4, <1>10 DEF WriteFile, IsAt, LeftInv, NoEmptyLeftovers
<1>11. CASE Crash(b)
  BY <1>1, <1>2, <1>4, <1>11 DEF Crash, IsAt, LeftInv, NoEmptyLeftovers, Ended
<1> QED BY <1>5, <1>6, <1>7, <1>8, <1>9, <1>10, <1>11 DEF BuildStep

(* Invariant: an empty file in the cache is being written, or its writer   *)
(* crashed: the download comes first, and only then is the file created    *)
(* (SymbolStore::load, offsets/symstore.rs).                               *)
THEOREM NoEmptyLeftoversAlways == StartSpec => []NoEmptyLeftovers
<1>1. StartInit => LeftInv
  <2> SUFFICES ASSUME StartInit PROVE LeftInv
    OBVIOUS
  <2>1. cache_file = "none" /\ builder = [b \in Builders |-> NewBuilder(b)]
    BY DEF StartInit
  <2>2. \A b \in Builders : builder[b].pc \in {"build", "absent"}
    BY <2>1 DEF NewBuilder
  <2> QED BY <2>1, <2>2 DEF LeftInv, NoEmptyLeftovers
<1>2. KeptShapes /\ LeftInv /\ [StartNext]_kvars => LeftInv'
  <2> SUFFICES ASSUME KeptShapes, LeftInv, [StartNext]_kvars PROVE LeftInv'
    OBVIOUS
  <2>1. CASE StartNext
    BY <2>1, LeftStep DEF StartNext, KeptShapes
  <2>2. CASE UNCHANGED kvars
    BY <2>2 DEF LeftInv, NoEmptyLeftovers, kvars, svars
  <2> QED BY <2>1, <2>2
<1>3. LeftInv => NoEmptyLeftovers
  BY DEF LeftInv
<1> QED BY <1>1, <1>2, <1>3, ShapesKept, PTL DEF StartSpec

----------------------------------------------------------------------------
(* The kernel image in an address space *)

LEMMA Lowest ==
    ASSUME NEW S, \A x \in S : x \in Nat
    PROVE  /\ S = {} => lowest(S) = 0
           /\ S # {} => lowest(S) \in S /\ \A y \in S : lowest(S) <= y
<1>1. ASSUME S # {} PROVE \E x \in S : \A y \in S : x <= y
  BY <1>1, Smallest
<1> QED BY <1>1 DEF lowest

NtosAt(s, page) == IsHeader(s, page) /\ IsNtos(s.images[page])

LEMMA NamedNtos ==
    ASSUME NEW s, NEW page, IsHeader(s, page)
    PROVE  try_get_pe_name(s, page) = "ntoskrnl.exe" <=> IsNtos(s.images[page])
BY DEF try_get_pe_name, IsNtos, None

LEMMA SpaceFacts ==
    ASSUME scenario \in Scenarios, NEW b
    PROVE  /\ \A page \in Space(b).mapped : page \in Nat /\ page # 0
           /\ \A page : IsHeader(Space(b), page) =>
                /\ builder[b].sb.arch = guest.kernel.arch
                /\ builder[b].sb.dtb \in DOMAIN guest.spaces
                /\ Space(b) = guest.spaces[builder[b].sb.dtb]
                /\ IsNtos(Space(b).images[page]) => IsKernel(Space(b).images[page], guest.kernel)
<1> DEFINE arch == builder[b].sb.arch
           dtb  == builder[b].sb.dtb
<1>1. CASE arch = guest.kernel.arch /\ dtb \in DOMAIN guest.spaces
  <2>1. Space(b) = guest.spaces[dtb]
    BY <1>1 DEF Space, space
  <2>2. /\ guest.spaces[dtb].mapped \subseteq Nat \ {0}
        /\ \A page \in DOMAIN guest.spaces[dtb].images :
                IsNtos(guest.spaces[dtb].images[page])
                    => IsKernel(guest.spaces[dtb].images[page], guest.kernel)
    BY <1>1, GuestsAssumption DEF guest
  <2> QED BY <1>1, <2>1, <2>2 DEF IsHeader
<1>2. CASE ~(arch = guest.kernel.arch /\ dtb \in DOMAIN guest.spaces)
  <2>1. Space(b).mapped = {}
    BY <1>2 DEF Space, space
  <2> QED BY <2>1 DEF IsHeader
<1> QED BY <1>1, <1>2

LEMMA FoundFrom ==
    ASSUME scenario \in Scenarios, NEW b, NEW va_base
    PROVE  LET page == find_with_va(Space(b), va_base) IN
              /\ page \in Nat
              /\ page # 0 => NtosAt(Space(b), page)
<1> DEFINE s == Space(b)
           S == {page \in va_base..(va_base + Chunk - 1) :
                    IsHeader(s, page) /\ try_get_pe_name(s, page) = "ntoskrnl.exe"}
<1>1. \A x \in S : x \in Nat /\ NtosAt(s, x)
  <2> SUFFICES ASSUME NEW x \in S PROVE x \in Nat /\ NtosAt(s, x)
    OBVIOUS
  <2>1. IsHeader(s, x) /\ try_get_pe_name(s, x) = "ntoskrnl.exe"
    OBVIOUS
  <2>2. x \in Nat
    BY <2>1, SpaceFacts DEF IsHeader
  <2> QED BY <2>1, <2>2, NamedNtos DEF NtosAt
<1>2. find_with_va(s, va_base) = lowest(S)
  BY DEF find_with_va
<1> HIDE DEF S, s
<1> QED BY <1>1, <1>2, Lowest DEF s

LEMMA FoundInMap ==
    ASSUME scenario \in Scenarios, NEW b, NEW unread
    PROVE  LET page == find_with_page_map(Space(b), unread) IN
              page # 0 => NtosAt(Space(b), page)
<1> DEFINE s == Space(b)
           S == {find_with_va(s, c) : c \in whole_chunks(s) \ unread} \ {0}
<1>1. \A x \in S : x \in Nat /\ NtosAt(s, x)
  BY FoundFrom
<1>2. find_with_page_map(s, unread) = lowest(S)
  BY DEF find_with_page_map
<1> HIDE DEF S, s
<1> QED BY <1>1, <1>2, Lowest DEF s

LEMMA FoundX86 ==
    ASSUME scenario \in Scenarios, NEW b
    PROVE  LET page == find_x86(Space(b)) IN page # 0 => NtosAt(Space(b), page)
<1> DEFINE s == Space(b)
           S == {page \in s.mapped : try_get_pe_name(s, page) = "ntoskrnl.exe"}
<1>1. \A x \in S : x \in Nat /\ NtosAt(s, x)
  <2> SUFFICES ASSUME NEW x \in S PROVE x \in Nat /\ NtosAt(s, x)
    OBVIOUS
  <2>1. x \in s.mapped /\ try_get_pe_name(s, x) = "ntoskrnl.exe"
    OBVIOUS
  <2>2. x \in Nat
    BY <2>1, SpaceFacts
  <2>3. IsHeader(s, x)
    BY <2>1 DEF try_get_pe_name, None
  <2> QED BY <2>1, <2>2, <2>3, NamedNtos DEF NtosAt
<1>2. find_x86(s) = lowest(S)
  BY DEF find_x86
<1> HIDE DEF S, s
<1> QED BY <1>1, <1>2, Lowest DEF s

----------------------------------------------------------------------------
(* Entries of the embedded list *)

(* What FindWinver may leave in info. *)
ReadVersion(v) ==
    \/ v = Default
    \/ \E d \in DOMAIN guest.spaces : \E page \in DOMAIN guest.spaces[d].images :
            /\ IsNtos(guest.spaces[d].images[page])
            /\ v = find_winver(guest.spaces[d], guest.spaces[d].images[page])

LEMMA BuildRead ==
    ASSUME scenario \in Scenarios, NEW v, ReadVersion(v)
    PROVE  v = Default \/ v[3] = guest.kernel.build
<1>1. CASE v = Default
  BY <1>1
<1>2. CASE \E d \in DOMAIN guest.spaces : \E page \in DOMAIN guest.spaces[d].images :
            /\ IsNtos(guest.spaces[d].images[page])
            /\ v = find_winver(guest.spaces[d], guest.spaces[d].images[page])
  <2>1. PICK d \in DOMAIN guest.spaces : \E page \in DOMAIN guest.spaces[d].images :
            /\ IsNtos(guest.spaces[d].images[page])
            /\ v = find_winver(guest.spaces[d], guest.spaces[d].images[page])
    BY <1>2
  <2>1a. PICK page \in DOMAIN guest.spaces[d].images :
          /\ IsNtos(guest.spaces[d].images[page])
          /\ v = find_winver(guest.spaces[d], guest.spaces[d].images[page])
    BY <2>1
  <2> DEFINE image == guest.spaces[d].images[page]
             w     == IF guest.spaces[d].user[1] = 0 THEN rtl_get_version(image)
                      ELSE guest.spaces[d].user
  <2>2. image.build \in {0, guest.kernel.build}
    BY <2>1a, GuestsAssumption DEF guest, IsKernel
  <2>3. v = IF image.build = 0 THEN Default ELSE <<w[1], w[2], image.build>>
    BY <2>1a DEF find_winver
  <2> HIDE DEF w, image
  <2> QED BY <2>2, <2>3
<1> QED BY <1>1, <1>2 DEF ReadVersion

LEMMA ListFits ==
    ASSUME scenario \in Scenarios, NEW info, NEW i,
           info.guid \in {None, guest.kernel.guid}, ReadVersion(info.winver),
           i \in build_with_offset_list(info, guest.kernel.arch)
    PROVE  Fits(OffsetList[i])
<1> DEFINE k     == guest.kernel
           v     == info.winver
           arch  == bits_arch(k.arch)
           exact == {j \in DOMAIN OffsetList : info.guid # None /\ OffsetList[j].guid = info.guid}
           near  == not_newer(v, arch)
<1>1. DOMAIN OffsetList \subseteq Nat
  BY StructsAssumption DEF IsList
<1>2. CASE exact # {}
  <2>1. i = lowest(exact)
    BY <1>2 DEF build_with_offset_list
  <2>2. i \in exact
    BY <1>1, <1>2, <2>1, Lowest
  <2> QED BY <2>2 DEF Fits
<1>3. CASE exact = {}
  <2>1. i \in closest(near)
    BY <1>3 DEF build_with_offset_list
  <2>2. i \in near /\ \A j \in near : \/ OffsetList[j].build < OffsetList[i].build
                                      \/ OffsetList[j].build = OffsetList[i].build
    BY <2>1 DEF closest
  <2> DEFINE e == OffsetList[i]
  <2>3. /\ i \in DOMAIN OffsetList /\ <<e.major, e.minor>> = <<v[1], v[2]>>
        /\ v[3] >= e.build /\ e.arch = arch
    BY <2>2 DEF not_newer
  <2>4. e.build \in Nat /\ <<e.major, e.minor>> # <<0, 0>>
    BY <2>3, ListAssumption
  <2>5. v # Default
    BY <2>3, <2>4 DEF Default
  <2>6. v[3] = k.build
    BY <2>5, BuildRead
  <2>7. <<e.major, e.minor>> = <<k.major, k.minor>>
    <3>1. PICK d \in DOMAIN guest.spaces : \E page \in DOMAIN guest.spaces[d].images :
            /\ IsNtos(guest.spaces[d].images[page])
            /\ v = find_winver(guest.spaces[d], guest.spaces[d].images[page])
      BY <2>5 DEF ReadVersion
    <3>1a. PICK page \in DOMAIN guest.spaces[d].images :
            /\ IsNtos(guest.spaces[d].images[page])
            /\ v = find_winver(guest.spaces[d], guest.spaces[d].images[page])
      BY <3>1
    <3>2. <<e.major, e.minor>> # <<k.major, k.minor>> =>
            <<e.major, e.minor>> # <<v[1], v[2]>>
      BY <2>3, <3>1a, ListAssumption DEF guest
    <3> QED BY <2>3, <3>2
  <2>8. ASSUME NEW j \in DOMAIN OffsetList,
               <<OffsetList[j].major, OffsetList[j].minor, OffsetList[j].arch>>
                    = <<e.major, e.minor, e.arch>>
        PROVE  OffsetList[j].build <= e.build \/ OffsetList[j].build > k.build
    <3>1. OffsetList[j].build \in Nat /\ k.build \in Nat
      BY ListAssumption, GuestsAssumption DEF guest
    <3>2. CASE v[3] >= OffsetList[j].build
      <4>1. j \in near
        BY <2>3, <2>8, <3>2 DEF not_newer
      <4> QED BY <2>2, <2>4, <3>1, <4>1
    <3>3. CASE ~(v[3] >= OffsetList[j].build)
      BY <2>6, <3>1, <3>3
    <3> QED BY <3>2, <3>3
  <2> QED BY <2>3, <2>6, <2>7, <2>8 DEF Fits
<1> QED BY <1>2, <1>3

----------------------------------------------------------------------------
(* The offsets of a kernel *)

Looking == {"guid", "winver", "sysproc"}
Storing == {"read", "download", "create", "write", "parse"}
Chosen  == Looking \cup Storing \cup {"offsets", "list", "dtb", "ready"}

Fitting(b) ==
    LET offsets == builder[b].offsets IN
        IF offsets[1] = "list" THEN Fits(OffsetList[offsets[2]])
        ELSE /\ builder[b].info.guid = guest.kernel.guid
             /\ \A k \in 1..(Len(Structs) - 1) : Structs[k].required \subseteq DOMAIN offsets[2][k]

(* What a builder knows is of the kernel that runs: where it looks is an   *)
(* image of it, and what it has read there is true.                        *)
Fit(b) ==
    LET r == builder[b] IN
        /\ r.pc \in Looking => NtosAt(Space(b), r.info.base)
        /\ r.pc \in Chosen => r.sb.arch = guest.kernel.arch
        /\ r.info.guid \in {None, guest.kernel.guid} /\ ReadVersion(r.info.winver)
        /\ r.pc \in Storing => r.info.guid = guest.kernel.guid
        /\ r.pc \in {"dtb", "ready"} => Fitting(b)

MapsInv ==
    /\ IsList(maps) /\ Len(maps) < Len(Structs)
    /\ Len(maps) = Len(Structs) - 1 => found_fields(maps)

LEMMA FitOthers ==
    ASSUME NEW c, Fit(c), scenario' = scenario, builder'[c] = builder[c]
    PROVE  Fit(c)'
<1>1. guest' = guest /\ Space(c)' = Space(c)
  BY DEF guest, Space, space
<1>2. \A v : ReadVersion(v)' <=> ReadVersion(v)
  BY <1>1 DEF ReadVersion
<1>3. Fitting(c)' <=> Fitting(c)
  BY <1>1 DEF Fitting, Fits
<1> QED BY <1>1, <1>2, <1>3 DEF Fit, NtosAt, IsHeader

LEMMA FitKept ==
    ASSUME NEW b, Fit(b), scenario' = scenario,
           \/ builder'[b].info.guid = builder[b].info.guid
           \/ builder'[b].info.guid \in {None, guest.kernel.guid},
           \/ builder'[b].info.winver = builder[b].info.winver
           \/ ReadVersion(builder'[b].info.winver),
           builder'[b].pc \in Chosen =>
                /\ builder[b].pc \in Chosen
                /\ builder'[b].sb = builder[b].sb
                /\ builder'[b].info.base = builder[b].info.base,
           builder'[b].pc \in Looking => builder[b].pc \in Looking,
           builder'[b].pc \in Storing => builder'[b].info.guid = guest.kernel.guid,
           builder'[b].pc \in {"dtb", "ready"} => Fitting(b)'
    PROVE  Fit(b)'
<1>1. guest' = guest
  BY DEF guest
<1>2. \A v : ReadVersion(v)' <=> ReadVersion(v)
  BY <1>1 DEF ReadVersion
<1>3. builder'[b].pc \in Chosen => Space(b)' = Space(b)
  BY <1>1 DEF Space, space
<1>4. Looking \subseteq Chosen
  BY DEF Chosen
<1>5. (builder[b].info.guid \in {None, guest.kernel.guid} /\ ReadVersion(builder[b].info.winver))
  BY DEF Fit
<1>6. builder'[b].info.guid \in {None, guest.kernel.guid} /\ ReadVersion(builder'[b].info.winver)
  BY <1>5
<1>7. builder'[b].pc \in Looking => NtosAt(Space(b), builder'[b].info.base)
  BY <1>4 DEF Fit
<1>8. builder'[b].pc \in Looking => NtosAt(Space(b)', builder'[b].info.base)
  BY <1>3, <1>4, <1>7
<1>9. builder'[b].pc \in Chosen => builder'[b].sb.arch = guest.kernel.arch
  BY DEF Fit
<1> QED BY <1>1, <1>2, <1>6, <1>8, <1>9 DEF Fit

LEMMA FitLocated ==
    ASSUME scenario \in Scenarios, Shapes, NEW b \in Builders, scenario' = scenario,
           NEW page, NtosAt(Space(b), page), Located(b, page)
    PROVE  Fit(b)'
<1>1. DOMAIN builder = Builders /\ DOMAIN builder[b] = Fields
  BY DEF Shapes, Shape
<1>2. /\ builder'[b].pc = "guid" /\ builder'[b].sb = builder[b].sb
      /\ builder'[b].info = [NoImage EXCEPT !.base = page]
  BY <1>1 DEF Located, Fields
<1>3. /\ builder'[b].info.base = page /\ builder'[b].info.guid = None
      /\ builder'[b].info.winver = Default
  BY <1>2 DEF NoImage, Default
<1>4. guest' = guest /\ Space(b)' = Space(b)
  BY <1>2 DEF guest, Space, space
<1>5. builder[b].sb.arch = guest.kernel.arch
  BY SpaceFacts DEF NtosAt
<1>6. NtosAt(Space(b), page)'
  BY <1>4 DEF NtosAt, IsHeader
<1> QED BY <1>2, <1>3, <1>4, <1>5, <1>6, Zenon DEF Fit, ReadVersion, Looking, Storing, Chosen

LEMMA Appended ==
    ASSUME NEW s, IsList(s), NEW x
    PROVE  /\ IsList(Append(s, x)) /\ Len(Append(s, x)) = Len(s) + 1 /\ Len(s) \in Nat
           /\ Append(s, x) # <<>>
<1> DEFINE S == ToSet(s) \cup {x}
<1>1. s \in Seq(S) /\ x \in S
  BY DEF IsList
<1>2. Append(s, x) \in Seq(S) /\ Len(Append(s, x)) = Len(s) + 1 /\ Len(s) \in Nat
  BY <1>1
<1>3. \A q \in Seq(S) : q \in Seq(ToSet(q))
  BY DEF ToSet
<1>4. Append(s, x) # <<>>
  BY <1>2
<1>5. Append(s, x) \in Seq(ToSet(Append(s, x)))
  BY <1>2, <1>3
<1> HIDE DEF S
<1> QED BY <1>2, <1>4, <1>5 DEF IsList

LEMMA MapsStep ==
    ASSUME MapsInv, NEW b \in Builders, BuildStep(b) \/ Crash(b)
    PROVE  MapsInv'
<1>1. /\ IsList(maps) /\ Len(maps) < Len(Structs)
      /\ Len(maps) = Len(Structs) - 1 => found_fields(maps)
  BY DEF MapsInv
<1>2. Len(Structs) \in Nat /\ Len(Structs) > 0
  BY StructsAssumption DEF IsList
<1>3. ASSUME maps' = maps PROVE MapsInv'
  BY <1>1, <1>3 DEF MapsInv, found_fields
<1>4. ASSUME maps' = <<>> PROVE MapsInv'
  <2>1. IsList(<<>>) /\ Len(<<>>) = 0 /\ DOMAIN (<<>>) = {}
    BY DEF IsList, ToSet
  <2>2. found_fields(<<>>)
    BY <2>1 DEF found_fields
  <2> QED BY <1>2, <1>4, <2>1, <2>2 DEF MapsInv, found_fields
<1>5. CASE NextStruct(b)
  <2> DEFINE all == Append(maps, field_map)
  <2>1. \/ /\ Len(all) < Len(Structs) /\ (Len(all) = Len(Structs) - 1 => found_fields(all))
           /\ maps' = all
        \/ maps' = <<>>
    BY <1>5, Zenon DEF NextStruct, UsePdb, Finish
  <2>2. IsList(all)
    BY <1>1, Appended
  <2> HIDE DEF all
  <2>3. CASE /\ Len(all) < Len(Structs) /\ (Len(all) = Len(Structs) - 1 => found_fields(all))
             /\ maps' = all
    BY <2>2, <2>3 DEF MapsInv, found_fields
  <2> QED BY <1>4, <2>1, <2>3
<1>6. CASE PdbFails(b)
  BY <1>4, <1>6, Zenon DEF PdbFails, UsePdb, Finish
<1>7. CASE Crash(b)
  BY <1>3, <1>4, <1>7 DEF Crash
<1>8. CASE FromPdb(b) \/ ParsePdb(b)
  BY <1>3, <1>8 DEF FromPdb, ParsePdb
<1>9. ASSUME OnlyBuilder \/ Cacheless PROVE MapsInv'
  BY <1>3, <1>9 DEF OnlyBuilder, Cacheless
<1>10. CASE Build(b) \/ ReadLowStub(b) \/ ReadLow16M(b) \/ ProbeHint(b) \/ SearchPageMap(b)
  BY <1>9, <1>10 DEF Build, ReadLowStub, ReadLow16M, ProbeHint, SearchPageMap
<1>11. CASE SearchX86(b) \/ FindGuid(b) \/ FindWinver(b) \/ FindSysproc(b) \/ OpenStore(b)
  BY <1>9, <1>11 DEF SearchX86, FindGuid, FindWinver, FindSysproc, OpenStore
<1>12. CASE ReadCache(b) \/ Download(b) \/ CreateFile(b) \/ WriteFile(b)
  BY <1>9, <1>12 DEF ReadCache, Download, CreateFile, WriteFile
<1>13. CASE UseList(b) \/ NewKernel(b)
  BY <1>9, <1>13 DEF UseList, NewKernel
<1> QED BY <1>5, <1>6, <1>7, <1>8, <1>10, <1>11, <1>12, <1>13 DEF BuildStep

LEMMA FitUsePdb ==
    ASSUME NEW b \in Builders, Shapes, Fit(b), scenario' = scenario, IsAt(b, "parse"), NEW ms,
           UsePdb(b, ms), IsList(ms), Len(ms) >= Len(Structs) - 1, found_fields(ms)
    PROVE  Fit(b)'
<1>1. DOMAIN builder = Builders /\ DOMAIN builder[b] = Fields
  BY DEF Shapes, Shape
<1>2. /\ builder'[b].pc = "dtb" /\ builder'[b].sb = builder[b].sb
      /\ builder'[b].info = builder[b].info /\ builder'[b].offsets = <<"pdb", ms>>
  BY <1>1 DEF UsePdb, Fields
<1>3. builder[b].info.guid = guest.kernel.guid
  BY DEF Fit, IsAt, Storing
<1>4. \A k \in 1..(Len(Structs) - 1) : Structs[k].required \subseteq DOMAIN ms[k]
  <2>1. Len(Structs) \in Nat /\ Len(ms) \in Nat /\ DOMAIN ms = 1..Len(ms)
    BY StructsAssumption DEF IsList
  <2> QED BY <2>1 DEF found_fields
<1>5. guest' = guest
  BY DEF guest
<1>6. builder'[b].offsets[1] # "list" /\ builder'[b].offsets[2] = ms
  BY <1>2
<1>7. Fitting(b)'
  BY <1>2, <1>3, <1>4, <1>5, <1>6 DEF Fitting
<1>8. /\ builder[b].pc \in Chosen /\ builder'[b].pc \notin Looking /\ builder'[b].pc \notin Storing
  BY <1>2 DEF IsAt, Chosen, Looking, Storing
<1> QED BY <1>2, <1>7, <1>8, FitKept

LEMMA FitGo ==
    ASSUME NEW b \in Builders, Shapes, Fit(b), scenario' = scenario, NEW pc, Go(b, pc),
           \/ pc \notin Chosen
           \/ pc \in Looking /\ builder[b].pc \in Looking
           \/ pc \in Storing /\ builder[b].pc \in Chosen /\ builder[b].info.guid = guest.kernel.guid
           \/ pc \in {"offsets", "list"} /\ builder[b].pc \in Chosen
    PROVE  Fit(b)'
<1>1. DOMAIN builder = Builders /\ DOMAIN builder[b] = Fields
  BY DEF Shapes, Shape
<1>2. /\ builder'[b].pc = pc /\ builder'[b].sb = builder[b].sb
      /\ builder'[b].info = builder[b].info
  BY <1>1 DEF Go, Fields
<1>3. /\ pc \in Chosen => builder[b].pc \in Chosen
      /\ pc \in Looking => builder[b].pc \in Looking
      /\ pc \in Storing => builder[b].info.guid = guest.kernel.guid
      /\ pc \notin {"dtb", "ready"}
  BY DEF Chosen, Looking, Storing
<1> QED BY <1>2, <1>3, FitKept

(* An unsuccessful search and a new block: nothing is chosen yet. *)
LEMMA FitLost ==
    ASSUME NEW b \in Builders, Fit(b), scenario' = scenario, builder'[b].pc \notin Chosen,
           builder'[b].info = builder[b].info
    PROVE  Fit(b)'
<1>1. builder'[b].pc \notin Looking \cup Storing \cup {"dtb", "ready"}
  BY DEF Chosen
<1> QED BY <1>1, FitKept

LEMMA FitSearch ==
    ASSUME NEW b \in Builders, Shapes, Fit(b), scenario' = scenario,
           \/ ScanFails(b)
           \/ NotHere(b)
           \/ \E s : FindsBlock(b, s)
           \/ Build(b)
    PROVE  Fit(b)'
<1>1. DOMAIN builder = Builders /\ DOMAIN builder[b] = Fields
  BY DEF Shapes, Shape
<1>2. builder'[b].info = builder[b].info
      /\ builder'[b].pc \in {"failed", "low16m", "ntos", "lowstub"}
  <2>1. CASE ScanFails(b)
    BY <1>1, <2>1 DEF ScanFails, Fields
  <2>2. CASE NotHere(b)
    BY <1>1, <2>2 DEF NotHere, Fields
  <2>3. CASE \E s : FindsBlock(b, s)
    <3>1. PICK s : FindsBlock(b, s)
      BY <2>3
    <3> QED BY <1>1, <3>1 DEF FindsBlock, Fields
  <2>4. CASE Build(b)
    BY <1>1, <2>4 DEF Build, Fields
  <2> QED BY <2>1, <2>2, <2>3, <2>4
<1>3. builder'[b].pc \notin Chosen
  BY <1>2 DEF Chosen, Looking, Storing
<1> QED BY <1>2, <1>3, FitLost

LEMMA FitStep ==
    ASSUME scenario \in Scenarios, Shapes, MapsInv, NEW b \in Builders, Fit(b), BuildStep(b) \/ Crash(b)
    PROVE  Fit(b)'
<1>1. DOMAIN builder = Builders /\ DOMAIN builder[b] = Fields /\ DOMAIN builder[b].info = InfoFields
  BY DEF Shapes, Shape
<1>2. scenario' = scenario
  BY StepOnly DEF Only
<1>3. /\ builder[b].pc \in Looking => NtosAt(Space(b), builder[b].info.base)
      /\ builder[b].pc \in Chosen => builder[b].sb.arch = guest.kernel.arch
      /\ builder[b].info.guid \in {None, guest.kernel.guid} /\ ReadVersion(builder[b].info.winver)
      /\ builder[b].pc \in Storing => builder[b].info.guid = guest.kernel.guid
      /\ builder[b].pc \in {"dtb", "ready"} => Fitting(b)
  BY DEF Fit
<1>4. CASE Build(b) \/ ReadLowStub(b) \/ ReadLow16M(b)
  <2>1. Build(b) \/ NotHere(b) \/ (\E s : FindsBlock(b, s)) \/ Go(b, "low16m")
    BY <1>4, Zenon DEF ReadLowStub, ReadLow16M
  <2>2. "low16m" \notin Chosen
    BY DEF Chosen, Looking, Storing
  <2> QED BY <1>2, <2>1, <2>2, FitSearch, FitGo
<1>5. CASE ProbeHint(b)
  <2>1. \/ \E page : NtosAt(Space(b), page) /\ Located(b, page)
        \/ \E v : builder' = [builder EXCEPT ![b].probe = v]
    <3> DEFINE page == find_with_va(Space(b), builder[b].probe)
    <3>1. \/ page # 0 /\ Located(b, page)
          \/ \E v : builder' = [builder EXCEPT ![b].probe = v]
      BY <1>5, Zenon DEF ProbeHint
    <3>2. page # 0 => NtosAt(Space(b), page)
      BY FoundFrom
    <3> HIDE DEF page
    <3> QED BY <3>1, <3>2
  <2>2. CASE \E v : builder' = [builder EXCEPT ![b].probe = v]
    <3>1. PICK v : builder' = [builder EXCEPT ![b].probe = v]
      BY <2>2
    <3>2. builder'[b].pc = "ntos" /\ builder'[b].info = builder[b].info
      BY <1>1, <1>5, <3>1 DEF ProbeHint, IsAt, Fields
    <3>3. builder'[b].pc \notin Chosen
      BY <3>2 DEF Chosen, Looking, Storing
    <3> QED BY <1>2, <3>2, <3>3, FitLost
  <2> QED BY <1>2, <2>1, <2>2, FitLocated
<1>6. CASE SearchPageMap(b) \/ SearchX86(b)
  <2>1. \/ \E page : NtosAt(Space(b), page) /\ Located(b, page)
        \/ ScanFails(b)
    <3>1. CASE SearchX86(b)
      <4> DEFINE page == find_x86(Space(b))
      <4>1. (page # 0 /\ Located(b, page)) \/ ScanFails(b)
        BY <3>1, Zenon DEF SearchX86
      <4>2. page # 0 => NtosAt(Space(b), page)
        BY FoundX86
      <4> QED BY <4>1, <4>2
    <3>2. CASE SearchPageMap(b)
      <4> DEFINE Page(unread) == find_with_page_map(Space(b), unread)
      <4>1. ScanFails(b) \/ \E unread : Page(unread) # 0 /\ Located(b, Page(unread))
        BY <3>2, Zenon DEF SearchPageMap
      <4>2. \A unread : Page(unread) # 0 => NtosAt(Space(b), Page(unread))
        BY FoundInMap
      <4> HIDE DEF Page
      <4> QED BY <4>1, <4>2
    <3> QED BY <1>6, <3>1, <3>2
  <2> QED BY <1>2, <2>1, FitLocated, FitSearch
<1>7. CASE FindGuid(b)
  <2>1. CASE Go(b, "winver")
    BY <1>2, <1>7, <2>1, FitGo DEF FindGuid, IsAt, Looking
  <2>2. CASE builder' = [builder EXCEPT ![b].pc = "winver", ![b].info.guid = Image(b).guid]
    <3>1. /\ builder[b].pc = "guid" /\ builder'[b].pc = "winver" /\ builder'[b].sb = builder[b].sb
          /\ builder'[b].info.guid = Image(b).guid
          /\ builder'[b].info.base = builder[b].info.base
          /\ builder'[b].info.winver = builder[b].info.winver
      BY <1>1, <1>7, <2>2 DEF FindGuid, IsAt, Fields, InfoFields
    <3>2. builder'[b].info.guid = guest.kernel.guid
      BY <1>3, <3>1, SpaceFacts DEF Looking, NtosAt, Image, IsKernel
    <3> QED BY <1>2, <3>1, <3>2, FitKept DEF Looking, Storing, Chosen
  <2> QED BY <1>7, <2>1, <2>2 DEF FindGuid
<1>8. CASE FindWinver(b)
  <2>1. CASE Go(b, "sysproc")
    BY <1>2, <1>8, <2>1, FitGo DEF FindWinver, IsAt, Looking
  <2>2. CASE builder' = [builder EXCEPT ![b].pc = "sysproc",
                                        ![b].info.winver = find_winver(Space(b), Image(b))]
    <3>1. /\ builder[b].pc = "winver" /\ builder'[b].pc = "sysproc"
          /\ builder'[b].sb = builder[b].sb
          /\ builder'[b].info.guid = builder[b].info.guid
          /\ builder'[b].info.base = builder[b].info.base
          /\ builder'[b].info.winver = find_winver(Space(b), Image(b))
      BY <1>1, <1>8, <2>2 DEF FindWinver, IsAt, Fields, InfoFields
    <3>2. ReadVersion(builder'[b].info.winver)
      <4>1. /\ NtosAt(Space(b), builder[b].info.base)
            /\ builder[b].sb.dtb \in DOMAIN guest.spaces
            /\ Space(b) = guest.spaces[builder[b].sb.dtb]
        BY <1>3, <3>1, SpaceFacts DEF Looking, NtosAt
      <4> QED BY <3>1, <4>1 DEF ReadVersion, NtosAt, IsHeader, Image
    <3> QED BY <1>2, <3>1, <3>2, FitKept DEF Looking, Storing, Chosen
  <2> QED BY <1>8, <2>1, <2>2 DEF FindWinver
<1>9. CASE FindSysproc(b)
  <2>1. CASE ScanFails(b)
    BY <1>2, <2>1, FitSearch
  <2>2. CASE builder' = [builder EXCEPT ![b].pc = "offsets", ![b].info.eprocess = Image(b).eprocess]
    <3>1. /\ builder[b].pc = "sysproc" /\ builder'[b].pc = "offsets"
          /\ builder'[b].sb = builder[b].sb
          /\ builder'[b].info.guid = builder[b].info.guid
          /\ builder'[b].info.base = builder[b].info.base
          /\ builder'[b].info.winver = builder[b].info.winver
      BY <1>1, <1>9, <2>2 DEF FindSysproc, IsAt, Fields, InfoFields
    <3> QED BY <1>2, <3>1, FitKept DEF Looking, Storing, Chosen
  <2> QED BY <1>9, <2>1, <2>2, Zenon DEF FindSysproc
<1>10. CASE OpenStore(b)
  <2>1. builder[b].pc \in Chosen
    BY <1>10 DEF OpenStore, IsAt, Chosen
  <2>2. \/ Go(b, "list")
        \/ /\ builder[b].info.guid # None
           /\ Go(b, "read") \/ Go(b, "download")
    BY <1>10, Zenon DEF OpenStore
  <2> QED BY <1>2, <1>3, <2>1, <2>2, FitGo DEF Storing
<1>11. CASE ReadCache(b) \/ Download(b)
  <2>1. builder[b].pc \in Storing /\ builder[b].pc \in Chosen
    BY <1>11 DEF ReadCache, Download, IsAt, Storing, Chosen
  <2>2. \/ Go(b, "list") \/ Go(b, "panicked") \/ Fetched(b)
        \/ builder' = [builder EXCEPT ![b].pc = "parse", ![b].buffer = cache_file]
    BY <1>11, Zenon DEF ReadCache, Download
  <2>3. CASE Go(b, "list") \/ Go(b, "panicked")
    <3>1. "panicked" \notin Chosen
      BY DEF Chosen, Looking, Storing
    <3> QED BY <1>2, <2>1, <2>3, <3>1, FitGo
  <2>4. CASE \E v, pc : /\ pc \in {"create", "parse"}
                        /\ builder' = [builder EXCEPT ![b].pc = pc, ![b].buffer = v]
    <3>1. PICK v, pc : /\ pc \in {"create", "parse"}
                       /\ builder' = [builder EXCEPT ![b].pc = pc, ![b].buffer = v]
      BY <2>4
    <3>2. /\ builder'[b].pc = pc /\ builder'[b].sb = builder[b].sb
          /\ builder'[b].info = builder[b].info
      BY <1>1, <3>1 DEF Fields
    <3>3. pc \in Storing /\ pc \notin Looking /\ pc \notin {"dtb", "ready"}
      BY <3>1 DEF Storing, Looking
    <3> QED BY <1>2, <1>3, <2>1, <3>2, <3>3, FitKept
  <2> QED BY <2>2, <2>3, <2>4 DEF Fetched
<1>12. CASE CreateFile(b) \/ WriteFile(b)
  <2>1. builder[b].pc \in Storing /\ builder[b].pc \in Chosen
    BY <1>12 DEF CreateFile, WriteFile, IsAt, Storing, Chosen
  <2>2. Go(b, "list") \/ Go(b, "write") \/ Go(b, "parse")
    BY <1>12, Zenon DEF CreateFile, WriteFile
  <2> QED BY <1>2, <1>3, <2>1, <2>2, FitGo DEF Storing
<1>13. CASE FromPdb(b) \/ ParsePdb(b)
  <2>1. IsAt(b, "parse")
    BY <1>13 DEF FromPdb, ParsePdb, Parses
  <2>2. builder' = builder \/ Go(b, "panicked") \/ Go(b, "list")
    BY <1>13, Zenon DEF FromPdb, ParsePdb
  <2>3. builder[b].pc \in Chosen /\ "panicked" \notin Chosen
    BY <2>1 DEF IsAt, Chosen, Looking, Storing
  <2> QED BY <1>2, <2>2, <2>3, FitGo, FitOthers
<1>14. CASE NextStruct(b) \/ PdbFails(b)
  <2>1. IsAt(b, "parse")
    BY <1>14 DEF NextStruct, PdbFails, Parses
  <2>2. builder[b].pc \in Chosen /\ "panicked" \notin Chosen
    BY <2>1 DEF IsAt, Chosen, Looking, Storing
  <2>3. CASE NextStruct(b)
    <3> DEFINE all == Append(maps, field_map)
    <3>1. \/ builder' = builder \/ Go(b, "list")
          \/ Len(all) = Len(Structs) /\ found_fields(all) /\ UsePdb(b, all)
      BY <2>3, Zenon DEF NextStruct
    <3>2. IsList(all) /\ Len(Structs) \in Nat
      BY Appended, StructsAssumption DEF MapsInv, IsList
    <3> HIDE DEF all
    <3>3. Len(all) = Len(Structs) => Len(all) >= Len(Structs) - 1
      BY <3>2
    <3> QED BY <1>2, <2>1, <2>2, <3>1, <3>2, <3>3, FitGo, FitOthers, FitUsePdb
  <2>4. CASE PdbFails(b)
    <3>1. \/ Go(b, "panicked") \/ Go(b, "list")
          \/ Len(maps) = Len(Structs) - 1 /\ UsePdb(b, maps)
      BY <2>4, Zenon DEF PdbFails
    <3>2. IsList(maps) /\ (Len(maps) = Len(Structs) - 1 => found_fields(maps))
      BY DEF MapsInv
    <3>3. Len(Structs) \in Nat
      BY StructsAssumption DEF IsList
    <3>4. Len(maps) = Len(Structs) - 1 => Len(maps) >= Len(Structs) - 1
      BY <3>3
    <3> QED BY <1>2, <2>1, <2>2, <3>1, <3>2, <3>4, FitGo, FitUsePdb
  <2> QED BY <1>14, <2>3, <2>4
<1>15. CASE UseList(b)
  <2> DEFINE found == build_with_offset_list(builder[b].info, builder[b].sb.arch)
  <2>1. \/ Go(b, "failed")
        \/ \E i \in found :
                builder' = [builder EXCEPT ![b].pc = "dtb", ![b].offsets = <<"list", i>>]
    BY <1>15, Zenon DEF UseList
  <2>2. "failed" \notin Chosen /\ builder[b].pc = "list" /\ builder[b].pc \in Chosen
    BY <1>15 DEF Chosen, Looking, Storing, UseList, IsAt
  <2>3. ASSUME NEW i \in found,
               builder' = [builder EXCEPT ![b].pc = "dtb", ![b].offsets = <<"list", i>>]
        PROVE  Fit(b)'
    <3>1. /\ builder'[b].pc = "dtb" /\ builder'[b].sb = builder[b].sb
          /\ builder'[b].info = builder[b].info /\ builder'[b].offsets = <<"list", i>>
      BY <1>1, <2>3 DEF Fields
    <3>2. Fits(OffsetList[i])
      BY <1>3, <2>2, <2>3, ListFits
    <3>3. Fits(OffsetList[i])'
      BY <1>2, <3>2 DEF Fits, guest
    <3>4. Fitting(b)'
      <4>1. builder'[b].offsets[1] = "list" /\ builder'[b].offsets[2] = i
        BY <3>1
      <4> QED BY <3>3, <4>1 DEF Fitting
    <3> QED BY <1>2, <2>2, <3>1, <3>4, FitKept DEF Looking, Storing
  <2> QED BY <1>2, <2>1, <2>2, <2>3, FitGo
<1>16. CASE NewKernel(b)
  <2>1. PICK d : Uses(b, d)
    BY <1>16 DEF NewKernel
  <2>2. /\ builder[b].pc = "dtb" /\ builder'[b].pc = "ready" /\ builder'[b].sb = builder[b].sb
        /\ builder'[b].info = builder[b].info /\ builder'[b].offsets = builder[b].offsets
    BY <1>1, <1>16, <2>1 DEF NewKernel, IsAt, Uses, Fields
  <2>3. Fitting(b)'
    BY <1>2, <1>3, <2>2 DEF Fitting, Fits, guest
  <2> QED BY <1>2, <2>2, <2>3, FitKept DEF Looking, Storing, Chosen
<1>17. CASE Crash(b)
  <2>1. Go(b, "crashed") /\ "crashed" \notin Chosen
    BY <1>17 DEF Crash, Chosen, Looking, Storing
  <2> QED BY <1>2, <2>1, FitGo
<1> QED BY <1>4, <1>5, <1>6, <1>7, <1>8, <1>9, <1>10, <1>11, <1>12, <1>13, <1>14, <1>15,
        <1>16, <1>17
        DEF BuildStep

FitAll == MapsInv /\ \A b \in Builders : Fit(b)

LEMMA FirstFit == StartInit => FitAll
<1> SUFFICES ASSUME StartInit PROVE FitAll
  OBVIOUS
<1>1. maps = <<>> /\ builder = [b \in Builders |-> NewBuilder(b)]
  BY DEF StartInit
<1>2. MapsInv
  <2>1. IsList(<<>>) /\ Len(<<>>) = 0 /\ DOMAIN (<<>>) = {}
    BY DEF IsList, ToSet
  <2>2. found_fields(<<>>) /\ Len(Structs) \in Nat /\ Len(Structs) > 0
    BY <2>1, StructsAssumption DEF found_fields, IsList
  <2> QED BY <1>1, <2>1, <2>2 DEF MapsInv
<1>3. ASSUME NEW b \in Builders PROVE Fit(b)
  <2>1. builder[b].pc \in {"build", "absent"} /\ builder[b].info = NoImage
    BY <1>1 DEF NewBuilder
  <2>2. builder[b].pc \notin Looking \cup Storing \cup Chosen \cup {"dtb", "ready"}
    BY <2>1 DEF Looking, Storing, Chosen
  <2>3. builder[b].info.guid = None /\ builder[b].info.winver = Default
    BY <2>1 DEF NoImage, Default
  <2> QED BY <2>2, <2>3, Zenon DEF Fit, ReadVersion
<1> QED BY <1>2, <1>3 DEF FitAll

LEMMA FitAllKept ==
    ASSUME KeptShapes, FitAll, [StartNext]_kvars
    PROVE  FitAll'
<1>1. CASE StartNext
  <2>1. PICK b \in Builders : BuildStep(b) \/ Crash(b)
    BY <1>1 DEF StartNext
  <2>2. MapsInv'
    BY <2>1, MapsStep DEF FitAll
  <2>3. Fit(b)'
    BY <2>1, FitStep DEF FitAll, KeptShapes
  <2>4. ASSUME NEW c \in Builders, c # b PROVE Fit(c)'
    BY <2>1, <2>4, StepOnly, FitOthers DEF FitAll, KeptShapes, Only
  <2> QED BY <2>2, <2>3, <2>4 DEF FitAll
<1>2. CASE UNCHANGED kvars
  <2>1. scenario' = scenario /\ builder' = builder /\ maps' = maps
    BY <1>2 DEF kvars, svars
  <2>2. \A c \in Builders : Fit(c)'
    BY <2>1, FitOthers DEF FitAll
  <2> QED BY <2>1, <2>2 DEF FitAll, MapsInv, found_fields
<1> QED BY <1>1, <1>2

(* Invariant: a Kernel has offsets of its own build, or those of the       *)
(* newest build of its version that is not newer (Win32Offsets::builder,   *)
(* offsets/builder.rs and offsets/mod.rs), whatever failed to be read.     *)
THEOREM OffsetsAlwaysFit == StartSpec => []OffsetsFit
<1>1. KeptShapes /\ FitAll /\ [StartNext]_kvars => FitAll'
  BY FitAllKept
<1>2. FitAll => OffsetsFit
  <2> SUFFICES ASSUME FitAll, NEW b \in Builders, builder[b].pc = "ready"
               PROVE  Fitting(b)
    BY DEF OffsetsFit, Ready, IsAt, Fitting
  <2> QED BY DEF FitAll, Fit
<1> QED BY <1>1, <1>2, FirstFit, ShapesKept, PTL DEF StartSpec

----------------------------------------------------------------------------
(* What can be found is found *)

(* Nothing has failed, and what is asked for is there. *)
Sought(b) == failures = 0 /\ settings(b).arch \in {None, "x64"} /\ Findable(guest.kernel)

(* So far the search goes on; the fallback looks into the kernel's own     *)
(* page table, without a hint.                                             *)
OnTheWay(b) ==
    LET r == builder[b] IN
        /\ r.pc # "failed"
        /\ r.pc \in {"build", "lowstub"} => ~r.fallback
        /\ r.pc \in {"lowstub", "low16m"} => r.archs[1] = "x64"
        /\ r.pc \in {"ntos"} \cup Looking =>
            /\ r.sb.arch = "x64"
            /\ r.fallback => r.sb.dtb = guest.kernel.dtb /\ r.sb.kernel_hint = 0
        /\ r.pc \in Storing \cup {"winver", "sysproc", "offsets", "list"} =>
            r.info.guid = guest.kernel.guid

Traced == failures \in Nat /\ \A b \in Builders : Sought(b) => OnTheWay(b)

LEMMA FaultsRise ==
    ASSUME failures \in Nat, NEW b \in Builders, BuildStep(b) \/ Crash(b)
    PROVE  failures' \in Nat /\ (failures' = 0 => failures = 0 /\ ~Fault)
<1>1. (UNCHANGED failures) \/ Fault
  <2>1. CASE Build(b) \/ ReadLowStub(b) \/ ReadLow16M(b) \/ ProbeHint(b) \/ SearchPageMap(b)
    BY <2>1 DEF Build, ReadLowStub, ReadLow16M, ProbeHint, SearchPageMap
  <2>2. CASE SearchX86(b) \/ FindGuid(b) \/ FindWinver(b) \/ FindSysproc(b) \/ OpenStore(b)
    BY <2>2 DEF SearchX86, FindGuid, FindWinver, FindSysproc, OpenStore
  <2>3. CASE ReadCache(b) \/ Download(b) \/ CreateFile(b) \/ WriteFile(b)
    BY <2>3 DEF ReadCache, Download, CreateFile, WriteFile
  <2>4. CASE UseList(b) \/ NewKernel(b) \/ FromPdb(b) \/ ParsePdb(b)
    BY <2>4 DEF UseList, NewKernel, FromPdb, ParsePdb
  <2>5. CASE NextStruct(b) \/ PdbFails(b) \/ Crash(b)
    BY <2>5 DEF NextStruct, PdbFails, Crash
  <2> QED BY <2>1, <2>2, <2>3, <2>4, <2>5 DEF BuildStep
<1> QED BY <1>1 DEF Fault

LEMMA SoughtBefore ==
    ASSUME failures \in Nat, scenario' = scenario, NEW b \in Builders, BuildStep(b) \/ Crash(b), NEW c,
           Sought(c)'
    PROVE  Sought(c) /\ ~Fault
<1>1. failures = 0 /\ ~Fault
  BY FaultsRise DEF Sought
<1>2. settings(c)' = settings(c) /\ (Findable(guest.kernel)' <=> Findable(guest.kernel))
  BY DEF settings, guest, Findable, FirstTable, InWholeChunk
<1> QED BY <1>1, <1>2 DEF Sought

(* The page table of the kernel is the first one of low memory. *)
LEMMA TableFound ==
    ASSUME scenario \in Scenarios, Findable(guest.kernel)
    PROVE  find_table("x64") = [arch |-> "x64", kernel_hint |-> 0, dtb |-> guest.kernel.dtb]
<1> DEFINE k == guest.kernel
           S == {i \in DOMAIN guest.low : find_pt(guest.low[i])}
<1>1. /\ k.dtb + 1 \in DOMAIN guest.low /\ find_pt(guest.low[k.dtb + 1])
      /\ \A i \in 1..k.dtb : ~find_pt(guest.low[i])
  BY DEF Findable, FirstTable
<1>2. /\ DOMAIN guest.low = 1..Len(guest.low) /\ Len(guest.low) \in Nat /\ k.dtb \in Nat
  BY GuestsAssumption DEF guest, IsList
<1>3. k.dtb + 1 \in S /\ \A i \in S : i \in Nat /\ k.dtb + 1 <= i
  BY <1>1, <1>2
<1>4. first_page(S) = k.dtb + 1
  <2> HIDE DEF S, k
  <2> QED BY <1>2, <1>3 DEF first_page
<1>5. find_table("x64") = IF first_page(S) = 0 THEN NoBlock
                          ELSE [arch |-> "x64", kernel_hint |-> 0, dtb |-> first_page(S) - 1]
  BY DEF find_table
<1> HIDE DEF S, k
<1>6. k.dtb + 1 # 0 /\ (k.dtb + 1) - 1 = k.dtb
  BY <1>2
<1> QED BY <1>4, <1>5, <1>6 DEF k

(* Its image is in a whole chunk of the address space. *)
LEMMA ImageFound ==
    ASSUME scenario \in Scenarios, Findable(guest.kernel), NEW b,
           builder[b].sb.arch = "x64", builder[b].sb.dtb = guest.kernel.dtb
    PROVE  find_with_page_map(Space(b), {}) # 0
<1> DEFINE k == guest.kernel
           s == Space(b)
<1>1. k.dtb \in DOMAIN guest.spaces /\ k.arch = "x64" /\ InWholeChunk(k)
  BY GuestsAssumption DEF guest, Findable
<1>2. s = guest.spaces[k.dtb]
  BY <1>1 DEF Space, space
<1>3. PICK c \in 1..k.base : /\ c % Chunk = 0 /\ k.base < c + Chunk
                             /\ c..(c + Chunk - 1) \subseteq s.mapped
  BY <1>1, <1>2 DEF InWholeChunk
<1>4. Chunk \in Nat /\ Chunk > 0
  BY ScanSizesAssumption
<1>5. /\ s.mapped \subseteq Nat \ {0}
      /\ s.mapped # {} => \E top \in s.mapped : \A p \in s.mapped : p <= top
  BY <1>1, <1>2, GuestsAssumption DEF guest
<1>6. k.base \in DOMAIN s.images /\ IsNtos(s.images[k.base])
  BY <1>2, GuestsAssumption DEF guest
<1>7. k.base \in Int
  BY GuestsAssumption DEF guest
<1> HIDE DEF k, s
<1>8. k.base \in c..(c + Chunk - 1) /\ c \in s.mapped
  BY <1>3, <1>4, <1>7
<1>9. s.mapped \subseteq Joined(s)
  <2>1. highest(s.mapped) \in s.mapped /\ \A p \in s.mapped : p <= highest(s.mapped)
    BY <1>5, <1>8 DEF highest
  <2> QED BY <1>5, <1>8, <2>1 DEF Joined
<1>10. c \in whole_chunks(s)
  BY <1>3, <1>8, <1>9 DEF whole_chunks
<1> DEFINE S == {page \in c..(c + Chunk - 1) :
                    IsHeader(s, page) /\ try_get_pe_name(s, page) = "ntoskrnl.exe"}
<1>11. k.base \in S
  <2>1. IsHeader(s, k.base)
    BY <1>3, <1>6, <1>8 DEF IsHeader
  <2> QED BY <1>6, <1>8, <2>1, NamedNtos
<1>12. \A x \in S : x \in Nat /\ x # 0
  BY <1>3, <1>5
<1>13. find_with_va(s, c) = lowest(S)
  BY DEF find_with_va
<1>14. find_with_va(s, c) # 0
  <2> HIDE DEF S
  <2> QED BY <1>11, <1>12, <1>13, Lowest
<1> DEFINE T == {find_with_va(s, d) : d \in whole_chunks(s) \ {}} \ {0}
<1>15. T # {}
  BY <1>10, <1>14
<1>16. \A x \in T : x \in Nat /\ x # 0
  BY FoundFrom DEF s
<1>17. find_with_page_map(s, {}) = lowest(T)
  BY DEF find_with_page_map
<1> HIDE DEF T
<1> QED BY <1>15, <1>16, <1>17, Lowest DEF s

LEMMA ProcessFound ==
    ASSUME scenario \in Scenarios, Findable(guest.kernel), NEW b, NEW page, NtosAt(Space(b), page)
    PROVE  Space(b).images[page].eprocess # None
<1> DEFINE k == guest.kernel
           image == guest.spaces[k.dtb].images[k.base]
<1>1. image.eprocess # None
  BY DEF Findable
<1>2. IsKernel(image, k)
  BY GuestsAssumption DEF guest
<1>3. IsKernel(Space(b).images[page], k)
  BY SpaceFacts DEF NtosAt
<1> QED BY <1>1, <1>2, <1>3 DEF IsKernel

LEMMA WayOthers ==
    ASSUME NEW c, OnTheWay(c), scenario' = scenario, builder'[c] = builder[c]
    PROVE  OnTheWay(c)'
BY DEF OnTheWay, guest

(* A change of pc alone, or of fields the search does not depend on. *)
LEMMA WayOn ==
    ASSUME NEW b, OnTheWay(b), scenario' = scenario,
           builder'[b].pc \notin {"failed", "build", "lowstub", "low16m"},
           builder'[b].pc \in {"ntos"} \cup Looking =>
                /\ builder[b].pc \in {"ntos"} \cup Looking
                /\ builder'[b].sb = builder[b].sb /\ builder'[b].fallback = builder[b].fallback,
           builder'[b].pc \in Storing \cup {"winver", "sysproc", "offsets", "list"} =>
                builder'[b].info.guid = guest.kernel.guid
    PROVE  OnTheWay(b)'
<1>1. guest' = guest
  BY DEF guest
<1> QED BY <1>1 DEF OnTheWay

LEMMA WayFound ==
    ASSUME NEW b \in Builders, Shapes, OnTheWay(b), scenario' = scenario, NEW sb, FindsBlock(b, sb),
           sb.arch = "x64", DOMAIN sb = {"arch", "kernel_hint", "dtb"},
           builder[b].fallback => sb.dtb = guest.kernel.dtb /\ sb.kernel_hint = 0
    PROVE  OnTheWay(b)'
<1>1. DOMAIN builder = Builders /\ DOMAIN builder[b] = Fields
  BY DEF Shapes, Shape
<1> DEFINE hint == IF settings(b).kernel_hint # NoHint /\ sb.kernel_hint = 0 /\ ~builder[b].fallback
                   THEN settings(b).kernel_hint ELSE sb.kernel_hint
<1>2. builder' = [builder EXCEPT ![b].pc = "ntos", ![b].probe = hint - (hint % Align),
                                 ![b].sb = [sb EXCEPT !.kernel_hint = hint]]
  BY DEF FindsBlock
<1>3. builder[b].fallback => hint = sb.kernel_hint
  OBVIOUS
<1> HIDE DEF hint
<1>4. /\ builder'[b].pc = "ntos" /\ builder'[b].fallback = builder[b].fallback
      /\ builder'[b].sb = [sb EXCEPT !.kernel_hint = hint]
  BY <1>1, <1>2 DEF Fields
<1>5. /\ builder'[b].sb.arch = "x64" /\ builder'[b].sb.dtb = sb.dtb
      /\ builder'[b].sb.kernel_hint = hint
  BY <1>4
<1>6. guest' = guest
  BY DEF guest
<1> QED BY <1>3, <1>4, <1>5, <1>6 DEF OnTheWay, Looking, Storing

(* The first failure is no failure: the fallback is still to come. *)
LEMMA WayFallsBack ==
    ASSUME NEW b \in Builders, Shapes, OnTheWay(b), scenario' = scenario, ScanFails(b),
           ~builder[b].fallback, builder[b].sb.arch = "x64"
    PROVE  OnTheWay(b)'
<1>1. DOMAIN builder = Builders /\ DOMAIN builder[b] = Fields
  BY DEF Shapes, Shape
<1>2. builder'[b].pc = "low16m" /\ builder'[b].archs = <<"x64">>
  BY <1>1 DEF ScanFails, Fields
<1> QED BY <1>2 DEF OnTheWay, Looking, Storing

LEMMA WayLocated ==
    ASSUME NEW b \in Builders, Shapes, OnTheWay(b), scenario' = scenario, NEW page,
           builder[b].pc = "ntos", Located(b, page)
    PROVE  OnTheWay(b)'
<1>1. DOMAIN builder = Builders /\ DOMAIN builder[b] = Fields
  BY DEF Shapes, Shape
<1>2. /\ builder'[b].pc = "guid" /\ builder'[b].sb = builder[b].sb
      /\ builder'[b].fallback = builder[b].fallback
  BY <1>1 DEF Located, Fields
<1> QED BY <1>2, WayOn DEF Looking, Storing

LEMMA WayGo ==
    ASSUME NEW b \in Builders, Shapes, OnTheWay(b), scenario' = scenario, NEW pc, Go(b, pc),
           \/ pc \in {"panicked", "crashed", "dtb", "ready"}
           \/ /\ pc \in Storing \cup {"list"}
              /\ builder[b].pc \in Storing \cup {"offsets"}
    PROVE  OnTheWay(b)'
<1>1. DOMAIN builder = Builders /\ DOMAIN builder[b] = Fields
  BY DEF Shapes, Shape
<1>2. builder'[b].pc = pc /\ builder'[b].info = builder[b].info
  BY <1>1 DEF Go, Fields
<1>3. pc \in Storing \cup {"winver", "sysproc", "offsets", "list"} =>
            builder[b].info.guid = guest.kernel.guid
  BY DEF OnTheWay, Storing
<1>4. pc \notin {"failed", "build", "lowstub", "low16m", "ntos"} \cup Looking
  BY DEF Storing, Looking
<1> QED BY <1>2, <1>3, <1>4, WayOn

LEMMA WaySearch ==
    ASSUME scenario \in Scenarios, Shapes, NEW b \in Builders, OnTheWay(b), Sought(b),
           scenario' = scenario, ~Fault,
           \/ Build(b) \/ ReadLowStub(b) \/ ReadLow16M(b)
           \/ ProbeHint(b) \/ SearchPageMap(b) \/ SearchX86(b)
    PROVE  OnTheWay(b)'
<1>1. DOMAIN builder = Builders /\ DOMAIN builder[b] = Fields
  BY DEF Shapes, Shape
<1>2. /\ builder[b].pc \in {"build", "lowstub"} => ~builder[b].fallback
      /\ builder[b].pc \in {"lowstub", "low16m"} => builder[b].archs[1] = "x64"
      /\ builder[b].pc = "ntos" =>
            /\ builder[b].sb.arch = "x64"
            /\ builder[b].fallback =>
                    builder[b].sb.dtb = guest.kernel.dtb /\ builder[b].sb.kernel_hint = 0
  BY DEF OnTheWay
<1>3. CASE Build(b)
  <2> DEFINE u == settings(b)
  <2>1. u.arch \in {None, "x64"} /\ ~builder[b].fallback
    BY <1>2, <1>3 DEF Sought, Build, IsAt
  <2>2. CASE u.arch # None /\ u.dtb # NoHint /\ u.kernel_hint # NoHint
    <3> DEFINE probe == u.kernel_hint - (u.kernel_hint % Align)
               sb    == [arch |-> u.arch, kernel_hint |-> u.kernel_hint, dtb |-> u.dtb]
    <3>1. builder' = [builder EXCEPT ![b].pc = "ntos", ![b].probe = probe, ![b].sb = sb]
      BY <1>3, <2>2 DEF Build
    <3>2. sb.arch = "x64"
      BY <2>1, <2>2
    <3> HIDE DEF probe, sb
    <3>3. /\ builder'[b].pc = "ntos" /\ builder'[b].fallback = builder[b].fallback
          /\ builder'[b].sb = sb
      BY <1>1, <3>1 DEF Fields
    <3> QED BY <2>1, <3>2, <3>3 DEF OnTheWay, Looking, Storing
  <2>3. CASE ~(u.arch # None /\ u.dtb # NoHint /\ u.kernel_hint # NoHint)
    <3> DEFINE archs == IF u.arch = None THEN <<"x64", "x32_pae", "x32">> ELSE <<u.arch>>
    <3>1. builder' = [builder EXCEPT
                ![b].pc = IF archs[1] = "x64" THEN "lowstub" ELSE "low16m", ![b].archs = archs]
      BY <1>3, <2>3 DEF Build
    <3>2. archs[1] = "x64"
      BY <2>1
    <3> HIDE DEF archs
    <3>3. /\ builder'[b].pc = "lowstub" /\ builder'[b].fallback = builder[b].fallback
          /\ builder'[b].archs = archs
      BY <1>1, <3>1, <3>2 DEF Fields
    <3> QED BY <2>1, <3>2, <3>3 DEF OnTheWay, Looking, Storing
  <2> QED BY <2>2, <2>3
<1>4. CASE ReadLowStub(b)
  <2>1. /\ builder[b].pc = "lowstub" /\ ~builder[b].fallback /\ builder[b].archs[1] = "x64"
    BY <1>2, <1>4 DEF ReadLowStub, IsAt
  <2>2. \/ find_lowstub.dtb # 0 /\ FindsBlock(b, find_lowstub)
        \/ Go(b, "low16m")
    BY <1>4, Zenon DEF ReadLowStub
  <2>3. CASE find_lowstub.dtb # 0 /\ FindsBlock(b, find_lowstub)
    <3>1. find_lowstub.arch = "x64" /\ DOMAIN find_lowstub = {"arch", "kernel_hint", "dtb"}
      <4> DEFINE stub(p) == p.start /\ p.entry # 0 /\ p.pml4 >= 0
                 i == first_page({k \in 2..scenario.guest.stub_pages : stub(guest.low[k])})
      <4>1. find_lowstub = IF i = 0 THEN NoBlock
                ELSE [arch |-> "x64", kernel_hint |-> guest.low[i].entry, dtb |-> guest.low[i].pml4]
        BY DEF find_lowstub
      <4> HIDE DEF i
      <4> QED BY <2>3, <4>1 DEF NoBlock
    <3> HIDE DEF find_lowstub
    <3> QED BY <2>1, <2>3, <3>1, WayFound
  <2>4. CASE Go(b, "low16m")
    <3>1. builder'[b].pc = "low16m" /\ builder'[b].archs = builder[b].archs
      BY <1>1, <2>4 DEF Go, Fields
    <3> QED BY <2>1, <3>1 DEF OnTheWay, Looking, Storing
  <2> QED BY <2>2, <2>3, <2>4
<1>5. CASE ReadLow16M(b)
  <2> DEFINE sb == find_table(builder[b].archs[1])
  <2>1. IF sb = NoBlock THEN NotHere(b) ELSE FindsBlock(b, sb)
    BY <1>5, Zenon DEF ReadLow16M
  <2>2. builder[b].archs[1] = "x64"
    BY <1>2, <1>5 DEF ReadLow16M, IsAt
  <2>3. sb = [arch |-> "x64", kernel_hint |-> 0, dtb |-> guest.kernel.dtb]
    BY <2>2, TableFound DEF Sought
  <2> HIDE DEF sb
  <2>4. sb # NoBlock
    BY <2>3 DEF NoBlock, None
  <2>5. sb.arch = "x64" /\ DOMAIN sb = {"arch", "kernel_hint", "dtb"}
        /\ sb.dtb = guest.kernel.dtb /\ sb.kernel_hint = 0
    BY <2>3
  <2> QED BY <2>1, <2>4, <2>5, WayFound
<1>6. CASE ProbeHint(b)
  <2> DEFINE page == find_with_va(Space(b), builder[b].probe)
             probe == builder[b].probe - Chunk
  <2>1. Located(b, page) \/ builder' = [builder EXCEPT ![b].probe = probe]
    BY <1>6, Zenon DEF ProbeHint
  <2>2. builder[b].pc = "ntos"
    BY <1>6 DEF ProbeHint, IsAt
  <2>3. CASE builder' = [builder EXCEPT ![b].probe = probe]
    <3> HIDE DEF probe
    <3>1. /\ builder'[b].pc = "ntos" /\ builder'[b].fallback = builder[b].fallback
          /\ builder'[b].sb = builder[b].sb
      BY <1>1, <2>2, <2>3 DEF Fields
    <3> QED BY <2>2, <3>1, WayOn DEF Looking, Storing
  <2> QED BY <2>1, <2>2, <2>3, WayLocated
<1>7. CASE SearchPageMap(b)
  <2> DEFINE page == find_with_page_map(Space(b), {})
  <2>1. builder[b].pc = "ntos" /\ builder[b].sb.arch = "x64"
    BY <1>2, <1>7 DEF SearchPageMap, IsAt
  <2>2. IF page # 0 THEN Located(b, page) ELSE ScanFails(b)
    BY <1>7, Zenon DEF SearchPageMap
  <2>3. builder[b].fallback => page # 0
    BY <1>2, <2>1, ImageFound DEF Sought
  <2> HIDE DEF page
  <2> QED BY <2>1, <2>2, <2>3, WayLocated, WayFallsBack
<1>8. CASE SearchX86(b)
  BY <1>2, <1>8 DEF SearchX86, IsAt
<1> QED BY <1>3, <1>4, <1>5, <1>6, <1>7, <1>8

LEMMA WayScan ==
    ASSUME scenario \in Scenarios, Shapes, NEW b \in Builders, Fit(b), OnTheWay(b), Sought(b),
           scenario' = scenario, ~Fault, FindGuid(b) \/ FindWinver(b) \/ FindSysproc(b)
    PROVE  OnTheWay(b)'
<1>1. DOMAIN builder = Builders /\ DOMAIN builder[b] = Fields /\ DOMAIN builder[b].info = InfoFields
  BY DEF Shapes, Shape
<1>2. builder[b].pc \in Looking => NtosAt(Space(b), builder[b].info.base)
  BY DEF Fit
<1>3. builder[b].pc \in {"winver", "sysproc"} => builder[b].info.guid = guest.kernel.guid
  BY DEF OnTheWay
<1>4. CASE FindGuid(b)
  <2>1. builder' = [builder EXCEPT ![b].pc = "winver", ![b].info.guid = Image(b).guid]
    BY <1>4 DEF FindGuid
  <2>2. builder[b].pc = "guid"
    BY <1>4 DEF FindGuid, IsAt
  <2>3. /\ builder'[b].pc = "winver" /\ builder'[b].sb = builder[b].sb
        /\ builder'[b].fallback = builder[b].fallback /\ builder'[b].info.guid = Image(b).guid
    BY <1>1, <2>1 DEF Fields, InfoFields
  <2>4. Image(b).guid = guest.kernel.guid
    BY <1>2, <2>2, SpaceFacts DEF Looking, NtosAt, Image, IsKernel
  <2> QED BY <2>2, <2>3, <2>4, WayOn DEF Looking
<1>5. CASE FindWinver(b)
  <2> DEFINE v == find_winver(Space(b), Image(b))
  <2>1. builder' = [builder EXCEPT ![b].pc = "sysproc", ![b].info.winver = v]
    BY <1>5 DEF FindWinver
  <2>2. builder[b].pc = "winver"
    BY <1>5 DEF FindWinver, IsAt
  <2> HIDE DEF v
  <2>3. /\ builder'[b].pc = "sysproc" /\ builder'[b].sb = builder[b].sb
        /\ builder'[b].fallback = builder[b].fallback
        /\ builder'[b].info.guid = builder[b].info.guid
    BY <1>1, <2>1 DEF Fields, InfoFields
  <2> QED BY <1>3, <2>2, <2>3, WayOn DEF Looking
<1>6. CASE FindSysproc(b)
  <2>1. builder[b].pc = "sysproc"
    BY <1>6 DEF FindSysproc, IsAt
  <2>2. Image(b).eprocess # None
    BY <1>2, <2>1, ProcessFound DEF Looking, Image, Sought
  <2>3. builder' = [builder EXCEPT ![b].pc = "offsets", ![b].info.eprocess = Image(b).eprocess]
    BY <1>6, <2>2 DEF FindSysproc
  <2>4. builder'[b].pc = "offsets" /\ builder'[b].info.guid = builder[b].info.guid
    BY <1>1, <2>3 DEF Fields, InfoFields
  <2> QED BY <1>3, <2>1, <2>4, WayOn DEF Looking
<1> QED BY <1>4, <1>5, <1>6

LEMMA WayLoad ==
    ASSUME Shapes, NEW b \in Builders, OnTheWay(b), scenario' = scenario,
           \/ OpenStore(b) \/ ReadCache(b) \/ Download(b) \/ CreateFile(b) \/ WriteFile(b)
           \/ FromPdb(b) \/ ParsePdb(b) \/ NextStruct(b) \/ PdbFails(b) \/ NewKernel(b) \/ Crash(b)
    PROVE  OnTheWay(b)'
<1>1. DOMAIN builder = Builders /\ DOMAIN builder[b] = Fields
  BY DEF Shapes, Shape
<1>2. ASSUME NEW pc \in {"create", "parse"}, NEW v, builder[b].pc \in Storing,
             builder' = [builder EXCEPT ![b].pc = pc, ![b].buffer = v]
      PROVE  OnTheWay(b)'
  <2>1. builder'[b].pc = pc /\ builder'[b].info = builder[b].info
    BY <1>1, <1>2 DEF Fields
  <2>2. builder[b].info.guid = guest.kernel.guid
    BY <1>2 DEF OnTheWay
  <2>3. pc \notin {"failed", "build", "lowstub", "low16m", "ntos"} \cup Looking
    BY DEF Looking
  <2> QED BY <2>1, <2>2, <2>3, WayOn
<1>3. ASSUME NEW ms, UsePdb(b, ms) PROVE OnTheWay(b)'
  <2>1. builder'[b].pc = "dtb"
    BY <1>1, <1>3 DEF UsePdb, Fields
  <2> QED BY <2>1, WayOn DEF Looking, Storing
<1>4. CASE OpenStore(b)
  <2>1. Go(b, "list") \/ Go(b, "read") \/ Go(b, "download")
    BY <1>4, Zenon DEF OpenStore
  <2>2. builder[b].pc = "offsets" /\ {"read", "download"} \subseteq Storing
    BY <1>4 DEF OpenStore, IsAt, Storing
  <2> QED BY <2>1, <2>2, WayGo
<1>5. CASE ReadCache(b) \/ Download(b)
  <2>1. builder[b].pc \in Storing
    BY <1>5 DEF ReadCache, Download, IsAt, Storing
  <2>2. \/ Go(b, "list") \/ Go(b, "panicked")
        \/ builder' = [builder EXCEPT ![b].pc = "create", ![b].buffer = scenario.server]
        \/ builder' = [builder EXCEPT ![b].pc = "parse", ![b].buffer = cache_file]
    BY <1>5, Zenon DEF ReadCache, Download, Fetched
  <2> QED BY <1>2, <2>1, <2>2, WayGo
<1>6. CASE CreateFile(b) \/ WriteFile(b)
  <2>1. Go(b, "list") \/ Go(b, "write") \/ Go(b, "parse")
    BY <1>6, Zenon DEF CreateFile, WriteFile
  <2>2. builder[b].pc \in Storing /\ {"write", "parse"} \subseteq Storing
    BY <1>6 DEF CreateFile, WriteFile, IsAt, Storing
  <2> QED BY <2>1, <2>2, WayGo
<1>7. CASE FromPdb(b) \/ ParsePdb(b)
  <2>1. builder' = builder \/ Go(b, "panicked") \/ Go(b, "list")
    BY <1>7, Zenon DEF FromPdb, ParsePdb
  <2>2. builder[b].pc \in Storing
    BY <1>7 DEF FromPdb, ParsePdb, Parses, IsAt, Storing
  <2> QED BY <2>1, <2>2, WayGo, WayOthers
<1>8. CASE NextStruct(b) \/ PdbFails(b)
  <2>1. builder' = builder \/ Go(b, "panicked") \/ Go(b, "list") \/ \E ms : UsePdb(b, ms)
    BY <1>8, Zenon DEF NextStruct, PdbFails
  <2>2. builder[b].pc \in Storing
    BY <1>8 DEF NextStruct, PdbFails, Parses, IsAt, Storing
  <2> QED BY <1>3, <2>1, <2>2, WayGo, WayOthers
<1>9. CASE NewKernel(b)
  <2>1. PICK d : Uses(b, d)
    BY <1>9 DEF NewKernel
  <2>2. builder'[b].pc = "ready"
    BY <1>1, <2>1 DEF Uses, Fields
  <2> QED BY <2>2, WayOn DEF Looking, Storing
<1>10. CASE Crash(b)
  BY <1>10, WayGo DEF Crash
<1> QED BY <1>4, <1>5, <1>6, <1>7, <1>8, <1>9, <1>10

LEMMA WayList ==
    ASSUME scenario \in Scenarios, Shapes, NEW b \in Builders, OnTheWay(b), Sought(b),
           scenario' = scenario, UseList(b)
    PROVE  OnTheWay(b)'
<1>1. DOMAIN builder = Builders /\ DOMAIN builder[b] = Fields
  BY DEF Shapes, Shape
<1> DEFINE info  == builder[b].info
           exact == {i \in DOMAIN OffsetList : info.guid # None /\ OffsetList[i].guid = info.guid}
           found == build_with_offset_list(info, builder[b].sb.arch)
<1>2. info.guid = guest.kernel.guid
  BY DEF OnTheWay, UseList, IsAt
<1>3. exact # {}
  BY <1>2 DEF Sought, Findable
<1>4. found # {}
  BY <1>3 DEF build_with_offset_list
<1>5. PICK i \in found : builder' = [builder EXCEPT ![b].pc = "dtb", ![b].offsets = <<"list", i>>]
  BY <1>4, Zenon DEF UseList
<1>6. builder'[b].pc = "dtb"
  BY <1>1, <1>5 DEF Fields
<1> QED BY <1>6, WayOn DEF Looking, Storing

LEMMA WayStep ==
    ASSUME scenario \in Scenarios, Shapes, NEW b \in Builders, Fit(b), OnTheWay(b), Sought(b),
           scenario' = scenario, ~Fault, BuildStep(b) \/ Crash(b)
    PROVE  OnTheWay(b)'
<1>1. CASE \/ Build(b) \/ ReadLowStub(b) \/ ReadLow16M(b)
           \/ ProbeHint(b) \/ SearchPageMap(b) \/ SearchX86(b)
  BY <1>1, WaySearch
<1>2. CASE FindGuid(b) \/ FindWinver(b) \/ FindSysproc(b)
  BY <1>2, WayScan
<1>3. CASE UseList(b)
  BY <1>3, WayList
<1>4. CASE \/ OpenStore(b) \/ ReadCache(b) \/ Download(b) \/ CreateFile(b) \/ WriteFile(b)
           \/ FromPdb(b) \/ ParsePdb(b) \/ NextStruct(b) \/ PdbFails(b) \/ NewKernel(b) \/ Crash(b)
  BY <1>4, WayLoad
<1> QED BY <1>1, <1>2, <1>3, <1>4 DEF BuildStep

LEMMA TracedKept ==
    ASSUME KeptShapes, FitAll, Traced, [StartNext]_kvars
    PROVE  Traced'
<1>1. scenario \in Scenarios /\ Shapes /\ failures \in Nat
  BY DEF KeptShapes, Traced
<1>2. CASE StartNext
  <2>1. PICK b \in Builders : BuildStep(b) \/ Crash(b)
    BY <1>2 DEF StartNext
  <2>2. Only(b)
    BY <1>1, <2>1, StepOnly
  <2>3. ASSUME NEW c \in Builders, Sought(c)' PROVE OnTheWay(c)'
    <3>1. Sought(c) /\ ~Fault /\ OnTheWay(c) /\ scenario' = scenario
      BY <1>1, <2>1, <2>2, <2>3, SoughtBefore DEF Only, Traced
    <3>2. CASE c = b
      BY <1>1, <2>1, <3>1, <3>2, WayStep DEF FitAll
    <3>3. CASE c # b
      BY <2>2, <3>1, <3>3, WayOthers DEF Only
    <3> QED BY <3>2, <3>3
  <2>4. failures' \in Nat
    BY <1>1, <2>1, FaultsRise
  <2> QED BY <2>3, <2>4 DEF Traced
<1>3. CASE UNCHANGED kvars
  <2>1. scenario' = scenario /\ builder' = builder /\ failures' = failures
    BY <1>3 DEF kvars, svars
  <2>2. ASSUME NEW c \in Builders, Sought(c)' PROVE OnTheWay(c)'
    <3>1. Sought(c)
      BY <2>1, <2>2 DEF Sought, settings, guest, Findable, FirstTable, InWholeChunk
    <3> QED BY <2>1, <3>1, WayOthers DEF Traced
  <2> QED BY <1>1, <2>1, <2>2 DEF Traced
<1> QED BY <1>2, <1>3

(* Invariant: as long as no read has failed, a build does not give up on a *)
(* guest with a findable kernel: where the stub, a hint or an argument     *)
(* misleads the first scan, the fallback for x64 finds it                  *)
(* (KernelInfoScanner::scan, win32/kernel_info.rs).                        *)
THEOREM NotFoundIsAlwaysTrue == StartSpec => []NotFoundIsTrue
<1>1. StartInit => Traced
  <2> SUFFICES ASSUME StartInit PROVE Traced
    OBVIOUS
  <2>1. failures = 0 /\ builder = [b \in Builders |-> NewBuilder(b)]
    BY DEF StartInit
  <2>2. ASSUME NEW b \in Builders PROVE OnTheWay(b)
    <3>1. builder[b].pc \in {"build", "absent"} /\ ~builder[b].fallback
      BY <2>1 DEF NewBuilder
    <3> QED BY <3>1 DEF OnTheWay, Looking, Storing
  <2> QED BY <2>1, <2>2 DEF Traced
<1>2. KeptShapes /\ FitAll /\ Traced /\ [StartNext]_kvars => Traced'
  BY TracedKept
<1>3. KeptShapes /\ FitAll /\ [StartNext]_kvars => FitAll'
  BY FitAllKept
<1>4. Traced => NotFoundIsTrue
  <2> SUFFICES ASSUME Traced, NEW b \in Builders, Sought(b), builder[b].pc = "failed" PROVE FALSE
    BY DEF NotFoundIsTrue, IsAt, Sought
  <2> QED BY DEF Traced, OnTheWay
<1> QED BY <1>1, <1>2, <1>3, <1>4, FirstFit, ShapesKept, PTL DEF StartSpec

=============================================================================
