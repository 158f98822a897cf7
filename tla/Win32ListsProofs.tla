-------------------------- MODULE Win32ListsProofs --------------------------
(***************************************************************************)
(* What Win32Lists says of its walks, its searches and its keyboard, for   *)
(* any processes, modules, calls and changes of the guest.                 *)
(*                                                                         *)
(* A circular list that is changed while it is walked is reasoned about    *)
(* through a rank: every node that ever was in a list during the call has  *)
(* a number of its own, later entries have larger ones, and a link leads   *)
(* to a larger number or back to the head, even from an entry that was     *)
(* removed.  A walk is then a rising sequence that leaves out no entry     *)
(* that was there all the time, and it is over before MAX_ITER_COUNT.      *)
(***************************************************************************)
EXTENDS Win32Lists, FiniteSetTheorems, WellFoundedInduction, SequenceTheorems, TLAPS

Items == Procs \cup Entries

(* In the order of r, in which the head of a list is last. *)
Lt(r, x, y) == x \in Items /\ (y \in Items => r[x] < r[y])

(* The list of head h has the elements M, in the order of r. *)
Circular(f, h, M, r) ==
    /\ \A x \in M : /\ f[x] \in M \cup {h} /\ Lt(r, x, f[x])
                    /\ \A y \in M : ~(Lt(r, x, y) /\ Lt(r, y, f[x]))
    /\ f[h] \in M \cup {h} /\ (f[h] = h => M = {})
    /\ \A y \in M : y = f[h] \/ Lt(r, f[h], y)
    /\ \A y \in M \cup {h} : \E x \in M \cup {h} : f[x] = y
    /\ \A x, y \in M : r[x] = r[y] => x = y

(* Ranks are numbers, and order the elements of a list. *)
Ranks == [Items -> Nat]

LEMMA ItemsAreNotHeads == Items \cap Heads = {}
BY NodesAssumption DEF Items

LEMMA LtFacts ==
    ASSUME NEW r \in Ranks
    PROVE  /\ \A x \in Items : ~Lt(r, x, x)
           /\ \A x, y, z : Lt(r, x, y) /\ Lt(r, y, z) => Lt(r, x, z)
           /\ \A x, y \in Items : Lt(r, x, y) \/ Lt(r, y, x) \/ r[x] = r[y]
           /\ \A x \in Items, h \in Heads : Lt(r, x, h)
           /\ \A h \in Heads : \A x : ~Lt(r, h, x)
<1> \A x \in Items : r[x] \in Nat
  BY DEF Ranks
<1> QED BY ItemsAreNotHeads DEF Lt

(* No two elements of a list have the same successor. *)
LEMMA OnePredecessor ==
    ASSUME NEW r \in Ranks, NEW f, NEW h \in Heads, NEW M \in SUBSET Items, Circular(f, h, M, r)
    PROVE  \A x, y \in M \cup {h} : f[x] = f[y] => x = y
<1> SUFFICES ASSUME NEW x \in M \cup {h}, NEW y \in M \cup {h}, f[x] = f[y], x # y
             PROVE  FALSE
  OBVIOUS
<1>0. h \notin M
  BY ItemsAreNotHeads
<1>1. ASSUME NEW a \in M, NEW b \in M, f[a] = f[b], Lt(r, a, b) PROVE FALSE
  BY <1>1 DEF Circular
<1>2. ASSUME NEW a \in M, f[a] = f[h] PROVE FALSE
  <2>1. CASE f[h] = h
    BY <2>1 DEF Circular
  <2>2. CASE f[h] # h
    <3>1. f[h] \in M /\ Lt(r, a, f[h]) /\ (a = f[h] \/ Lt(r, f[h], a))
      BY <1>2, <2>2 DEF Circular
    <3> QED BY <3>1, LtFacts
  <2> QED BY <2>1, <2>2
<1>3. CASE x \in M /\ y \in M
  <2>1. r[x] # r[y]
    BY <1>3 DEF Circular
  <2> QED BY <1>1, <1>3, <2>1, LtFacts
<1> QED BY <1>2, <1>3

(* Nothing changes for a list whose links and ranks do not. *)
LEMMA SameCircular ==
    ASSUME NEW r \in Ranks, NEW r2 \in Ranks, NEW f, NEW g, NEW h \in Heads, NEW M \in SUBSET Items,
           Circular(f, h, M, r),
           \A x \in M \cup {h} : g[x] = f[x], \A x \in M : r2[x] = r[x]
    PROVE  Circular(g, h, M, r2)
<1>1. \A x, y \in M \cup {h} : Lt(r2, x, y) <=> Lt(r, x, y)
  BY ItemsAreNotHeads DEF Lt
<1> QED BY <1>1 DEF Circular

(* InsertTailList: m is the last element, or the head of an empty list.    *)
LEMMA InsertKeeps ==
    ASSUME NEW r \in Ranks, NEW r2 \in Ranks, NEW f, NEW g, NEW h \in Heads, NEW M \in SUBSET Items,
           Circular(f, h, M, r), NEW n \in Items, n \notin M, NEW m \in M \cup {h}, f[m] = h,
           g[n] = h, g[m] = n, \A x \in (M \cup {h}) \ {m} : g[x] = f[x],
           \A x \in M : r2[x] = r[x] /\ r2[x] < r2[n]
    PROVE  Circular(g, h, M \cup {n}, r2)
<1>0. h \notin Items /\ n # h
  BY ItemsAreNotHeads
<1>1. \A x, y \in M \cup {h} : Lt(r2, x, y) <=> Lt(r, x, y)
  BY <1>0 DEF Lt
<1>2. \A x \in M : Lt(r2, x, n) /\ ~Lt(r2, n, x) /\ Lt(r2, x, h) /\ r2[x] # r2[n]
  BY <1>0, LtFacts DEF Lt, Ranks
<1>3. Lt(r2, n, h) /\ ~Lt(r2, n, n) /\ ~Lt(r2, h, n)
  BY <1>0, LtFacts
<1>4. \A x \in (M \cup {h}) \ {m} : g[x] = f[x] /\ f[x] \in M
  <2>1. \A x \in (M \cup {h}) \ {m} : f[x] # h
    BY OnePredecessor
  <2> QED BY <2>1 DEF Circular
<1>5. ASSUME NEW x \in M \cup {n}
      PROVE  /\ g[x] \in M \cup {n} \cup {h} /\ Lt(r2, x, g[x])
             /\ \A y \in M \cup {n} : ~(Lt(r2, x, y) /\ Lt(r2, y, g[x]))
  <2>1. CASE x = n
    BY <1>2, <1>3, <2>1
  <2>2. CASE x = m
    <3>1. \A y \in M : ~Lt(r, x, y)
      <4>1. x \in M /\ f[x] = h
        BY <1>0, <2>2
      <4>2. \A y \in M : Lt(r, y, h)
        BY <1>0 DEF Lt
      <4> QED BY <4>1, <4>2 DEF Circular
    <3> QED BY <1>0, <1>1, <1>2, <1>3, <2>2, <3>1
  <2>3. CASE x # n /\ x # m
    <3>1. g[x] = f[x] /\ f[x] \in M /\ x \in M
      BY <1>4, <2>3
    <3>2. Lt(r, x, f[x]) /\ \A y \in M : ~(Lt(r, x, y) /\ Lt(r, y, f[x]))
      BY <3>1 DEF Circular
    <3> QED BY <1>1, <1>2, <3>1, <3>2
  <2> QED BY <2>1, <2>2, <2>3
<1>6. /\ g[h] \in M \cup {n} \cup {h} /\ (g[h] = h => M \cup {n} = {})
      /\ \A y \in M \cup {n} : y = g[h] \/ Lt(r2, g[h], y)
  <2>1. CASE m = h
    <3>1. M = {}
      BY <2>1 DEF Circular
    <3> QED BY <1>0, <2>1, <3>1
  <2>2. CASE m # h
    <3>1. g[h] = f[h] /\ f[h] \in M
      BY <1>4, <2>2
    <3>2. \A y \in M : y = f[h] \/ Lt(r, f[h], y)
      BY DEF Circular
    <3> QED BY <1>0, <1>1, <1>2, <3>1, <3>2
  <2> QED BY <2>1, <2>2
<1>7. ASSUME NEW y \in M \cup {n} \cup {h} PROVE \E x \in M \cup {n} \cup {h} : g[x] = y
  <2>1. CASE y \in M
    <3>1. PICK x \in M \cup {h} : f[x] = y
      BY <2>1 DEF Circular
    <3>2. x # m
      BY <1>0, <2>1, <3>1
    <3> QED BY <3>1, <3>2
  <2> QED BY <2>1
<1>8. \A x, y \in M \cup {n} : r2[x] = r2[y] => x = y
  BY <1>2 DEF Circular
<1>9. /\ \A x \in M \cup {n} : /\ g[x] \in (M \cup {n}) \cup {h} /\ Lt(r2, x, g[x])
                               /\ \A y \in M \cup {n} : ~(Lt(r2, x, y) /\ Lt(r2, y, g[x]))
      /\ \A y \in (M \cup {n}) \cup {h} : \E x \in (M \cup {n}) \cup {h} : g[x] = y
  BY <1>5, <1>7
<1> QED BY <1>6, <1>8, <1>9 DEF Circular

(* RemoveEntryList: m is the element before n, or the head. *)
LEMMA RemoveKeeps ==
    ASSUME NEW r \in Ranks, NEW f, NEW g, NEW h \in Heads, NEW M \in SUBSET Items,
           Circular(f, h, M, r), NEW n \in M, NEW m \in M \cup {h}, f[m] = n,
           g[m] = f[n], \A x \in (M \cup {h}) \ {m, n} : g[x] = f[x]
    PROVE  Circular(g, h, M \ {n}, r)
<1>0. h \notin Items /\ n # h
  BY ItemsAreNotHeads
<1>1. m # n /\ f[n] # n /\ f[n] \in M \cup {h} /\ Lt(r, n, f[n])
  <2>1. Lt(r, n, f[n]) /\ f[n] \in M \cup {h}
    BY DEF Circular
  <2> QED BY <2>1, LtFacts
<1>2. \A x \in (M \cup {h}) \ {m, n} : g[x] = f[x] /\ f[x] # n /\ f[x] # f[n]
  BY OnePredecessor
<1>3. \A y \in M : ~(Lt(r, n, y) /\ Lt(r, y, f[n]))
  BY DEF Circular
<1>4. \A y \in M : Lt(r, y, h)
  BY LtFacts
<1>5. \A y \in M \ {n} : Lt(r, n, y) => y = f[n] \/ Lt(r, f[n], y)
  <2> SUFFICES ASSUME NEW y \in M \ {n}, Lt(r, n, y) PROVE y = f[n] \/ Lt(r, f[n], y)
    OBVIOUS
  <2>1. ~Lt(r, y, f[n])
    BY <1>3
  <2>2. f[n] \in M
    BY <1>1, <1>4, <2>1
  <2>3. r[y] = r[f[n]] => y = f[n]
    BY <2>2 DEF Circular
  <2> QED BY <2>1, <2>2, <2>3, LtFacts
<1>6. ASSUME NEW x \in M \ {n}
      PROVE  /\ g[x] \in (M \ {n}) \cup {h} /\ Lt(r, x, g[x])
             /\ \A y \in M \ {n} : ~(Lt(r, x, y) /\ Lt(r, y, g[x]))
  <2>1. CASE x = m
    <3>1. Lt(r, m, n) /\ \A y \in M : ~(Lt(r, m, y) /\ Lt(r, y, n))
      BY <2>1 DEF Circular
    <3>2. Lt(r, m, f[n])
      BY <1>1, <3>1, LtFacts
    <3>3. \A y \in M \ {n} : Lt(r, m, y) => Lt(r, n, y)
      <4> SUFFICES ASSUME NEW y \in M \ {n}, Lt(r, m, y) PROVE Lt(r, n, y)
        OBVIOUS
      <4>1. ~Lt(r, y, n) /\ r[y] # r[n]
        BY <3>1 DEF Circular
      <4> QED BY <4>1, LtFacts
    <3> QED BY <1>1, <1>3, <2>1, <3>2, <3>3
  <2>2. CASE x # m
    <3>1. g[x] = f[x] /\ f[x] # n
      BY <1>2, <2>2
    <3> QED BY <3>1 DEF Circular
  <2> QED BY <2>1, <2>2
<1>7. /\ g[h] \in (M \ {n}) \cup {h} /\ (g[h] = h => M \ {n} = {})
      /\ \A y \in M \ {n} : y = g[h] \/ Lt(r, g[h], y)
  <2>1. CASE m = h
    <3>1. \A y \in M \ {n} : Lt(r, n, y)
      BY <2>1 DEF Circular
    <3>2. f[n] = h => M \ {n} = {}
      BY <1>3, <1>4, <3>1
    <3> QED BY <1>1, <1>5, <2>1, <3>1, <3>2
  <2>2. CASE m # h
    <3>1. g[h] = f[h] /\ f[h] # n
      BY <1>0, <1>2, <2>2
    <3> QED BY <3>1 DEF Circular
  <2> QED BY <2>1, <2>2
<1>8. ASSUME NEW y \in (M \ {n}) \cup {h} PROVE \E x \in (M \ {n}) \cup {h} : g[x] = y
  <2>1. CASE y = f[n]
    BY <1>1, <2>1
  <2>2. CASE y # f[n]
    <3>1. PICK x \in M \cup {h} : f[x] = y
      BY DEF Circular
    <3>2. x # n /\ x # m
      BY <1>0, <2>2, <3>1
    <3> QED BY <3>1, <3>2
  <2> QED BY <2>1, <2>2
<1>9. \A x, y \in M \ {n} : r[x] = r[y] => x = y
  BY DEF Circular
<1> QED BY <1>6, <1>7, <1>8, <1>9 DEF Circular

(* The links that Chain sets. *)
LEMMA ChainLinks ==
    ASSUME NEW f, NEW h \in DOMAIN f, NEW nodes \in Seq(DOMAIN f), IsInjective(nodes),
           h \notin ToSet(nodes)
    PROVE  /\ DOMAIN Chain(f, h, nodes) = DOMAIN f
           /\ Chain(f, h, nodes)[h] = IF nodes = <<>> THEN h ELSE nodes[1]
           /\ \A i \in DOMAIN nodes :
                 Chain(f, h, nodes)[nodes[i]] = IF i = Len(nodes) THEN h ELSE nodes[i + 1]
           /\ \A n \in DOMAIN f : n # h /\ n \notin ToSet(nodes) => Chain(f, h, nodes)[n] = f[n]
<1>1. ASSUME NEW i \in DOMAIN nodes
      PROVE  /\ nodes[i] \in DOMAIN f /\ nodes[i] \in ToSet(nodes) /\ nodes[i] # h
             /\ (CHOOSE j \in DOMAIN nodes : nodes[j] = nodes[i]) = i
  <2>1. nodes[i] \in ToSet(nodes) /\ nodes[i] \in DOMAIN f
    BY DEF ToSet
  <2>2. \A j \in DOMAIN nodes : nodes[j] = nodes[i] => j = i
    BY DEF IsInjective
  <2>3. nodes[i] # h
    BY <2>1
  <2>4. (CHOOSE j \in DOMAIN nodes : nodes[j] = nodes[i]) = i
    BY <2>2
  <2> QED BY <2>1, <2>3, <2>4
<1> DEFINE g == Chain(f, h, nodes)
<1>2. /\ DOMAIN g = DOMAIN f /\ g[h] = IF nodes = <<>> THEN h ELSE nodes[1]
      /\ \A n \in DOMAIN f : n # h /\ n \notin ToSet(nodes) => g[n] = f[n]
  BY DEF Chain
<1>3. ASSUME NEW i \in DOMAIN nodes PROVE g[nodes[i]] = IF i = Len(nodes) THEN h ELSE nodes[i + 1]
  <2>1. g[nodes[i]] = LET k == CHOOSE j \in DOMAIN nodes : nodes[j] = nodes[i]
                      IN  IF k = Len(nodes) THEN h ELSE nodes[k + 1]
    BY <1>1 DEF Chain
  <2> HIDE DEF g
  <2> QED BY <1>1, <2>1
<1> QED BY <1>2, <1>3

(* A chain is a list if the ranks grow along it. *)
LEMMA ChainMakes ==
    ASSUME NEW r \in Ranks, NEW g, NEW h \in Heads, NEW nodes \in Seq(Items), IsInjective(nodes),
           g[h] = IF nodes = <<>> THEN h ELSE nodes[1],
           \A i \in DOMAIN nodes : g[nodes[i]] = IF i = Len(nodes) THEN h ELSE nodes[i + 1],
           \A i, j \in DOMAIN nodes : i < j => r[nodes[i]] < r[nodes[j]]
    PROVE  Circular(g, h, ToSet(nodes), r)
<1> DEFINE M == ToSet(nodes)
<1>0. h \notin Items /\ Len(nodes) \in Nat /\ DOMAIN nodes = 1..Len(nodes)
  BY ItemsAreNotHeads
<1>1. \A i \in DOMAIN nodes : nodes[i] \in M /\ nodes[i] \in Items /\ r[nodes[i]] \in Nat
  BY DEF ToSet, Ranks
<1>2. \A x \in M : \E i \in DOMAIN nodes : x = nodes[i]
  BY DEF ToSet
<1> HIDE DEF M
<1>3. \A i, j \in DOMAIN nodes : Lt(r, nodes[i], nodes[j]) <=> i < j
  <2> SUFFICES ASSUME NEW i \in DOMAIN nodes, NEW j \in DOMAIN nodes
               PROVE  Lt(r, nodes[i], nodes[j]) <=> i < j
    OBVIOUS
  <2>1. i < j \/ j < i \/ i = j
    BY <1>0
  <2> QED BY <1>1, <2>1 DEF Lt
<1>4. ASSUME NEW x \in M
      PROVE  /\ g[x] \in M \cup {h} /\ Lt(r, x, g[x])
             /\ \A y \in M : ~(Lt(r, x, y) /\ Lt(r, y, g[x]))
  <2>1. PICK i \in DOMAIN nodes : x = nodes[i]
    BY <1>2
  <2>2. CASE i = Len(nodes)
    <3>1. g[x] = h
      BY <2>1, <2>2
    <3>2. \A j \in DOMAIN nodes : ~Lt(r, x, nodes[j])
      BY <1>0, <1>3, <2>1, <2>2
    <3>3. Lt(r, x, h)
      BY <1>1, <2>1, LtFacts
    <3> QED BY <1>2, <3>1, <3>2, <3>3
  <2>3. CASE i # Len(nodes)
    <3>1. i + 1 \in DOMAIN nodes /\ g[x] = nodes[i + 1]
      BY <1>0, <2>1, <2>3
    <3>2. \A j \in DOMAIN nodes : ~(Lt(r, x, nodes[j]) /\ Lt(r, nodes[j], g[x]))
      BY <1>0, <1>3, <2>1, <3>1
    <3>3. Lt(r, x, g[x])
      BY <1>0, <1>3, <2>1, <3>1
    <3> QED BY <1>1, <1>2, <3>1, <3>2, <3>3
  <2> QED BY <2>2, <2>3
<1>5. /\ g[h] \in M \cup {h} /\ (g[h] = h => M = {})
      /\ \A y \in M : y = g[h] \/ Lt(r, g[h], y)
  <2>1. CASE nodes = <<>>
    BY <1>0, <1>2, <2>1
  <2>2. CASE nodes # <<>>
    <3>1. 1 \in DOMAIN nodes /\ g[h] = nodes[1]
      BY <1>0, <2>2
    <3>2. \A j \in DOMAIN nodes : nodes[j] = nodes[1] \/ Lt(r, nodes[1], nodes[j])
      BY <1>0, <1>3, <3>1
    <3> QED BY <1>0, <1>1, <1>2, <3>1, <3>2
  <2> QED BY <2>1, <2>2
<1>6. \A y \in M \cup {h} : \E x \in M \cup {h} : g[x] = y
  <2>1. CASE nodes = <<>>
    BY <1>0, <1>2, <2>1
  <2>2. CASE nodes # <<>>
    <3>1. /\ 1 \in DOMAIN nodes /\ g[h] = nodes[1]
          /\ Len(nodes) \in DOMAIN nodes /\ g[nodes[Len(nodes)]] = h
      BY <1>0, <2>2
    <3>2. ASSUME NEW j \in DOMAIN nodes, j # 1 PROVE \E x \in M : g[x] = nodes[j]
      <4>1. j - 1 \in DOMAIN nodes /\ j - 1 # Len(nodes) /\ (j - 1) + 1 = j
        BY <1>0, <3>2
      <4> QED BY <1>1, <4>1
    <3>3. ASSUME NEW j \in DOMAIN nodes PROVE \E x \in M \cup {h} : g[x] = nodes[j]
      <4>1. j = 1 => g[h] = nodes[j]
        BY <3>1
      <4> QED BY <3>2, <4>1
    <3>4. \E x \in M \cup {h} : g[x] = h
      BY <1>1, <3>1
    <3> SUFFICES ASSUME NEW y \in M PROVE \E x \in M \cup {h} : g[x] = y
      BY <3>4
    <3>5. PICK j \in DOMAIN nodes : y = nodes[j]
      BY <1>2
    <3> QED BY <3>3, <3>5
  <2> QED BY <2>1, <2>2
<1>7. \A x, y \in M : r[x] = r[y] => x = y
  <2> SUFFICES ASSUME NEW i \in DOMAIN nodes, NEW j \in DOMAIN nodes, r[nodes[i]] = r[nodes[j]]
               PROVE  i = j
    BY <1>2
  <2> QED BY <1>0, <1>1
<1> QED BY <1>4, <1>5, <1>6, <1>7 DEF Circular, M

----------------------------------------------------------------------------
(* Guests whose lists are in order *)

States == {"free", "alive", "zombie", "unlinked"}

(* A list that can be read, and what is in the list of a head. *)
Live(st, h) == h = PsHead \/ h[1] = Kernel \/ st[h[1]] = "alive"
Members(st, ld, h) ==
    IF h = PsHead THEN {p \in Procs : st[p] \in {"alive", "zombie"}}
    ELSE {e \in ld : Module[e].list = h}

GuestTypes(f, st, ld) ==
    /\ f \in [Nodes -> Nodes \cup {Null, Junk, Odd}]
    /\ st \in [Procs -> States] /\ ld \in SUBSET Entries
    /\ st[System] = "alive" /\ f[PsHead] = System

(* Of a space that is gone only links remain. *)
DeadSpaces(f, st, ld) ==
    /\ \A e \in ld : Live(st, Module[e].list)
    /\ \A h \in ModHeads : ~Live(st, h) =>
           f[h] = h \/ (f[h] \in Entries /\ Module[f[h]].list = h)

LiveLists(f, st, ld, r) ==
    \A h \in Heads : Live(st, h) => Circular(f, h, Members(st, ld, h), r)

(* The first module of a space stays, and no link leaves its list.         *)
Links(f, st) ==
    /\ \A h \in ModHeads : Live(st, h) /\ Loads[h] # <<>> => f[h] = Loads[h][1]
    /\ \A e \in Entries : f[e] \in Nodes => HeadOf(f[e]) = HeadOf(e)

(* The guest's lists are lists. *)
Good(f, st, ld, r) ==
    GuestTypes(f, st, ld) /\ DeadSpaces(f, st, ld) /\ LiveLists(f, st, ld, r) /\ Links(f, st)

LEMMA HeadOfFacts ==
    /\ \A p \in Procs : HeadOf(p) = PsHead
    /\ \A e \in Entries : HeadOf(e) = Module[e].list /\ HeadOf(e) \in ModHeads
    /\ \A h \in Heads : HeadOf(h) = h
    /\ \A n \in Nodes : HeadOf(n) \in Heads
    /\ ModHeads \subseteq Heads /\ PsHead \in Heads /\ PsHead \notin ModHeads
    /\ Nodes = Items \cup Heads /\ Items = Procs \cup Entries
    /\ Procs \cap Entries = {} /\ Procs \cap Heads = {} /\ Entries \cap Heads = {}
BY NodesAssumption DEF HeadOf, Heads, Nodes, Items

LEMMA MembersFacts ==
    ASSUME NEW st, NEW ld \in SUBSET Entries, NEW h \in Heads
    PROVE  /\ Members(st, ld, h) \in SUBSET Items
           /\ \A x \in Members(st, ld, h) : HeadOf(x) = h
           /\ h # PsHead => Members(st, ld, h) \subseteq Entries
           /\ h = PsHead => Members(st, ld, h) \subseteq Procs
BY HeadOfFacts DEF Members

LEMMA LiveFacts ==
    ASSUME NEW st \in [Procs -> States]
    PROVE  /\ Live(st, PsHead)
           /\ \A h \in ModHeads : h[1] \in Procs \cup {Kernel}
           /\ \A h \in ModHeads : Live(st, h) <=> (h[1] = Kernel \/ st[h[1]] = "alive")
           /\ \A p \in Procs \cup {Kernel} : Natives(p) \in ModHeads /\ Wow64s(p) \in ModHeads
           /\ \A p : Natives(p) # Wow64s(p) /\ Natives(p)[1] = p /\ Wow64s(p)[1] = p
           /\ \A p, h : h \in ModHeads /\ h[1] = p => h = Natives(p) \/ h = Wow64s(p)
<1>1. \A h \in ModHeads : \E a \in Procs \cup {Kernel} : \E k \in {"native", "wow64"} : h = <<a, k>>
  BY DEF ModHeads
<1> QED BY <1>1, HeadOfFacts DEF Live, Natives, Wow64s, ModHeads

(* Every link stays in its list. *)
LEMMA OwnList ==
    ASSUME NEW f, NEW st, NEW ld, NEW r, Good(f, st, ld, r), NEW m,
           m \in Heads \cup ld \cup Members(st, ld, PsHead)
    PROVE  /\ f[m] \in Nodes /\ HeadOf(f[m]) = HeadOf(m)
           /\ m \in Items => Live(st, HeadOf(m)) /\ m \in Members(st, ld, HeadOf(m))
<1>0. ld \in SUBSET Entries /\ st \in [Procs -> States]
  BY DEF Good, GuestTypes
<1>1. ASSUME NEW h \in Heads, Live(st, h), m \in Members(st, ld, h) \cup {h}
      PROVE  f[m] \in Nodes /\ HeadOf(f[m]) = h /\ HeadOf(m) = h
  <2>1. f[m] \in Members(st, ld, h) \cup {h}
    BY <1>1 DEF Good, LiveLists, Circular
  <2> QED BY <1>0, <1>1, <2>1, MembersFacts, HeadOfFacts
<1>2. CASE m \in Heads
  <2>1. CASE Live(st, m)
    BY <1>1, <1>2, <2>1, HeadOfFacts
  <2>2. CASE ~Live(st, m)
    <3>1. m \in ModHeads
      BY <1>2, <2>2 DEF Heads, Live
    <3>2. f[m] = m \/ (f[m] \in Entries /\ Module[f[m]].list = m)
      BY <2>2, <3>1 DEF Good, DeadSpaces
    <3> QED BY <1>2, <3>2, HeadOfFacts
  <2> QED BY <1>2, <2>1, <2>2, HeadOfFacts
<1>3. CASE m \in ld
  <2>1. m \in Entries /\ HeadOf(m) = Module[m].list /\ HeadOf(m) \in ModHeads /\ m \in Items
    BY <1>0, <1>3, HeadOfFacts
  <2>2. Live(st, HeadOf(m)) /\ m \in Members(st, ld, HeadOf(m))
    BY <1>3, <2>1, HeadOfFacts DEF Good, DeadSpaces, Members
  <2> QED BY <1>1, <2>1, <2>2, HeadOfFacts
<1>4. CASE m \in Members(st, ld, PsHead)
  <2>1. m \in Procs /\ HeadOf(m) = PsHead /\ Live(st, PsHead)
    BY <1>0, <1>4, HeadOfFacts DEF Live, Members
  <2> QED BY <1>1, <1>4, <2>1, HeadOfFacts
<1> QED BY <1>2, <1>3, <1>4

(* The element before another, of a list that can be read. *)
LEMMA BeforeIs ==
    ASSUME NEW r \in Ranks, Good(flink, state, loaded, r), NEW h \in Heads, Live(state, h),
           NEW n, n \in Members(state, loaded, h) \/ (n = h /\ flink[h] # h)
    PROVE  /\ Before(flink, n) \in Members(state, loaded, h) \cup {h}
           /\ Before(flink, n) # n /\ flink[Before(flink, n)] = n
<1> DEFINE M == Members(state, loaded, h)
           Active == Heads \cup loaded \cup {p \in Procs : state[p] \in {"alive", "zombie"}}
           Cand(m) == m \in DOMAIN flink \ {n} /\ flink[m] = n /\ m \in Active
<1>0. /\ loaded \in SUBSET Entries /\ state \in [Procs -> States] /\ DOMAIN flink = Nodes
      /\ Active = Heads \cup loaded \cup Members(state, loaded, PsHead)
      /\ M \in SUBSET Items /\ HeadOf(n) = h /\ Circular(flink, h, M, r)
  <2>1. loaded \in SUBSET Entries /\ state \in [Procs -> States] /\ DOMAIN flink = Nodes
    BY DEF Good, GuestTypes
  <2>2. M \in SUBSET Items /\ HeadOf(n) = h
    BY <2>1, MembersFacts, HeadOfFacts
  <2>3. Circular(flink, h, M, r)
    BY DEF Good, LiveLists
  <2> QED BY <2>1, <2>2, <2>3 DEF Members
<1>1. \E m : Cand(m)
  <2>1. PICK m \in M \cup {h} : flink[m] = n
    BY <1>0 DEF Circular
  <2>2. m # n
    <3>1. m \in M => Lt(r, m, flink[m])
      BY <1>0 DEF Circular
    <3> QED BY <1>0, <2>1, <3>1, LtFacts, ItemsAreNotHeads
  <2>3. m \in Nodes /\ m \in Active
    BY <1>0, <2>1, HeadOfFacts DEF Members
  <2> QED BY <1>0, <2>1, <2>2, <2>3
<1>2. ASSUME NEW m, Cand(m) PROVE m \in M \cup {h} /\ m # n /\ flink[m] = n
  <2>1. /\ HeadOf(flink[m]) = HeadOf(m)
        /\ m \in Items => m \in Members(state, loaded, HeadOf(m))
    BY <1>0, <1>2, OwnList
  <2>2. m \in Items \cup Heads
    BY <1>0, <1>2, HeadOfFacts
  <2> QED BY <1>0, <1>2, <2>1, <2>2, HeadOfFacts
<1>3. Before(flink, n) = CHOOSE m \in DOMAIN flink \ {n} : flink[m] = n /\ m \in Active
  BY DEF Before
<1> HIDE DEF Active
<1>4. Cand(Before(flink, n))
  BY <1>1, <1>3
<1> QED BY <1>2, <1>4

(* The other lists than that of h are the same, as is the first of it.     *)
SameMembers(h, st, ld, st2, ld2) ==
    /\ \A x \in Heads : Live(st2, x) <=> Live(st, x)
    /\ \A x \in Heads \ {h} : Members(st2, ld2, x) = Members(st, ld, x)
SameElsewhere(h, f, r, g, r2) ==
    /\ \A x \in Nodes : HeadOf(x) # h => g[x] = f[x]
    /\ \A x \in Items : HeadOf(x) # h => r2[x] = r[x]
    /\ h \in ModHeads /\ Loads[h] # <<>> => g[h] = f[h]
    /\ \A e \in Entries : HeadOf(e) = h /\ g[e] \in Nodes => HeadOf(g[e]) = h

(* A change of one list leaves the others alone. *)
LEMMA OneList ==
    ASSUME NEW r \in Ranks, NEW r2 \in Ranks, NEW f, NEW st, NEW ld, Good(f, st, ld, r),
           NEW h \in Heads, NEW g, NEW st2, NEW ld2, GuestTypes(g, st2, ld2),
           SameMembers(h, st, ld, st2, ld2), SameElsewhere(h, f, r, g, r2),
           Live(st, h), Circular(g, h, Members(st2, ld2, h), r2)
    PROVE  Good(g, st2, ld2, r2)
<1>4. /\ \A x \in Heads : Live(st2, x) <=> Live(st, x)
      /\ \A x \in Heads \ {h} : Members(st2, ld2, x) = Members(st, ld, x)
      /\ \A x \in Nodes : HeadOf(x) # h => g[x] = f[x]
      /\ \A x \in Items : HeadOf(x) # h => r2[x] = r[x]
      /\ h \in ModHeads /\ Loads[h] # <<>> => g[h] = f[h]
      /\ \A e \in Entries : HeadOf(e) = h /\ g[e] \in Nodes => HeadOf(g[e]) = h
  BY DEF SameMembers, SameElsewhere
<1>0. /\ ld \in SUBSET Entries /\ st \in [Procs -> States]
      /\ ld2 \in SUBSET Entries /\ st2 \in [Procs -> States]
  BY DEF Good, GuestTypes
<1>1. LiveLists(g, st2, ld2, r2)
  <2> SUFFICES ASSUME NEW x \in Heads \ {h}, Live(st2, x)
               PROVE  Circular(g, x, Members(st2, ld2, x), r2)
    BY <1>4 DEF LiveLists
  <2>1. Circular(f, x, Members(st, ld, x), r)
    BY <1>4 DEF Good, LiveLists
  <2>2. \A y \in Members(st, ld, x) \cup {x} : y \in Nodes /\ HeadOf(y) # h
    BY <1>0, MembersFacts, HeadOfFacts
  <2>3. Members(st, ld, x) \in SUBSET Items
    BY <1>0, MembersFacts
  <2> QED BY <1>4, <2>1, <2>2, <2>3, SameCircular
<1>2. DeadSpaces(g, st2, ld2)
  <2>1. ASSUME NEW e \in ld2 PROVE Live(st2, Module[e].list)
    <3>1. Module[e].list \in ModHeads /\ Module[e].list \in Heads /\ Module[e].list # PsHead
      BY <1>0, HeadOfFacts
    <3>2. CASE Module[e].list = h
      BY <1>4, <3>1, <3>2
    <3>3. CASE Module[e].list # h
      <4>1. e \in Members(st2, ld2, Module[e].list)
        BY <1>4, <3>1 DEF Members
      <4>2. e \in ld
        BY <1>4, <3>1, <3>3, <4>1 DEF Members
      <4> QED BY <1>4, <3>1, <4>2 DEF Good, DeadSpaces
    <3> QED BY <1>4, <3>2, <3>3
  <2>2. ASSUME NEW x \in ModHeads, ~Live(st2, x)
        PROVE  g[x] = x \/ (g[x] \in Entries /\ Module[g[x]].list = x)
    <3>1. ~Live(st, x) /\ g[x] = f[x]
      BY <1>4, <2>2, HeadOfFacts
    <3> QED BY <1>4, <3>1 DEF Good, DeadSpaces
  <2> QED BY <1>4, <2>1, <2>2 DEF DeadSpaces
<1>3. Links(g, st2)
  <2>1. ASSUME NEW x \in ModHeads, Live(st2, x), Loads[x] # <<>> PROVE g[x] = Loads[x][1]
    <3>1. Live(st, x) /\ g[x] = f[x]
      BY <1>4, <2>1, HeadOfFacts
    <3> QED BY <1>4, <2>1, <3>1 DEF Good, Links
  <2>2. ASSUME NEW e \in Entries, g[e] \in Nodes PROVE HeadOf(g[e]) = HeadOf(e)
    <3>1. HeadOf(e) # h => g[e] = f[e]
      BY <1>4, HeadOfFacts
    <3> QED BY <1>4, <2>2, <3>1 DEF Good, Links
  <2> QED BY <1>4, <2>1, <2>2 DEF Links
<1> QED BY <1>1, <1>2, <1>3 DEF Good

Above(r, b) == \A x \in Items : r[x] <= b

(* What InsertTailList does, m being the last element. *)
Inserted(f, g, M, h, n, m) ==
    /\ m \in M \cup {h} /\ f[m] = h /\ g[m] = n /\ g[n] = h
    /\ g \in [Nodes -> Nodes \cup {Null, Junk, Odd}]
    /\ \A x \in Nodes \ {m, n} : g[x] = f[x]

LEMMA InsertTailIs ==
    ASSUME NEW r \in Ranks, Good(flink, state, loaded, r), NEW h \in Heads, Live(state, h),
           NEW n \in Items, n \notin Members(state, loaded, h)
    PROVE  \E m : Inserted(flink, InsertTail(flink, h, n), Members(state, loaded, h), h, n, m)
<1> DEFINE M == Members(state, loaded, h)
           m == IF flink[h] = h THEN h ELSE Before(flink, h)
           g == InsertTail(flink, h, n)
<1>1. m \in M \cup {h} /\ flink[m] = h
  BY BeforeIs
<1>2. /\ flink \in [Nodes -> Nodes \cup {Null, Junk, Odd}] /\ n \in Nodes /\ h \in Nodes
      /\ M \in SUBSET Items /\ Items \subseteq Nodes /\ n # h
  BY MembersFacts, HeadOfFacts DEF Good, GuestTypes
<1>3. g = [flink EXCEPT ![n] = h, ![m] = n]
  BY DEF InsertTail
<1>4. m # n /\ m \in Nodes
  BY <1>1, <1>2
<1> HIDE DEF m, g, M
<1>5. Inserted(flink, g, M, h, n, m)
  BY <1>1, <1>2, <1>3, <1>4 DEF Inserted
<1> QED BY <1>5 DEF g, M

LEMMA InsertGood ==
    ASSUME NEW r \in Ranks, NEW b \in Nat, Above(r, b), NEW f, NEW st, NEW ld, Good(f, st, ld, r),
           NEW h \in Heads, Live(st, h), NEW n \in Items, HeadOf(n) = h,
           n \notin Members(st, ld, h), NEW g, NEW m,
           Inserted(f, g, Members(st, ld, h), h, n, m),
           NEW st2, NEW ld2, GuestTypes(f, st2, ld2),
           SameMembers(h, st, ld, st2, ld2),
           Members(st2, ld2, h) = Members(st, ld, h) \cup {n}
    PROVE  LET r2 == [r EXCEPT ![n] = b + 1] IN
           r2 \in Ranks /\ Above(r2, b + 1) /\ Good(g, st2, ld2, r2)
<1> DEFINE r2 == [r EXCEPT ![n] = b + 1]
           M == Members(st, ld, h)
<1>1. /\ r2 \in Ranks /\ r2[n] = b + 1 /\ \A x \in Items : x # n => r2[x] = r[x]
      /\ \A x \in Items : r[x] \in Nat /\ r[x] <= b
  BY DEF Ranks, Above
<1>2. Above(r2, b + 1)
  <2> HIDE DEF r2
  <2> QED BY <1>1 DEF Above
<1>3. M \in SUBSET Items /\ \A x \in M \cup {h} : HeadOf(x) = h /\ x \in Nodes
  BY MembersFacts, HeadOfFacts DEF Good, GuestTypes
<1>4. Circular(f, h, M, r)
  BY DEF Good, LiveLists
<1>5. Circular(g, h, M \cup {n}, r2)
  <2>1. \A x \in M : r2[x] = r[x] /\ r2[x] < r2[n]
    BY <1>1, <1>3
  <2>2. n \notin M /\ m \in M \cup {h} /\ f[m] = h /\ g[n] = h /\ g[m] = n
    BY DEF Inserted
  <2>3. \A x \in (M \cup {h}) \ {m} : g[x] = f[x]
    <3>1. n # h
      BY ItemsAreNotHeads
    <3> QED BY <1>3, <2>2, <3>1 DEF Inserted
  <2> HIDE DEF r2, M
  <2> QED BY <1>1, <1>3, <1>4, <2>1, <2>2, <2>3, InsertKeeps
<1>6. h \in ModHeads /\ Loads[h] # <<>> => g[h] = f[h]
  <2> SUFFICES ASSUME h \in ModHeads, Loads[h] # <<>> PROVE g[h] = f[h]
    OBVIOUS
  <2>1. f[h] = Loads[h][1]
    BY DEF Good, Links
  <2>2. f[h] \in Items
    BY <2>1, LoadsAssumption, HeadOfFacts
  <2>3. m # h /\ n # h /\ h \in Nodes
    BY <2>2, ItemsAreNotHeads, HeadOfFacts DEF Inserted
  <2> QED BY <2>3 DEF Inserted
<1>7. g[PsHead] = System
  <2>1. f[PsHead] = System /\ System \in Items /\ PsHead \in Nodes
    BY SystemAssumption, HeadOfFacts DEF Good, GuestTypes
  <2>2. m # PsHead /\ n # PsHead
    BY <1>3, <2>1, ItemsAreNotHeads, HeadOfFacts DEF Inserted
  <2> QED BY <2>1, <2>2 DEF Inserted
<1>8. \A e \in Entries : HeadOf(e) = h /\ g[e] \in Nodes => HeadOf(g[e]) = h
  <2> SUFFICES ASSUME NEW e \in Entries, HeadOf(e) = h, g[e] \in Nodes PROVE HeadOf(g[e]) = h
    OBVIOUS
  <2>1. g[e] = h \/ g[e] = n \/ g[e] = f[e]
    BY HeadOfFacts DEF Inserted
  <2> QED BY <2>1, HeadOfFacts DEF Good, Links
<1>9. GuestTypes(g, st2, ld2)
  BY <1>7 DEF GuestTypes, Inserted
<1>10. /\ \A x \in Nodes : HeadOf(x) # h => g[x] = f[x]
       /\ \A x \in Items : HeadOf(x) # h => r2[x] = r[x]
  <2>1. m \in M \cup {h}
    BY DEF Inserted
  <2> HIDE DEF r2, M
  <2> QED BY <1>1, <1>3, <2>1 DEF Inserted
<1> HIDE DEF r2, M
<1>13. SameElsewhere(h, f, r, g, r2)
  BY <1>6, <1>8, <1>10 DEF SameElsewhere
<1>11. Circular(g, h, Members(st2, ld2, h), r2)
  BY <1>5 DEF M
<1>12. Good(g, st2, ld2, r2)
  BY <1>1, <1>9, <1>13, <1>11, OneList
<1> QED BY <1>1, <1>2, <1>12 DEF r2

(* What RemoveEntryList does, m being the element before; the link of the  *)
(* removed one may be lost.                                                *)
Removed(f, g, M, h, n, m) ==
    /\ m \in M \cup {h} /\ f[m] = n /\ m # n /\ g[m] = f[n]
    /\ g \in [Nodes -> Nodes \cup {Null, Junk, Odd}]
    /\ g[n] = f[n] \/ g[n] \notin Nodes
    /\ \A x \in Nodes \ {m, n} : g[x] = f[x]

LEMMA UnlinkIs ==
    ASSUME NEW r \in Ranks, Good(flink, state, loaded, r), NEW h \in Heads, Live(state, h),
           NEW n \in Members(state, loaded, h)
    PROVE  /\ Removed(flink, Unlink(flink, n), Members(state, loaded, h), h, n, Before(flink, n))
           /\ \A x \in {Null, Junk, Odd} :
                Removed(flink, [Unlink(flink, n) EXCEPT ![n] = x],
                        Members(state, loaded, h), h, n, Before(flink, n))
<1> DEFINE M == Members(state, loaded, h)
           m == Before(flink, n)
           g == Unlink(flink, n)
<1>1. m \in M \cup {h} /\ m # n /\ flink[m] = n
  BY BeforeIs
<1>2. /\ flink \in [Nodes -> Nodes \cup {Null, Junk, Odd}] /\ n \in Nodes /\ h \in Nodes
      /\ M \in SUBSET Items /\ Items \subseteq Nodes
  BY MembersFacts, HeadOfFacts DEF Good, GuestTypes
<1>3. g = [flink EXCEPT ![m] = flink[n]] /\ {Null, Junk, Odd} \cap Nodes = {}
  BY NodesAssumption DEF Unlink
<1> HIDE DEF g, m, M
<1>4. Removed(flink, g, M, h, n, m)
  BY <1>1, <1>2, <1>3 DEF Removed
<1>5. \A x \in {Null, Junk, Odd} : Removed(flink, [g EXCEPT ![n] = x], M, h, n, m)
  BY <1>1, <1>2, <1>3 DEF Removed
<1> QED BY <1>4, <1>5 DEF g, m, M

LEMMA RemoveGood ==
    ASSUME NEW r \in Ranks, NEW f, NEW st, NEW ld, Good(f, st, ld, r),
           NEW h \in Heads, Live(st, h), NEW n \in Members(st, ld, h), f[h] # n,
           NEW g, NEW m, Removed(f, g, Members(st, ld, h), h, n, m),
           NEW st2, NEW ld2, GuestTypes(f, st2, ld2),
           SameMembers(h, st, ld, st2, ld2),
           Members(st2, ld2, h) = Members(st, ld, h) \ {n}
    PROVE  Good(g, st2, ld2, r)
<1> DEFINE M == Members(st, ld, h)
<1>1. M \in SUBSET Items /\ \A x \in M \cup {h} : HeadOf(x) = h /\ x \in Nodes
  BY MembersFacts, HeadOfFacts DEF Good, GuestTypes
<1>2. Circular(f, h, M, r)
  BY DEF Good, LiveLists
<1>3. m # h /\ n # h /\ h \in Nodes /\ m \in Nodes
  BY <1>1, ItemsAreNotHeads, HeadOfFacts DEF Removed
<1>4. g[h] = f[h]
  BY <1>3 DEF Removed
<1>5. Circular(g, h, M \ {n}, r)
  <2>1. m \in M \cup {h} /\ f[m] = n /\ g[m] = f[n] /\ n \in M
    BY DEF Removed
  <2>2. \A x \in (M \cup {h}) \ {m, n} : g[x] = f[x]
    BY <1>1 DEF Removed
  <2> HIDE DEF M
  <2> QED BY <1>1, <1>2, <2>1, <2>2, RemoveKeeps
<1>6. g[PsHead] = System
  <2>1. CASE h = PsHead
    BY <1>4, <2>1 DEF Good, GuestTypes
  <2>2. CASE h # PsHead
    <3>1. PsHead \in Nodes /\ HeadOf(PsHead) = PsHead /\ HeadOf(m) = h /\ HeadOf(n) = h
      BY <1>1, HeadOfFacts DEF Removed
    <3>2. g[PsHead] = f[PsHead]
      BY <2>2, <3>1 DEF Removed
    <3> QED BY <3>2 DEF Good, GuestTypes
  <2> QED BY <2>1, <2>2
<1>7. \A e \in Entries : HeadOf(e) = h /\ g[e] \in Nodes => HeadOf(g[e]) = h
  <2> SUFFICES ASSUME NEW e \in Entries, HeadOf(e) = h, g[e] \in Nodes PROVE HeadOf(g[e]) = h
    OBVIOUS
  <2>1. g[e] = f[n] \/ g[e] = f[e]
    BY HeadOfFacts DEF Removed
  <2>2. f[n] \in M \cup {h}
    BY <1>2 DEF Circular
  <2> QED BY <1>1, <2>1, <2>2 DEF Good, Links
<1>8. GuestTypes(g, st2, ld2)
  BY <1>6 DEF GuestTypes, Removed
<1>9. \A x \in Nodes : HeadOf(x) # h => g[x] = f[x]
  <2>1. m \in M \cup {h}
    BY DEF Removed
  <2> QED BY <1>1, <2>1 DEF Removed
<1>10. Circular(g, h, Members(st2, ld2, h), r)
  BY <1>5
<1> HIDE DEF M
<1>11. SameElsewhere(h, f, r, g, r)
  BY <1>4, <1>7, <1>9 DEF SameElsewhere
<1> QED BY <1>8, <1>10, <1>11, OneList

----------------------------------------------------------------------------
(* What was in a list during a call *)

(* Of the elements S that are in their lists all the time, none is between *)
(* x and z, an element of E or the head.                                   *)
Follows(S, E, r, x, z) ==
    /\ z \in E \cup {HeadOf(x)} /\ HeadOf(z) = HeadOf(x) /\ Lt(r, x, z)
    /\ \A s \in S : HeadOf(s) = HeadOf(x) => ~(Lt(r, x, s) /\ Lt(r, s, z))

(* The first element of a list, which never leaves it. *)
HasFirst(h) == h = PsHead \/ Loads[h] # <<>>
FirstOf(h)  == IF h = PsHead THEN System ELSE Loads[h][1]

Owned(st, ld, S, E) ==
    /\ E \in SUBSET Items /\ S \in SUBSET E
    /\ \A x \in S : x \in Members(st, ld, HeadOf(x))
    /\ \A h \in Heads : Live(st, h) => Members(st, ld, h) \subseteq E
    /\ \A x \in E \cap Procs : st[x] # "free"
    /\ \A x \in E \cap Entries : HeadOf(x)[1] \in E \cup {Kernel}

InOrder(st, E, r) ==
    /\ \A x, y \in E : HeadOf(x) = HeadOf(y) /\ r[x] = r[y] => x = y
    /\ \A x \in E : Live(st, HeadOf(x)) /\ HasFirst(HeadOf(x)) =>
           x = FirstOf(HeadOf(x)) \/ Lt(r, FirstOf(HeadOf(x)), x)

Linkage(f, st, S, E, r) ==
    \A x \in E : Live(st, HeadOf(x)) => Follows(S, E, r, x, f[x])

(* What is kept in the lists while nothing's memory is reused: S, steady   *)
(* since the call began, and E, whatever has been in one since.            *)
Kept(f, st, ld, S, E, r) ==
    Owned(st, ld, S, E) /\ InOrder(st, E, r) /\ Linkage(f, st, S, E, r)

(* The first element of a list is in it. *)
LEMMA FirstIsFirst ==
    ASSUME NEW f, NEW st, NEW ld, NEW r, Good(f, st, ld, r), NEW h \in Heads, Live(st, h), HasFirst(h)
    PROVE  /\ f[h] = FirstOf(h) /\ FirstOf(h) \in Members(st, ld, h)
           /\ \A x \in Members(st, ld, h) : x = FirstOf(h) \/ Lt(r, FirstOf(h), x)
<1>1. Circular(f, h, Members(st, ld, h), r)
  BY DEF Good, LiveLists
<1>2. f[h] = FirstOf(h)
  BY DEF Good, Links, GuestTypes, FirstOf, HasFirst, Heads
<1>3. FirstOf(h) \in Items
  <2>1. CASE h = PsHead
    BY <2>1, SystemAssumption DEF FirstOf, Items
  <2>2. CASE h # PsHead
    <3>1. h \in ModHeads /\ Loads[h] # <<>>
      BY <2>2 DEF Heads, HasFirst
    <3>2. 1 \in DOMAIN Loads[h] /\ Loads[h][1] \in Entries
      BY <3>1, LoadsAssumption
    <3> QED BY <2>2, <3>2 DEF FirstOf, Items
  <2> QED BY <2>1, <2>2
<1>4. FirstOf(h) \in Members(st, ld, h)
  BY <1>1, <1>2, <1>3, ItemsAreNotHeads DEF Circular
<1> QED BY <1>1, <1>2, <1>4 DEF Circular

(* When a call begins, what is in a list is what is kept. *)
LEMMA KeptAtFirst ==
    ASSUME NEW r \in Ranks, NEW f, NEW st, NEW ld, Good(f, st, ld, r)
    PROVE  LET E == Members(st, ld, PsHead) \cup ld IN Kept(f, st, ld, E, E, r)
<1> DEFINE E == Members(st, ld, PsHead) \cup ld
<1>0. /\ ld \in SUBSET Entries /\ st \in [Procs -> States] /\ E \in SUBSET Items
  BY MembersFacts, HeadOfFacts DEF Good, GuestTypes
<1>1. \A x \in E : /\ Live(st, HeadOf(x)) /\ x \in Members(st, ld, HeadOf(x))
                   /\ x \in Items /\ HeadOf(x) \in Heads
  <2> SUFFICES ASSUME NEW x \in E
               PROVE  /\ Live(st, HeadOf(x)) /\ x \in Members(st, ld, HeadOf(x))
                      /\ x \in Items /\ HeadOf(x) \in Heads
    OBVIOUS
  <2>1. x \in Items
    BY <1>0
  <2> QED BY <2>1, OwnList, HeadOfFacts
<1>2. \A h \in Heads : Members(st, ld, h) \subseteq E
  BY DEF Members
<1>3. \A x \in E \cap Procs : x \in Members(st, ld, PsHead)
  BY <1>1, HeadOfFacts
<1>4. \A x \in E \cap Procs : st[x] \in {"alive", "zombie"}
  BY <1>3 DEF Members
<1>5. \A x \in E \cap Entries : HeadOf(x)[1] \in E \cup {Kernel}
  <2> SUFFICES ASSUME NEW x \in E \cap Entries, HeadOf(x)[1] # Kernel
               PROVE  HeadOf(x)[1] \in E
    OBVIOUS
  <2>1. HeadOf(x) \in ModHeads /\ Live(st, HeadOf(x))
    BY <1>1, HeadOfFacts
  <2>2. st[HeadOf(x)[1]] = "alive" /\ HeadOf(x)[1] \in Procs
    BY <1>0, <2>1, LiveFacts
  <2>3. HeadOf(x)[1] \in Members(st, ld, PsHead)
    BY <2>2 DEF Members
  <2> QED BY <2>3
<1> HIDE DEF E
<1>6. Owned(st, ld, E, E)
  BY <1>0, <1>1, <1>2, <1>4, <1>5 DEF Owned
<1>7. ASSUME NEW h \in Heads, Live(st, h) PROVE Circular(f, h, Members(st, ld, h), r)
  BY <1>7 DEF Good, LiveLists
<1>8. InOrder(st, E, r)
  <2>1. \A x, y \in E : HeadOf(x) = HeadOf(y) /\ r[x] = r[y] => x = y
    BY <1>1, <1>7 DEF Circular
  <2>2. \A x \in E : HasFirst(HeadOf(x)) => x = FirstOf(HeadOf(x)) \/ Lt(r, FirstOf(HeadOf(x)), x)
    BY <1>1, FirstIsFirst
  <2> QED BY <2>1, <2>2 DEF InOrder
<1>9. Linkage(f, st, E, E, r)
  <2> SUFFICES ASSUME NEW x \in E PROVE Follows(E, E, r, x, f[x])
    BY DEF Linkage
  <2> DEFINE h == HeadOf(x)
             M == Members(st, ld, h)
  <2>1. /\ x \in M /\ f[x] \in M \cup {h} /\ Lt(r, x, f[x])
        /\ \A y \in M : ~(Lt(r, x, y) /\ Lt(r, y, f[x]))
    BY <1>1, <1>7 DEF Circular
  <2>2. HeadOf(f[x]) = h /\ M \subseteq E
    BY <1>0, <1>1, <1>2, <2>1, MembersFacts, HeadOfFacts
  <2> QED BY <1>1, <2>1, <2>2 DEF Follows
<1> QED BY <1>6, <1>8, <1>9 DEF Kept, E

(* An element that is new stays behind the others. *)
LEMMA InsertKept ==
    ASSUME NEW r \in Ranks, NEW b \in Nat, Above(r, b), NEW f, NEW st, NEW ld, Good(f, st, ld, r),
           NEW S, NEW E, Kept(f, st, ld, S, E, r),
           NEW h \in Heads, Live(st, h), NEW n \in Items, HeadOf(n) = h, n \notin E,
           NEW g, NEW m, Inserted(f, g, Members(st, ld, h), h, n, m),
           NEW st2, NEW ld2, GuestTypes(f, st2, ld2), SameMembers(h, st, ld, st2, ld2),
           Members(st2, ld2, h) = Members(st, ld, h) \cup {n},
           \A x \in E \cap Procs : st2[x] = st[x]
    PROVE  Kept(g, st2, ld2, S, E \cup {n}, [r EXCEPT ![n] = b + 1])
<1> DEFINE r2 == [r EXCEPT ![n] = b + 1]
           M == Members(st, ld, h)
           E2 == E \cup {n}
<1>1. /\ r2 \in Ranks /\ r2[n] = b + 1 /\ \A x \in Items : x # n => r2[x] = r[x]
      /\ \A x \in Items : r[x] \in Nat /\ r[x] <= b
  BY DEF Ranks, Above
<1> HIDE DEF r2
<1>2. E \in SUBSET Items /\ S \in SUBSET E /\ M \subseteq E /\ M \in SUBSET Items
  BY MembersFacts DEF Kept, Owned, Good, GuestTypes
<1>3. \A x, y \in E \cup Heads : Lt(r2, x, y) <=> Lt(r, x, y)
  BY <1>1, <1>2, ItemsAreNotHeads DEF Lt
<1>4. \A x \in E : Lt(r2, x, n) /\ ~Lt(r2, n, x) /\ r2[x] # r2[n]
  BY <1>1, <1>2 DEF Lt
<1>5. st \in [Procs -> States] /\ st2 \in [Procs -> States] /\ ld2 \in SUBSET Entries
  BY DEF Good, GuestTypes
<1>6. \A x \in Heads : Live(st2, x) <=> Live(st, x)
  BY DEF SameMembers
<1>7. \A x \in Heads : Members(st, ld, x) \subseteq Members(st2, ld2, x)
                        /\ Members(st2, ld2, x) \subseteq Members(st, ld, x) \cup {n}
  BY DEF SameMembers
<1>8. \A x \in E2 : HeadOf(x) \in Heads /\ x \in Items
  BY <1>2, HeadOfFacts
<1>9. Owned(st2, ld2, S, E2)
  <2>1. \A x \in S : x \in Members(st2, ld2, HeadOf(x))
    BY <1>2, <1>7, <1>8 DEF Kept, Owned
  <2>2. \A x \in Heads : Live(st2, x) => Members(st2, ld2, x) \subseteq E2
    BY <1>6, <1>7 DEF Kept, Owned
  <2>3. ASSUME NEW x \in E2 \cap Procs PROVE st2[x] # "free"
    <3>1. CASE x \in E
      BY <2>3, <3>1 DEF Kept, Owned
    <3>2. CASE x = n
      <4>1. h = PsHead
        BY <2>3, <3>2, HeadOfFacts
      <4> QED BY <3>2, <4>1 DEF Members
    <3> QED BY <3>1, <3>2
  <2>4. ASSUME NEW x \in E2 \cap Entries PROVE HeadOf(x)[1] \in E2 \cup {Kernel}
    <3>1. CASE x \in E
      BY <2>4, <3>1 DEF Kept, Owned
    <3>2. CASE x = n /\ h[1] # Kernel
      <4>1. h \in ModHeads
        BY <2>4, <3>2, HeadOfFacts
      <4>2. st[h[1]] = "alive" /\ h[1] \in Procs
        BY <1>5, <3>2, <4>1, LiveFacts
      <4>3. h[1] \in Members(st, ld, PsHead) /\ Live(st, PsHead) /\ PsHead \in Heads
        BY <4>2, HeadOfFacts DEF Members, Live
      <4> QED BY <3>2, <4>3 DEF Kept, Owned
    <3> QED BY <3>1, <3>2
  <2> QED BY <1>2, <2>1, <2>2, <2>3, <2>4 DEF Owned
<1>10. InOrder(st2, E2, r2)
  <2>1. ASSUME NEW x \in E2, NEW y \in E2, HeadOf(x) = HeadOf(y), r2[x] = r2[y] PROVE x = y
    <3>1. CASE x \in E /\ y \in E
      <4>1. r[x] = r[y]
        BY <1>1, <1>2, <2>1, <3>1
      <4> QED BY <2>1, <3>1, <4>1 DEF Kept, InOrder
    <3> QED BY <1>4, <2>1, <3>1
  <2>2. ASSUME NEW x \in E2, Live(st2, HeadOf(x)), HasFirst(HeadOf(x))
        PROVE  x = FirstOf(HeadOf(x)) \/ Lt(r2, FirstOf(HeadOf(x)), x)
    <3>1. Live(st, HeadOf(x)) /\ HeadOf(x) \in Heads
      BY <1>6, <1>8, <2>2
    <3>2. FirstOf(HeadOf(x)) \in E
      <4>1. FirstOf(HeadOf(x)) \in Members(st, ld, HeadOf(x))
        BY <2>2, <3>1, FirstIsFirst
      <4> QED BY <3>1, <4>1 DEF Kept, Owned
    <3>3. CASE x \in E
      BY <1>3, <2>2, <3>1, <3>2, <3>3 DEF Kept, InOrder
    <3>4. CASE x = n
      BY <1>4, <3>2, <3>4
    <3> QED BY <3>3, <3>4
  <2> QED BY <2>1, <2>2 DEF InOrder
<1>11. Linkage(g, st2, S, E2, r2)
  <2> SUFFICES ASSUME NEW x \in E2, Live(st2, HeadOf(x)) PROVE Follows(S, E2, r2, x, g[x])
    BY DEF Linkage
  <2>0. Live(st, HeadOf(x)) /\ HeadOf(x) \in Heads /\ x \in Nodes
    BY <1>6, <1>8, HeadOfFacts
  <2>1. CASE x = n
    <3>1. g[n] = h /\ Lt(r2, n, h) /\ HeadOf(h) = h
      BY <1>1, LtFacts, HeadOfFacts DEF Inserted
    <3>2. \A s \in S : ~Lt(r2, n, s)
      BY <1>2, <1>4
    <3> QED BY <2>1, <3>1, <3>2 DEF Follows
  <2>2. CASE x \in E /\ x = m
    <3>1. g[x] = n /\ f[x] = h /\ x \in M
      BY <1>2, <2>2, ItemsAreNotHeads DEF Inserted
    <3>2. HeadOf(x) = h
      BY <3>1, MembersFacts DEF Good, GuestTypes
    <3>3. ASSUME NEW s \in S, HeadOf(s) = h PROVE ~Lt(r2, x, s)
      <4>1. s \in M
        BY <1>2, <3>3 DEF Kept, Owned
      <4>2. ~(Lt(r, x, s) /\ Lt(r, s, f[x]))
        BY <3>1, <4>1 DEF Good, LiveLists, Circular
      <4>3. Lt(r, s, h)
        BY <1>2, <4>1, LtFacts
      <4> QED BY <1>2, <1>3, <2>2, <3>1, <4>1, <4>2, <4>3
    <3> QED BY <1>4, <2>2, <3>1, <3>2, <3>3 DEF Follows
  <2>3. CASE x \in E /\ x # m
    <3>1. x # n /\ g[x] = f[x]
      BY <2>0, <2>3 DEF Inserted
    <3>2. Follows(S, E, r, x, f[x])
      BY <2>0, <2>3 DEF Kept, Linkage
    <3>3. f[x] \in E \cup Heads
      BY <2>0, <3>2 DEF Follows
    <3>4. Lt(r2, x, f[x])
      BY <1>3, <2>3, <3>2, <3>3 DEF Follows
    <3>5. \A s \in S : HeadOf(s) = HeadOf(x) => ~(Lt(r2, x, s) /\ Lt(r2, s, f[x]))
      BY <1>2, <1>3, <2>3, <3>2, <3>3 DEF Follows
    <3> QED BY <3>1, <3>2, <3>4, <3>5 DEF Follows
  <2> QED BY <2>1, <2>2, <2>3
<1> QED BY <1>9, <1>10, <1>11 DEF Kept, r2, E2

(* An element that leaves its list still points into it. *)
LEMMA RemoveKept ==
    ASSUME NEW r \in Ranks, NEW f, NEW st, NEW ld, Good(f, st, ld, r),
           NEW S, NEW E, Kept(f, st, ld, S, E, r),
           NEW h \in Heads, Live(st, h), NEW n \in Members(st, ld, h),
           NEW g, NEW m, Removed(f, g, Members(st, ld, h), h, n, m), g[n] = f[n],
           NEW st2, NEW ld2, GuestTypes(f, st2, ld2), SameMembers(h, st, ld, st2, ld2),
           Members(st2, ld2, h) = Members(st, ld, h) \ {n},
           \A x \in E \cap Procs : st2[x] # "free"
    PROVE  Kept(g, st2, ld2, S \ {n}, E, r)
<1> DEFINE M == Members(st, ld, h)
           S2 == S \ {n}
<1>1. /\ E \in SUBSET Items /\ S \in SUBSET E /\ M \subseteq E /\ M \in SUBSET Items
      /\ \A x \in M : HeadOf(x) = h
  BY MembersFacts DEF Kept, Owned, Good, GuestTypes
<1>2. \A x \in Heads : Live(st2, x) <=> Live(st, x)
  BY DEF SameMembers
<1>3. \A x \in Heads : Members(st, ld, x) \subseteq Members(st2, ld2, x) \cup {n}
                        /\ Members(st2, ld2, x) \subseteq Members(st, ld, x)
  BY DEF SameMembers
<1>4. \A x \in E : HeadOf(x) \in Heads /\ x \in Items /\ x \in Nodes
  BY <1>1, HeadOfFacts
<1>5. Owned(st2, ld2, S2, E)
  <2>1. \A x \in S2 : x \in Members(st2, ld2, HeadOf(x))
    BY <1>1, <1>3, <1>4 DEF Kept, Owned
  <2>2. \A x \in Heads : Live(st2, x) => Members(st2, ld2, x) \subseteq E
    BY <1>2, <1>3 DEF Kept, Owned
  <2> QED BY <1>1, <2>1, <2>2 DEF Kept, Owned
<1>6. InOrder(st2, E, r)
  BY <1>2, <1>4 DEF Kept, InOrder
<1>7. Linkage(g, st2, S2, E, r)
  <2> SUFFICES ASSUME NEW x \in E, Live(st2, HeadOf(x)) PROVE Follows(S2, E, r, x, g[x])
    BY DEF Linkage
  <2>0. Live(st, HeadOf(x)) /\ HeadOf(x) \in Heads
    BY <1>2, <1>4
  <2>1. Follows(S, E, r, x, f[x])
    BY <2>0 DEF Kept, Linkage
  <2>2. CASE x # m
    <3>1. g[x] = f[x]
      BY <1>4, <2>2 DEF Removed
    <3> QED BY <2>1, <3>1 DEF Follows
  <2>3. CASE x = m
    <3>1. /\ x \in M /\ f[x] = n /\ g[x] = f[n] /\ HeadOf(x) = h
      BY <1>1, <2>3, ItemsAreNotHeads DEF Removed
    <3>2. Follows(S, E, r, n, f[n])
      BY <1>1 DEF Kept, Linkage
    <3>3. Lt(r, x, n) /\ Lt(r, n, f[n]) /\ Lt(r, x, f[n])
      BY <2>1, <3>1, <3>2, LtFacts DEF Follows
    <3>4. ASSUME NEW s \in S2, HeadOf(s) = h, Lt(r, x, s), Lt(r, s, f[n]) PROVE FALSE
      <4>1. ~Lt(r, s, n)
        BY <2>1, <3>1, <3>4 DEF Follows
      <4>2. ~Lt(r, n, s)
        BY <1>1, <3>2, <3>4 DEF Follows
      <4>3. r[s] = r[n] /\ s \in E /\ n \in E
        BY <1>1, <4>1, <4>2, LtFacts
      <4>4. s = n
        BY <1>1, <3>4, <4>3 DEF Kept, InOrder
      <4> QED BY <4>4
    <3>5. f[n] \in E \cup {h} /\ HeadOf(f[n]) = h
      BY <1>1, <3>2 DEF Follows
    <3> QED BY <3>1, <3>3, <3>4, <3>5 DEF Follows
  <2> QED BY <2>2, <2>3
<1> QED BY <1>5, <1>6, <1>7 DEF Kept

(* The ranks of the first modules of p: their places in the lists. *)
FirstRanks(r, p) ==
    [x \in Items |-> IF x \in FirstModules(p)
                     THEN CHOOSE i \in DOMAIN Loads[HeadOf(x)] : Loads[HeadOf(x)][i] = x
                     ELSE r[x]]

(* What NewSpace makes of the links. *)
LEMMA NewSpaceLinks ==
    ASSUME NEW p \in Procs \cup {Kernel}, NEW f, f \in [Nodes -> Nodes \cup {Null, Junk, Odd}]
    PROVE  /\ NewSpace(f, p) \in [Nodes -> Nodes \cup {Null, Junk, Odd}]
           /\ \A h \in {Natives(p), Wow64s(p)} :
                /\ NewSpace(f, p)[h] = IF Loads[h] = <<>> THEN h ELSE Loads[h][1]
                /\ \A i \in DOMAIN Loads[h] :
                      NewSpace(f, p)[Loads[h][i]] = IF i = Len(Loads[h]) THEN h ELSE Loads[h][i + 1]
           /\ \A n \in Nodes : n \notin {Natives(p), Wow64s(p)} /\ n \notin FirstModules(p) =>
                 NewSpace(f, p)[n] = f[n]
           /\ \A h \in {Natives(p), Wow64s(p)} :
                 h \in ModHeads /\ Loads[h] \in Seq(Items) /\ IsInjective(Loads[h])
                 /\ \A x \in ToSet(Loads[h]) : x \in Entries /\ HeadOf(x) = h
<1> DEFINE N == Natives(p)
           W == Wow64s(p)
           f1 == Chain(f, N, Loads[N])
           g  == Chain(f1, W, Loads[W])
<1>1. /\ N \in ModHeads /\ W \in ModHeads /\ N # W /\ N \in Nodes /\ W \in Nodes
  BY HeadOfFacts DEF N, W, Natives, Wow64s, ModHeads
<1>2. ASSUME NEW h \in {N, W}
      PROVE  /\ h \in ModHeads /\ Loads[h] \in Seq(Entries) /\ Loads[h] \in Seq(Items)
             /\ Loads[h] \in Seq(Nodes) /\ IsInjective(Loads[h]) /\ h \notin ToSet(Loads[h])
             /\ \A x \in ToSet(Loads[h]) : x \in Entries /\ HeadOf(x) = h /\ x \in Nodes
  <2>1. h \in ModHeads
    BY <1>1
  <2>2. /\ Loads[h] \in Seq(Entries) /\ IsInjective(Loads[h])
        /\ \A i \in DOMAIN Loads[h] : Module[Loads[h][i]].list = h
    BY <2>1, LoadsAssumption
  <2>3. \A x \in ToSet(Loads[h]) : x \in Entries /\ HeadOf(x) = h
    BY <2>2, HeadOfFacts DEF ToSet
  <2>4. Loads[h] \in Seq(Items) /\ Loads[h] \in Seq(Nodes)
    BY <2>2, HeadOfFacts
  <2> QED BY <2>1, <2>2, <2>3, <2>4, HeadOfFacts
<1> HIDE DEF N, W
<1>3. /\ DOMAIN f1 = Nodes /\ f1[N] = IF Loads[N] = <<>> THEN N ELSE Loads[N][1]
      /\ \A i \in DOMAIN Loads[N] :
            f1[Loads[N][i]] = IF i = Len(Loads[N]) THEN N ELSE Loads[N][i + 1]
      /\ \A n \in Nodes : n # N /\ n \notin ToSet(Loads[N]) => f1[n] = f[n]
  <2>1. N \in DOMAIN f /\ Loads[N] \in Seq(DOMAIN f) /\ IsInjective(Loads[N]) /\ N \notin ToSet(Loads[N])
    BY <1>1, <1>2
  <2>2. DOMAIN f = Nodes
    OBVIOUS
  <2> QED BY <2>1, <2>2, ChainLinks
<1> HIDE DEF f1
<1>4. /\ DOMAIN g = Nodes /\ g[W] = IF Loads[W] = <<>> THEN W ELSE Loads[W][1]
      /\ \A i \in DOMAIN Loads[W] :
            g[Loads[W][i]] = IF i = Len(Loads[W]) THEN W ELSE Loads[W][i + 1]
      /\ \A n \in Nodes : n # W /\ n \notin ToSet(Loads[W]) => g[n] = f1[n]
  <2>1. W \in DOMAIN f1 /\ Loads[W] \in Seq(DOMAIN f1) /\ IsInjective(Loads[W]) /\ W \notin ToSet(Loads[W])
    BY <1>1, <1>2, <1>3
  <2>2. DOMAIN f1 = Nodes
    BY <1>3
  <2> QED BY <2>1, <2>2, ChainLinks
<1>5. g = NewSpace(f, p) /\ FirstModules(p) = ToSet(Loads[N]) \cup ToSet(Loads[W])
  BY DEF NewSpace, FirstModules, f1, N, W
<1> HIDE DEF g
<1>6. N \notin ToSet(Loads[W]) /\ \A x \in ToSet(Loads[N]) : x # W /\ x \notin ToSet(Loads[W])
  BY <1>1, <1>2, HeadOfFacts
<1>7. /\ g[N] = IF Loads[N] = <<>> THEN N ELSE Loads[N][1]
      /\ \A i \in DOMAIN Loads[N] :
            g[Loads[N][i]] = IF i = Len(Loads[N]) THEN N ELSE Loads[N][i + 1]
  <2>1. \A i \in DOMAIN Loads[N] : Loads[N][i] \in ToSet(Loads[N])
    BY DEF ToSet
  <2> QED BY <1>1, <1>2, <1>3, <1>4, <1>6, <2>1
<1>8. \A n \in Nodes : n \notin {N, W} /\ n \notin FirstModules(p) => g[n] = f[n]
  BY <1>3, <1>4, <1>5
<1>9. g \in [Nodes -> Nodes \cup {Null, Junk, Odd}]
  <2>0. Chain(f1, W, Loads[W]) = [n \in DOMAIN f1 |-> g[n]]
    BY <1>4 DEF g, Chain
  <2>1. g = [n \in Nodes |-> g[n]]
    BY <1>3, <2>0 DEF g
  <2>2. ASSUME NEW h \in {N, W}, NEW x \in ToSet(Loads[h]) PROVE g[x] \in Nodes
    <3>1. PICK i \in DOMAIN Loads[h] : x = Loads[h][i]
      BY DEF ToSet
    <3>2. g[x] = IF i = Len(Loads[h]) THEN h ELSE Loads[h][i + 1]
      BY <1>4, <1>7, <3>1
    <3>3. i # Len(Loads[h]) => Loads[h][i + 1] \in Nodes
      BY <1>2
    <3> QED BY <1>1, <3>2, <3>3
  <2>3. \A h \in {N, W} : g[h] \in Nodes
    BY <1>1, <1>2, <1>4, <1>7
  <2>4. ASSUME NEW n \in Nodes PROVE g[n] \in Nodes \cup {Null, Junk, Odd}
    <3>1. CASE n \in {N, W} \/ n \in FirstModules(p)
      BY <1>5, <2>2, <2>3, <3>1
    <3>2. CASE ~(n \in {N, W} \/ n \in FirstModules(p))
      BY <1>8, <3>2
    <3> QED BY <3>1, <3>2
  <2> QED BY <2>1, <2>4
<1>10. \A h \in {N, W} :
         /\ g[h] = IF Loads[h] = <<>> THEN h ELSE Loads[h][1]
         /\ \A i \in DOMAIN Loads[h] :
               g[Loads[h][i]] = IF i = Len(Loads[h]) THEN h ELSE Loads[h][i + 1]
  BY <1>4, <1>7
<1> QED BY <1>2, <1>5, <1>8, <1>9, <1>10 DEF N, W

LEMMA UpperBound ==
    \A x, y, z \in Nat : \E s \in Nat : x <= s /\ y <= s /\ z <= s
<1> SUFFICES ASSUME NEW x \in Nat, NEW y \in Nat, NEW z \in Nat
             PROVE  \E s \in Nat : x <= s /\ y <= s /\ z <= s
  OBVIOUS
<1> WITNESS x + y + z \in Nat
<1> QED OBVIOUS

LEMMA FirstRanksIs ==
    ASSUME NEW r \in Ranks, NEW b \in Nat, Above(r, b), NEW p \in Procs \cup {Kernel}
    PROVE  /\ FirstRanks(r, p) \in Ranks
           /\ \E c \in Nat : Above(FirstRanks(r, p), c)
           /\ \A x \in Items : x \notin FirstModules(p) => FirstRanks(r, p)[x] = r[x]
           /\ \A h \in {Natives(p), Wow64s(p)} : \A i \in DOMAIN Loads[h] :
                 FirstRanks(r, p)[Loads[h][i]] = i
<1> DEFINE r2 == FirstRanks(r, p)
           N == Natives(p)
           W == Wow64s(p)
<1>0. N \in ModHeads /\ W \in ModHeads
  BY DEF Natives, Wow64s, ModHeads
<1>1. \A h \in {N, W} : /\ Loads[h] \in Seq(Entries) /\ IsInjective(Loads[h])
                        /\ \A i \in DOMAIN Loads[h] : Module[Loads[h][i]].list = h
  BY <1>0, LoadsAssumption
<1>2. FirstModules(p) = ToSet(Loads[N]) \cup ToSet(Loads[W])
  BY DEF FirstModules
<1> HIDE DEF N, W
<1>3. \A h \in {N, W} : \A i \in DOMAIN Loads[h] : r2[Loads[h][i]] = i
  <2> SUFFICES ASSUME NEW h \in {N, W}, NEW i \in DOMAIN Loads[h] PROVE r2[Loads[h][i]] = i
    OBVIOUS
  <2>1. /\ Loads[h][i] \in FirstModules(p) /\ Loads[h][i] \in Entries /\ Loads[h][i] \in Items
        /\ HeadOf(Loads[h][i]) = h
    BY <1>1, <1>2, HeadOfFacts DEF ToSet
  <2>2. (CHOOSE j \in DOMAIN Loads[h] : Loads[h][j] = Loads[h][i]) = i
    <3>1. \A j \in DOMAIN Loads[h] : Loads[h][j] = Loads[h][i] => j = i
      BY <1>1 DEF IsInjective
    <3> QED BY <3>1
  <2> QED BY <2>1, <2>2 DEF FirstRanks
<1>4. \A x \in Items : x \notin FirstModules(p) => r2[x] = r[x]
  BY DEF FirstRanks
<1>5. PICK c \in Nat : b <= c /\ Len(Loads[N]) <= c /\ Len(Loads[W]) <= c
  <2>1. Len(Loads[N]) \in Nat /\ Len(Loads[W]) \in Nat
    BY <1>1
  <2> QED BY <2>1, UpperBound
<1>6. ASSUME NEW x \in Items PROVE r2[x] \in Nat /\ r2[x] <= c
  <2>1. CASE x \in FirstModules(p)
    <3>1. PICK h \in {N, W} : x \in ToSet(Loads[h])
      BY <1>2, <2>1
    <3>2. PICK i \in DOMAIN Loads[h] : x = Loads[h][i]
      BY <3>1 DEF ToSet
    <3>3. i \in Nat /\ i <= Len(Loads[h]) /\ Len(Loads[h]) <= c /\ Len(Loads[h]) \in Nat
      BY <1>1, <1>5
    <3>4. r2[x] = i
      BY <1>3, <3>2
    <3> HIDE DEF r2
    <3> QED BY <3>3, <3>4
  <2>2. CASE x \notin FirstModules(p)
    <3>1. r[x] \in Nat /\ r[x] <= b /\ r2[x] = r[x]
      BY <1>4, <2>2 DEF Ranks, Above
    <3> HIDE DEF r2
    <3> QED BY <1>5, <3>1
  <2> QED BY <2>1, <2>2
<1>7. r2 \in Ranks
  <2>1. r2 = [x \in Items |-> r2[x]]
    BY DEF FirstRanks
  <2> QED BY <1>6, <2>1 DEF Ranks
<1>8. Above(r2, c)
  BY <1>6 DEF Above
<1> QED BY <1>3, <1>4, <1>7, <1>8 DEF N, W

(* A process gets an address space with its first modules. *)
LEMMA ReviveGood ==
    ASSUME NEW r \in Ranks, NEW b \in Nat, Above(r, b), NEW f, NEW st, NEW ld, Good(f, st, ld, r),
           NEW p \in Procs, st[p] = "zombie"
    PROVE  Good(NewSpace(f, p), [st EXCEPT ![p] = "alive"], ld \cup FirstModules(p), FirstRanks(r, p))
<1> DEFINE g   == NewSpace(f, p)
           st2 == [st EXCEPT ![p] = "alive"]
           ld2 == ld \cup FirstModules(p)
           r2  == FirstRanks(r, p)
           HS  == {Natives(p), Wow64s(p)}
<1>0. /\ st \in [Procs -> States] /\ ld \in SUBSET Entries /\ st[System] = "alive"
      /\ f \in [Nodes -> Nodes \cup {Null, Junk, Odd}] /\ f[PsHead] = System
  BY DEF Good, GuestTypes
<1>1. /\ g \in [Nodes -> Nodes \cup {Null, Junk, Odd}]
      /\ \A h \in HS : /\ g[h] = IF Loads[h] = <<>> THEN h ELSE Loads[h][1]
                       /\ \A i \in DOMAIN Loads[h] :
                            g[Loads[h][i]] = IF i = Len(Loads[h]) THEN h ELSE Loads[h][i + 1]
      /\ \A n \in Nodes : n \notin HS /\ n \notin FirstModules(p) => g[n] = f[n]
      /\ \A h \in HS : /\ h \in ModHeads /\ Loads[h] \in Seq(Items) /\ IsInjective(Loads[h])
                       /\ \A x \in ToSet(Loads[h]) : x \in Entries /\ HeadOf(x) = h
  BY <1>0, NewSpaceLinks
<1>2. /\ r2 \in Ranks /\ \A x \in Items : x \notin FirstModules(p) => r2[x] = r[x]
      /\ \A h \in HS : \A i \in DOMAIN Loads[h] : r2[Loads[h][i]] = i
  BY FirstRanksIs
<1>3. /\ st2 \in [Procs -> States] /\ \A q \in Procs : q # p => st2[q] = st[q]
      /\ st2[p] = "alive" /\ st2[System] = "alive"
  BY <1>0 DEF States
<1>4. /\ \A h \in HS : h \in Heads /\ ~Live(st, h) /\ Live(st2, h) /\ h # PsHead
      /\ \A h \in Heads \ HS : Live(st2, h) <=> Live(st, h)
  <2>1. \A h \in HS : h \in ModHeads /\ h[1] = p /\ p # Kernel /\ h # PsHead
    <3>1. \A h \in HS : h[1] = p
      BY DEF Natives, Wow64s
    <3>2. p # Kernel /\ PsHead \notin ModHeads
      BY NodesAssumption
    <3> QED BY <1>1, <3>1, <3>2
  <2>2. \A h \in HS : ~Live(st, h) /\ Live(st2, h)
    BY <1>0, <1>3, <2>1, LiveFacts
  <2>3. ASSUME NEW h \in Heads \ HS PROVE Live(st2, h) <=> Live(st, h)
    <3>1. CASE h = PsHead
      BY <3>1 DEF Live
    <3>2. CASE h \in ModHeads
      <4>1. h[1] # p /\ h[1] \in Procs \cup {Kernel}
        BY <1>0, <3>2, LiveFacts
      <4> QED BY <1>3, <4>1 DEF Live
    <3> QED BY <3>1, <3>2 DEF Heads
  <2> QED BY <2>1, <2>2, <2>3, HeadOfFacts
<1>5. FirstModules(p) = UNION {ToSet(Loads[h]) : h \in HS} /\ FirstModules(p) \subseteq Entries
  BY <1>1 DEF FirstModules
<1>6. \A x \in FirstModules(p) : HeadOf(x) \in HS /\ x \in ToSet(Loads[HeadOf(x)])
  BY <1>1, <1>5
<1>7. \A e \in ld : HeadOf(e) \notin HS /\ e \in Entries
  BY <1>0, <1>4, HeadOfFacts DEF Good, DeadSpaces
<1>8. /\ \A h \in HS : Members(st2, ld2, h) = ToSet(Loads[h])
      /\ \A h \in Heads \ HS : Members(st2, ld2, h) = Members(st, ld, h)
  <2>1. ASSUME NEW h \in HS PROVE Members(st2, ld2, h) = ToSet(Loads[h])
    <3>1. \A e \in ld2 : e \in Entries /\ (HeadOf(e) = h <=> e \in ToSet(Loads[h]))
      BY <1>1, <1>5, <1>6, <1>7
    <3>2. Members(st2, ld2, h) = {e \in ld2 : HeadOf(e) = h}
      BY <1>4, <3>1, HeadOfFacts DEF Members
    <3> QED BY <1>5, <3>1, <3>2
  <2>2. ASSUME NEW h \in Heads \ HS PROVE Members(st2, ld2, h) = Members(st, ld, h)
    <3>1. CASE h = PsHead
      <4>1. \A q \in Procs : st2[q] \in {"alive", "zombie"} <=> st[q] \in {"alive", "zombie"}
        BY <1>3
      <4> QED BY <3>1, <4>1 DEF Members
    <3>2. CASE h # PsHead
      <4>1. \A e \in FirstModules(p) : Module[e].list # h
        BY <1>5, <1>6, HeadOfFacts
      <4> QED BY <3>2, <4>1 DEF Members
    <3> QED BY <3>1, <3>2
  <2> QED BY <2>1, <2>2
<1> HIDE DEF g, st2, ld2, r2, HS
<1>9. ld2 \in SUBSET Entries
  BY <1>0, <1>5 DEF ld2
<1>10. \A n \in Nodes : HeadOf(n) \notin HS => g[n] = f[n]
  <2> SUFFICES ASSUME NEW n \in Nodes, HeadOf(n) \notin HS PROVE g[n] = f[n]
    OBVIOUS
  <2>1. n \notin HS /\ n \notin FirstModules(p)
    BY <1>4, <1>6, HeadOfFacts
  <2> QED BY <1>1, <2>1
<1>11. GuestTypes(g, st2, ld2)
  <2>1. g[PsHead] = f[PsHead]
    BY <1>4, <1>10, HeadOfFacts
  <2> QED BY <1>0, <1>1, <1>3, <1>9, <2>1 DEF GuestTypes
<1>12. DeadSpaces(g, st2, ld2)
  <2>1. ASSUME NEW e \in ld2 PROVE Live(st2, Module[e].list)
    <3>1. e \in Entries /\ HeadOf(e) = Module[e].list /\ HeadOf(e) \in Heads
      BY <1>9, HeadOfFacts
    <3>2. CASE HeadOf(e) \in HS
      BY <1>4, <3>1, <3>2
    <3>3. CASE HeadOf(e) \notin HS
      <4>1. e \in ld
        BY <1>6, <3>3 DEF ld2
      <4> QED BY <1>4, <3>1, <3>3, <4>1 DEF Good, DeadSpaces
    <3> QED BY <3>2, <3>3
  <2>2. ASSUME NEW h \in ModHeads, ~Live(st2, h)
        PROVE  g[h] = h \/ (g[h] \in Entries /\ Module[g[h]].list = h)
    <3>1. h \notin HS /\ ~Live(st, h)
      BY <1>4, <2>2, HeadOfFacts
    <3>2. g[h] = f[h]
      BY <1>10, <3>1, HeadOfFacts
    <3> QED BY <3>1, <3>2 DEF Good, DeadSpaces
  <2> QED BY <2>1, <2>2 DEF DeadSpaces
<1>13. LiveLists(g, st2, ld2, r2)
  <2> SUFFICES ASSUME NEW h \in Heads, Live(st2, h) PROVE Circular(g, h, Members(st2, ld2, h), r2)
    BY DEF LiveLists
  <2>1. CASE h \in HS
    <3>1. \A i, j \in DOMAIN Loads[h] : i < j => r2[Loads[h][i]] < r2[Loads[h][j]]
      BY <1>2, <2>1
    <3>2. /\ Loads[h] \in Seq(Items) /\ IsInjective(Loads[h])
          /\ g[h] = IF Loads[h] = <<>> THEN h ELSE Loads[h][1]
          /\ \A i \in DOMAIN Loads[h] :
                g[Loads[h][i]] = IF i = Len(Loads[h]) THEN h ELSE Loads[h][i + 1]
      BY <1>1, <2>1
    <3>3. Circular(g, h, ToSet(Loads[h]), r2)
      BY <1>2, <3>1, <3>2, ChainMakes
    <3> QED BY <1>8, <2>1, <3>3
  <2>2. CASE h \notin HS
    <3>1. Circular(f, h, Members(st, ld, h), r)
      BY <1>4, <2>2 DEF Good, LiveLists
    <3>2. Members(st, ld, h) \in SUBSET Items
      BY <1>0, MembersFacts
    <3>3. \A x \in Members(st, ld, h) \cup {h} : x \in Nodes /\ HeadOf(x) = h
      BY <1>0, MembersFacts, HeadOfFacts
    <3>4. \A x \in Members(st, ld, h) \cup {h} : g[x] = f[x]
      BY <1>10, <2>2, <3>3
    <3>5. \A x \in Members(st, ld, h) : r2[x] = r[x]
      BY <1>2, <1>6, <2>2, <3>2, <3>3
    <3>6. Circular(g, h, Members(st, ld, h), r2)
      BY <1>2, <3>1, <3>2, <3>4, <3>5, SameCircular
    <3> QED BY <1>8, <2>2, <3>6
  <2> QED BY <2>1, <2>2
<1>14. Links(g, st2)
  <2>1. ASSUME NEW h \in ModHeads, Live(st2, h), Loads[h] # <<>> PROVE g[h] = Loads[h][1]
    <3>1. CASE h \in HS
      BY <1>1, <2>1, <3>1
    <3>2. CASE h \notin HS
      <4>1. g[h] = f[h] /\ Live(st, h)
        BY <1>4, <1>10, <2>1, <3>2, HeadOfFacts
      <4> QED BY <2>1, <4>1 DEF Good, Links
    <3> QED BY <3>1, <3>2
  <2>2. ASSUME NEW e \in Entries, g[e] \in Nodes PROVE HeadOf(g[e]) = HeadOf(e)
    <3>1. CASE e \in FirstModules(p)
      <4> DEFINE h == HeadOf(e)
      <4>1. h \in HS /\ h \in Heads /\ e \in ToSet(Loads[h])
        BY <1>4, <1>6, <3>1
      <4>2. PICK i \in DOMAIN Loads[h] : e = Loads[h][i]
        BY <4>1 DEF ToSet
      <4>3. g[e] = IF i = Len(Loads[h]) THEN h ELSE Loads[h][i + 1]
        BY <1>1, <4>1, <4>2
      <4>4. CASE i = Len(Loads[h])
        BY <4>1, <4>3, <4>4, HeadOfFacts
      <4>5. CASE i # Len(Loads[h])
        <5>1. i + 1 \in DOMAIN Loads[h]
          BY <1>1, <4>1, <4>5
        <5>2. Loads[h][i + 1] \in ToSet(Loads[h])
          BY <5>1 DEF ToSet
        <5> QED BY <1>1, <4>1, <4>3, <4>5, <5>2
      <4> QED BY <4>4, <4>5
    <3>2. CASE e \notin FirstModules(p)
      <4>1. e \notin HS /\ e \in Nodes
        BY <1>4, HeadOfFacts
      <4> QED BY <1>1, <2>2, <3>2, <4>1 DEF Good, Links
    <3> QED BY <3>1, <3>2
  <2> QED BY <2>1, <2>2 DEF Links
<1>15. Good(g, st2, ld2, r2)
  BY <1>11, <1>12, <1>13, <1>14 DEF Good
<1> QED BY <1>15 DEF g, st2, ld2, r2

(* None of the elements belongs to p. *)
NewOwner(E, p) == \A x \in E \cap Entries : HeadOf(x)[1] # p

LEMMA ReviveKept ==
    ASSUME NEW r \in Ranks, NEW b \in Nat, Above(r, b), NEW f, NEW st, NEW ld, Good(f, st, ld, r),
           NEW p \in Procs, st[p] = "zombie", NEW S, NEW E, Kept(f, st, ld, S, E, r), p \in E,
           NewOwner(E, p)
    PROVE  LET r2 == FirstRanks(r, p) IN
           /\ Kept(NewSpace(f, p), [st EXCEPT ![p] = "alive"], ld \cup FirstModules(p),
                   S, E \cup FirstModules(p), r2)
           /\ \A x \in E : r2[x] = r[x]
<1> DEFINE g   == NewSpace(f, p)
           st2 == [st EXCEPT ![p] = "alive"]
           ld2 == ld \cup FirstModules(p)
           r2  == FirstRanks(r, p)
           E2  == E \cup FirstModules(p)
           N == FirstModules(p)
<1>1. Good(g, st2, ld2, r2)
  BY ReviveGood
<1>2. LET E0 == Members(st2, ld2, PsHead) \cup ld2 IN Kept(g, st2, ld2, E0, E0, r2)
  <2>1. r2 \in Ranks
    BY FirstRanksIs
  <2> QED BY <1>1, <2>1, KeptAtFirst
<1>3. /\ st \in [Procs -> States] /\ ld \in SUBSET Entries
      /\ f \in [Nodes -> Nodes \cup {Null, Junk, Odd}]
      /\ E \in SUBSET Items /\ S \in SUBSET E
  BY DEF Good, GuestTypes, Kept, Owned
<1>4. /\ \A h \in {Natives(p), Wow64s(p)} :
             h \in ModHeads /\ h[1] = p /\ \A x \in ToSet(Loads[h]) : x \in Entries /\ HeadOf(x) = h
      /\ \A n \in Nodes : n \notin {Natives(p), Wow64s(p)} /\ n \notin N => g[n] = f[n]
      /\ \A x \in Items : x \notin N => r2[x] = r[x]
      /\ r2 \in Ranks
  <2>1. \A h \in {Natives(p), Wow64s(p)} :
           h \in ModHeads /\ \A x \in ToSet(Loads[h]) : x \in Entries /\ HeadOf(x) = h
    BY <1>3, NewSpaceLinks
  <2>2. Natives(p)[1] = p /\ Wow64s(p)[1] = p
    BY DEF Natives, Wow64s
  <2>3. \A n \in Nodes : n \notin {Natives(p), Wow64s(p)} /\ n \notin N => g[n] = f[n]
    BY <1>3, NewSpaceLinks
  <2>4. (\A x \in Items : x \notin N => r2[x] = r[x]) /\ r2 \in Ranks
    BY FirstRanksIs
  <2> QED BY <2>1, <2>2, <2>3, <2>4
<1>16. \A x \in E \cap Entries : HeadOf(x)[1] # p
  BY DEF NewOwner
<1>5. \A x \in N : x \in Entries /\ HeadOf(x)[1] = p /\ x \notin E /\ HeadOf(x) # PsHead
  <2>1. \A x \in N : x \in Entries /\ HeadOf(x) \in {Natives(p), Wow64s(p)}
    BY <1>4 DEF FirstModules
  <2> SUFFICES ASSUME NEW x \in N
               PROVE  x \in Entries /\ HeadOf(x)[1] = p /\ x \notin E /\ HeadOf(x) # PsHead
    OBVIOUS
  <2>2. x \in Entries /\ HeadOf(x)[1] = p
    BY <1>4, <2>1
  <2> QED BY <1>16, <2>2, HeadOfFacts
<1>6. \A x \in E : r2[x] = r[x] /\ x \in Items /\ x \notin N /\ g[x] = f[x]
  BY <1>3, <1>4, <1>5, HeadOfFacts
<1>7. \A x \in E : Live(st2, HeadOf(x)) => (HeadOf(x) = PsHead \/ (Live(st, HeadOf(x)) /\ HeadOf(x)[1] # p))
  <2> SUFFICES ASSUME NEW x \in E, HeadOf(x) # PsHead, Live(st2, HeadOf(x))
               PROVE  Live(st, HeadOf(x)) /\ HeadOf(x)[1] # p
    OBVIOUS
  <2>1. x \in Entries /\ HeadOf(x) \in ModHeads
    BY <1>6, HeadOfFacts
  <2>2. HeadOf(x)[1] # p /\ HeadOf(x)[1] \in Procs \cup {Kernel}
    BY <1>3, <1>16, <2>1, LiveFacts
  <2> QED BY <1>3, <2>2 DEF Live
<1>8. Live(st, PsHead)
  BY DEF Live
<1>9. Owned(st2, ld2, S, E2)
  <2>1. ASSUME NEW x \in S PROVE x \in Members(st2, ld2, HeadOf(x))
    <3>1. x \in Members(st, ld, HeadOf(x))
      BY DEF Kept, Owned
    <3>2. st2 \in [Procs -> States] /\ \A q \in Procs : st[q] \in {"alive", "zombie"} => st2[q] \in {"alive", "zombie"}
      BY <1>3 DEF States
    <3> QED BY <3>1, <3>2 DEF Members
  <2>2. ASSUME NEW h \in Heads, Live(st2, h) PROVE Members(st2, ld2, h) \subseteq E2
    <3>1. Members(st, ld, PsHead) \subseteq E /\ ld \subseteq E
      <4>1. \A h2 \in Heads : Live(st, h2) => Members(st, ld, h2) \subseteq E
        BY DEF Kept, Owned
      <4>2. ASSUME NEW e \in ld PROVE e \in E
        <5>1. Live(st, HeadOf(e)) /\ HeadOf(e) \in Heads /\ e \in Members(st, ld, HeadOf(e))
          BY <1>3, OwnList, HeadOfFacts
        <5> QED BY <4>1, <5>1
      <4> QED BY <1>8, <4>1, <4>2, HeadOfFacts
    <3>2. Members(st2, ld2, PsHead) \subseteq Members(st, ld, PsHead) \cup {p}
      BY <1>3 DEF Members
    <3>3. h # PsHead => Members(st2, ld2, h) \subseteq ld2
      BY DEF Members
    <3>4. CASE h = PsHead
      BY <3>1, <3>2, <3>4
    <3>5. CASE h # PsHead
      BY <3>1, <3>3, <3>5
    <3> QED BY <3>4, <3>5
  <2>3. ASSUME NEW x \in E2 \cap Procs PROVE st2[x] # "free"
    <3>1. x \in E
      BY <1>5, <2>3, HeadOfFacts
    <3>2. st[x] # "free"
      BY <2>3, <3>1 DEF Kept, Owned
    <3> QED BY <1>3, <2>3, <3>2
  <2>4. ASSUME NEW x \in E2 \cap Entries PROVE HeadOf(x)[1] \in E2 \cup {Kernel}
    BY <1>5, <2>4 DEF Kept, Owned
  <2>5. E2 \in SUBSET Items
    BY <1>3, <1>5, HeadOfFacts
  <2> QED BY <1>3, <2>1, <2>2, <2>3, <2>4, <2>5 DEF Owned
<1>10. N \subseteq ld2
  OBVIOUS
<1> HIDE DEF g, st2, ld2, r2, N
<1>11. ASSUME NEW x \in E, NEW y \in N PROVE HeadOf(x) # HeadOf(y)
  <2>1. CASE x \in Procs
    BY <1>5, <2>1, HeadOfFacts
  <2>2. CASE x \in Entries
    BY <1>5, <1>16, <2>2
  <2> QED BY <1>6, <2>1, <2>2, HeadOfFacts
<1>12. InOrder(st2, E2, r2)
  <2>1. ASSUME NEW x \in E2, NEW y \in E2, HeadOf(x) = HeadOf(y), r2[x] = r2[y] PROVE x = y
    <3>1. CASE x \in E /\ y \in E
      BY <1>6, <2>1, <3>1 DEF Kept, InOrder
    <3>2. CASE x \in N /\ y \in N
      BY <1>2, <1>10, <2>1, <3>2 DEF Kept, InOrder
    <3> QED BY <1>11, <2>1, <3>1, <3>2 DEF N
  <2>2. ASSUME NEW x \in E2, Live(st2, HeadOf(x)), HasFirst(HeadOf(x))
        PROVE  x = FirstOf(HeadOf(x)) \/ Lt(r2, FirstOf(HeadOf(x)), x)
    <3>1. CASE x \in E
      <4> DEFINE h == HeadOf(x)
      <4>1. Live(st, h) /\ h \in Heads
        BY <1>6, <1>7, <1>8, <2>2, <3>1, HeadOfFacts
      <4>2. FirstOf(h) \in Members(st, ld, h)
        BY <2>2, <4>1, FirstIsFirst
      <4>3. FirstOf(h) \in E
        BY <4>1, <4>2 DEF Kept, Owned
      <4>4. x = FirstOf(h) \/ Lt(r, FirstOf(h), x)
        BY <2>2, <3>1, <4>1 DEF Kept, InOrder
      <4> HIDE DEF h
      <4>5. x = FirstOf(h) \/ Lt(r2, FirstOf(h), x)
        BY <1>6, <3>1, <4>3, <4>4 DEF Lt
      <4> QED BY <4>5 DEF h
    <3>2. CASE x \in N
      BY <1>2, <1>10, <2>2, <3>2 DEF Kept, InOrder
    <3> QED BY <3>1, <3>2 DEF N
  <2> QED BY <2>1, <2>2 DEF InOrder
<1>13. Linkage(g, st2, S, E2, r2)
  <2> SUFFICES ASSUME NEW x \in E2, Live(st2, HeadOf(x)) PROVE Follows(S, E2, r2, x, g[x])
    BY DEF Linkage
  <2>1. CASE x \in E
    <3>1. Live(st, HeadOf(x)) /\ HeadOf(x) \in Heads
      BY <1>6, <1>7, <1>8, <2>1, HeadOfFacts
    <3>2. Follows(S, E, r, x, f[x])
      BY <2>1, <3>1 DEF Kept, Linkage
    <3>3. \A y, z \in E \cup Heads : Lt(r2, y, z) <=> Lt(r, y, z)
      BY <1>6, ItemsAreNotHeads DEF Lt
    <3>4. f[x] \in E \cup Heads /\ g[x] = f[x]
      BY <1>6, <2>1, <3>1, <3>2 DEF Follows
    <3>5. \A s \in S : HeadOf(s) = HeadOf(x) => ~(Lt(r2, x, s) /\ Lt(r2, s, f[x]))
      BY <1>3, <2>1, <3>2, <3>3, <3>4 DEF Follows
    <3>6. Lt(r2, x, f[x])
      BY <2>1, <3>2, <3>3, <3>4 DEF Follows
    <3> QED BY <3>2, <3>4, <3>5, <3>6 DEF Follows
  <2>2. CASE x \in N
    <3> DEFINE E0 == Members(st2, ld2, PsHead) \cup ld2
    <3>1. x \in E0 /\ Kept(g, st2, ld2, E0, E0, r2)
      BY <1>2, <1>10, <2>2
    <3>2. Follows(E0, E0, r2, x, g[x])
      BY <3>1 DEF Kept, Linkage
    <3>3. g[x] \in E0 \cup {HeadOf(x)} /\ HeadOf(g[x]) = HeadOf(x) /\ Lt(r2, x, g[x])
      BY <3>2 DEF Follows
    <3>4. \A s \in S : HeadOf(s) # HeadOf(x)
      BY <1>3, <1>11, <2>2
    <3>5. g[x] \in E2 \cup {HeadOf(x)}
      <4>1. Members(st2, ld2, PsHead) \subseteq E2 /\ HeadOf(x) \in Heads
        BY <1>5, <1>9, <2>2, HeadOfFacts DEF Owned, Live
      <4>2. g[x] \in ld2 => g[x] \in E2
        <5> SUFFICES ASSUME g[x] \in ld2 PROVE g[x] \in E2
          OBVIOUS
        <5>1. g[x] \in Items /\ HeadOf(g[x]) \in Heads /\ Live(st2, HeadOf(g[x]))
              /\ g[x] \in Members(st2, ld2, HeadOf(g[x]))
          <6>1. ld2 \in SUBSET Entries
            BY <1>1 DEF Good, GuestTypes
          <6> QED BY <1>1, <6>1, OwnList, HeadOfFacts
        <5> QED BY <1>9, <5>1 DEF Owned
      <4> QED BY <3>3, <4>1, <4>2
    <3> QED BY <3>3, <3>4, <3>5 DEF Follows
  <2> QED BY <2>1, <2>2 DEF N
<1>14. Kept(g, st2, ld2, S, E2, r2)
  BY <1>9, <1>12, <1>13 DEF Kept
<1> QED BY <1>6, <1>14 DEF g, st2, ld2, r2

----------------------------------------------------------------------------
(* The steps of the guest *)

(* A step of the guest keeps its lists, and what a call relies on unless   *)
(* memory was reused: ranks of what was in a list do not change.           *)
Goes(r, r2) ==
    /\ r2 \in Ranks /\ (\E b \in Nat : Above(r2, b)) /\ Good(flink', state', loaded', r2)
    /\ (Kept(flink, state, loaded, steady, ever, r) /\ ~broken' =>
           /\ Kept(flink', state', loaded', steady', ever', r2)
           /\ steady' \subseteq steady /\ ever \subseteq ever' /\ \A x \in ever : r2[x] = r[x])

LEMMA SpawnGoes ==
    ASSUME NEW r \in Ranks, NEW b \in Nat, Above(r, b), Good(flink, state, loaded, r),
           NEW p \in Procs, Spawn(p)
    PROVE  \E r2 : Goes(r, r2)
<1> DEFINE f1  == InsertTail(flink, PsHead, p)
           st1 == [state EXCEPT ![p] = "zombie"]
           r1  == [r EXCEPT ![p] = b + 1]
           r2  == FirstRanks(r1, p)
           M   == Members(state, loaded, PsHead)
<1>1. /\ state \in [Procs -> States] /\ loaded \in SUBSET Entries /\ state[System] = "alive"
      /\ flink \in [Nodes -> Nodes \cup {Null, Junk, Odd}] /\ flink[PsHead] = System
      /\ state[p] = "free" /\ p # System
  BY DEF Good, GuestTypes, Spawn
<1>2. /\ PsHead \in Heads /\ Live(state, PsHead) /\ p \in Items /\ HeadOf(p) = PsHead /\ p \notin M
      /\ p # Kernel
  BY <1>1, HeadOfFacts, LiveFacts, NodesAssumption DEF Members
<1>3. PICK m : Inserted(flink, f1, M, PsHead, p, m)
  BY <1>2, InsertTailIs
<1>4. /\ st1 \in [Procs -> States] /\ st1[System] = "alive" /\ st1[p] = "zombie"
      /\ \A q \in Procs : q # p => st1[q] = state[q]
  BY <1>1 DEF States
<1>5. GuestTypes(flink, st1, loaded)
  BY <1>1, <1>4 DEF GuestTypes
<1>6. SameMembers(PsHead, state, loaded, st1, loaded)
  <2>1. \A x \in Heads : Live(st1, x) <=> Live(state, x)
    <3> SUFFICES ASSUME NEW x \in ModHeads PROVE Live(st1, x) <=> Live(state, x)
      BY DEF Heads, Live
    <3>1. /\ x[1] \in Procs \cup {Kernel}
          /\ Live(st1, x) <=> (x[1] = Kernel \/ st1[x[1]] = "alive")
          /\ Live(state, x) <=> (x[1] = Kernel \/ state[x[1]] = "alive")
      BY <1>1, <1>4, LiveFacts
    <3>2. CASE x[1] = p
      BY <1>1, <1>4, <3>1, <3>2
    <3>3. CASE x[1] # p
      BY <1>4, <3>1, <3>3
    <3> QED BY <3>2, <3>3
  <2>2. \A x \in Heads \ {PsHead} : Members(st1, loaded, x) = Members(state, loaded, x)
    BY DEF Members
  <2> QED BY <2>1, <2>2 DEF SameMembers
<1>7. Members(st1, loaded, PsHead) = M \cup {p}
  BY <1>4 DEF Members
<1> HIDE DEF f1, st1, M
<1>8. r1 \in Ranks /\ Above(r1, b + 1) /\ Good(f1, st1, loaded, r1)
  BY <1>2, <1>3, <1>5, <1>6, <1>7, InsertGood DEF M
<1>9. \A x \in Items : x # p => r1[x] = r[x]
  BY DEF Ranks
<1>10. b + 1 \in Nat
  OBVIOUS
<1> HIDE DEF r1
<1>11. /\ r2 \in Ranks /\ \E c \in Nat : Above(r2, c)
       /\ Good(NewSpace(f1, p), [st1 EXCEPT ![p] = "alive"], loaded \cup FirstModules(p), r2)
  BY <1>4, <1>8, <1>10, FirstRanksIs, ReviveGood
<1>12. /\ flink' = NewSpace(f1, p) /\ state' = [st1 EXCEPT ![p] = "alive"]
       /\ loaded' = loaded \cup FirstModules(p)
       /\ ever' = ever \cup {p} \cup FirstModules(p) /\ steady' = steady
  <2>1. state' = [state EXCEPT ![p] = "alive"]
    BY DEF Spawn
  <2>2. [st1 EXCEPT ![p] = "alive"] = [state EXCEPT ![p] = "alive"]
    BY <1>1 DEF st1
  <2> QED BY <2>1, <2>2 DEF Spawn, f1
<1>13. ASSUME Kept(flink, state, loaded, steady, ever, r)
       PROVE  /\ Kept(NewSpace(f1, p), [st1 EXCEPT ![p] = "alive"], loaded \cup FirstModules(p),
                      steady, (ever \cup {p}) \cup FirstModules(p), r2)
              /\ \A x \in ever : r2[x] = r[x]
  <2>1. /\ ever \in SUBSET Items /\ \A x \in ever \cap Procs : state[x] # "free"
        /\ \A x \in ever \cap Entries : HeadOf(x)[1] \in ever \cup {Kernel}
    BY <1>13 DEF Kept, Owned
  <2>2. p \notin ever /\ \A x \in ever \cap Procs : st1[x] = state[x]
    BY <1>1, <1>4, <2>1
  <2>3. Kept(f1, st1, loaded, steady, ever \cup {p}, r1)
    BY <1>2, <1>3, <1>5, <1>6, <1>7, <1>13, <2>2, InsertKept DEF r1, M
  <2>4. ASSUME NEW x \in (ever \cup {p}) \cap Entries PROVE HeadOf(x)[1] # p
    <3>1. x \in ever \cap Entries
      BY <2>4, NodesAssumption
    <3>2. HeadOf(x)[1] \in ever \cup {Kernel}
      BY <2>1, <3>1
    <3> QED BY <1>2, <2>2, <3>2
  <2> DEFINE E1 == ever \cup {p}
  <2>5. p \in E1
    OBVIOUS
  <2> HIDE DEF E1
  <2>6. Kept(f1, st1, loaded, steady, E1, r1) /\ NewOwner(E1, p)
    BY <2>3, <2>4 DEF E1, NewOwner
  <2> DEFINE c == b + 1
  <2>9. c \in Nat /\ Above(r1, c) /\ r1 \in Ranks /\ Good(f1, st1, loaded, r1) /\ st1[p] = "zombie"
    BY <1>4, <1>8, <1>10
  <2> HIDE DEF c
  <2>7. /\ Kept(NewSpace(f1, p), [st1 EXCEPT ![p] = "alive"], loaded \cup FirstModules(p),
                steady, E1 \cup FirstModules(p), r2)
        /\ \A x \in E1 : r2[x] = r1[x]
    BY <2>5, <2>6, <2>9, ReviveKept
  <2>8. \A x \in ever : r2[x] = r[x]
    BY <1>9, <2>1, <2>2, <2>7 DEF E1
  <2> QED BY <2>7, <2>8 DEF E1
<1> HIDE DEF r2
<1>14. Goes(r, r2)
  BY <1>11, <1>12, <1>13 DEF Goes
<1> QED BY <1>14

LEMMA ExitGoes ==
    ASSUME NEW r \in Ranks, NEW b \in Nat, Above(r, b), Good(flink, state, loaded, r),
           NEW p \in Procs, Exit(p)
    PROVE  \E r2 : Goes(r, r2)
<1>1. /\ state \in [Procs -> States] /\ loaded \in SUBSET Entries /\ state[System] = "alive"
      /\ flink \in [Nodes -> Nodes \cup {Null, Junk, Odd}] /\ flink[PsHead] = System
      /\ state[p] = "alive" /\ p # System /\ p # Kernel
      /\ state' = [state EXCEPT ![p] = "zombie"]
      /\ loaded' = {e \in loaded : Module[e].list[1] # p} /\ flink' = flink /\ ever' = ever
      /\ steady' = {e \in steady : e \in Procs \/ e \in loaded'}
  BY SystemAssumption, NodesAssumption DEF Good, GuestTypes, Exit
<1>2. /\ state' \in [Procs -> States] /\ state'[System] = "alive" /\ state'[p] = "zombie"
      /\ \A q \in Procs : q # p => state'[q] = state[q]
  BY <1>1 DEF States
<1>3. loaded' \in SUBSET Entries /\ GuestTypes(flink', state', loaded')
  BY <1>1, <1>2 DEF GuestTypes
<1>4. \A h \in ModHeads : Live(state', h) <=> (Live(state, h) /\ h[1] # p)
  <2> SUFFICES ASSUME NEW h \in ModHeads PROVE Live(state', h) <=> (Live(state, h) /\ h[1] # p)
    OBVIOUS
  <2>1. /\ h[1] \in Procs \cup {Kernel}
        /\ Live(state', h) <=> (h[1] = Kernel \/ state'[h[1]] = "alive")
        /\ Live(state, h) <=> (h[1] = Kernel \/ state[h[1]] = "alive")
    BY <1>1, <1>2, LiveFacts
  <2>2. CASE h[1] = p
    BY <1>1, <1>2, <2>1, <2>2
  <2>3. CASE h[1] # p
    BY <1>2, <2>1, <2>3
  <2> QED BY <2>2, <2>3
<1>5. \A h \in Heads : Live(state', h) =>
          Live(state, h) /\ Members(state', loaded', h) = Members(state, loaded, h)
  <2>1. Members(state', loaded', PsHead) = Members(state, loaded, PsHead)
    BY <1>1, <1>2 DEF Members
  <2>2. ASSUME NEW h \in ModHeads, Live(state', h)
        PROVE  Live(state, h) /\ Members(state', loaded', h) = Members(state, loaded, h)
    <3>1. Live(state, h) /\ h[1] # p /\ h # PsHead
      BY <1>4, <2>2, HeadOfFacts
    <3> QED BY <1>1, <3>1 DEF Members
  <2> QED BY <1>1, <2>1, <2>2, LiveFacts DEF Heads
<1>6. LiveLists(flink', state', loaded', r)
  BY <1>1, <1>5 DEF Good, LiveLists
<1>7. DeadSpaces(flink', state', loaded')
  <2>1. ASSUME NEW e \in loaded' PROVE Live(state', Module[e].list)
    <3>1. Module[e].list \in ModHeads /\ Module[e].list[1] # p /\ e \in loaded
      BY <1>1, <2>1, HeadOfFacts
    <3>2. Live(state, Module[e].list)
      BY <3>1 DEF Good, DeadSpaces
    <3> QED BY <1>4, <3>1, <3>2
  <2>2. ASSUME NEW h \in ModHeads, ~Live(state', h)
        PROVE  flink[h] = h \/ (flink[h] \in Entries /\ Module[flink[h]].list = h)
    <3>1. CASE ~Live(state, h)
      BY <2>2, <3>1 DEF Good, DeadSpaces
    <3>2. CASE Live(state, h)
      <4>1. h \in Heads /\ h # PsHead
        BY <2>2, HeadOfFacts
      <4>2. flink[h] \in Members(state, loaded, h) \cup {h}
        BY <3>2, <4>1 DEF Good, LiveLists, Circular
      <4> QED BY <1>1, <4>1, <4>2 DEF Members
    <3> QED BY <3>1, <3>2
  <2> QED BY <1>1, <2>1, <2>2 DEF DeadSpaces
<1>8. Links(flink', state')
  BY <1>1, <1>4 DEF Good, Links
<1>9. Good(flink', state', loaded', r)
  BY <1>3, <1>6, <1>7, <1>8 DEF Good
<1>10. ASSUME Kept(flink, state, loaded, steady, ever, r)
       PROVE  /\ Kept(flink', state', loaded', steady', ever', r)
              /\ steady' \subseteq steady /\ ever \subseteq ever'
  <2>1. /\ ever \in SUBSET Items /\ steady \in SUBSET ever /\ steady' \subseteq steady
        /\ \A x \in steady : x \in Members(state, loaded, HeadOf(x))
    BY <1>1, <1>10 DEF Kept, Owned
  <2>2. \A x \in ever : HeadOf(x) \in Heads
    BY <2>1, HeadOfFacts
  <2>3. \A x \in steady' : x \in Members(state', loaded', HeadOf(x))
    <3> SUFFICES ASSUME NEW x \in steady' PROVE x \in Members(state', loaded', HeadOf(x))
      OBVIOUS
    <3>1. CASE x \in Procs
      <4>1. HeadOf(x) = PsHead /\ Live(state', PsHead) /\ PsHead \in Heads
        BY <1>2, <3>1, HeadOfFacts, LiveFacts
      <4> QED BY <1>5, <2>1, <4>1
    <3>2. CASE x \in Entries
      <4>1. x \in loaded' /\ HeadOf(x) = Module[x].list /\ HeadOf(x) # PsHead
        BY <1>1, <3>2, HeadOfFacts
      <4> QED BY <4>1 DEF Members
    <3> QED BY <2>1, <3>1, <3>2, HeadOfFacts
  <2>4. \A h \in Heads : Live(state', h) => Members(state', loaded', h) \subseteq ever
    BY <1>5, <1>10 DEF Kept, Owned
  <2>5. \A x \in ever \cap Procs : state'[x] # "free"
    BY <1>2, <1>10 DEF Kept, Owned
  <2>6. Owned(state', loaded', steady', ever')
    BY <1>1, <1>10, <2>1, <2>3, <2>4, <2>5 DEF Kept, Owned
  <2>7. InOrder(state', ever', r)
    BY <1>1, <1>5, <1>10, <2>2 DEF Kept, InOrder
  <2>8. Linkage(flink', state', steady', ever', r)
    <3> SUFFICES ASSUME NEW x \in ever, Live(state', HeadOf(x))
                 PROVE  Follows(steady', ever, r, x, flink[x])
      BY <1>1 DEF Linkage
    <3>1. Follows(steady, ever, r, x, flink[x])
      BY <1>5, <1>10, <2>2 DEF Kept, Linkage
    <3> QED BY <2>1, <3>1 DEF Follows
  <2> QED BY <1>1, <2>1, <2>6, <2>7, <2>8 DEF Kept
<1>11. Goes(r, r)
  BY <1>9, <1>10 DEF Goes
<1> QED BY <1>11

(* A process that is not alive has no module. *)
LEMMA ElsewhereSame ==
    ASSUME NEW st \in [Procs -> States], NEW st2 \in [Procs -> States], NEW ld,
           NEW p \in Procs, st[p] # "alive", st2[p] # "alive", \A q \in Procs \ {p} : st2[q] = st[q]
    PROVE  SameMembers(PsHead, st, ld, st2, ld)
<1>1. \A x \in Heads : Live(st2, x) <=> Live(st, x)
  <2> SUFFICES ASSUME NEW x \in ModHeads PROVE Live(st2, x) <=> Live(st, x)
    BY DEF Heads, Live
  <2>1. /\ x[1] \in Procs \cup {Kernel}
        /\ Live(st2, x) <=> (x[1] = Kernel \/ st2[x[1]] = "alive")
        /\ Live(st, x) <=> (x[1] = Kernel \/ st[x[1]] = "alive")
    BY LiveFacts
  <2>2. CASE x[1] = p
    BY <2>1, <2>2
  <2>3. CASE x[1] # p
    BY <2>1, <2>3
  <2> QED BY <2>2, <2>3
<1>2. \A x \in Heads \ {PsHead} : Members(st2, ld, x) = Members(st, ld, x)
  BY DEF Members
<1> QED BY <1>1, <1>2 DEF SameMembers

LEMMA DeleteGoes ==
    ASSUME NEW r \in Ranks, NEW b \in Nat, Above(r, b), Good(flink, state, loaded, r),
           NEW p \in Procs, Delete(p)
    PROVE  \E r2 : Goes(r, r2)
<1> DEFINE M == Members(state, loaded, PsHead)
           g == Unlink(flink, p)
           st2 == [state EXCEPT ![p] = "unlinked"]
           m == Before(flink, p)
<1>1. /\ state \in [Procs -> States] /\ loaded \in SUBSET Entries /\ state[System] = "alive"
      /\ flink \in [Nodes -> Nodes \cup {Null, Junk, Odd}] /\ flink[PsHead] = System
      /\ state[p] = "zombie" /\ p # System
      /\ state' = st2 /\ loaded' = loaded /\ flink' = g /\ ever' = ever
      /\ steady' = steady \ {p}
  BY DEF Good, GuestTypes, Delete
<1>2. /\ st2 \in [Procs -> States] /\ st2[System] = "alive" /\ st2[p] = "unlinked"
      /\ \A q \in Procs : q # p => st2[q] = state[q]
  BY <1>1 DEF States
<1>3. /\ PsHead \in Heads /\ Live(state, PsHead) /\ p \in Items /\ p \in M /\ flink[PsHead] # p
  BY <1>1, HeadOfFacts, LiveFacts DEF Members
<1>4. GuestTypes(flink, st2, loaded)
  BY <1>1, <1>2 DEF GuestTypes
<1>5. SameMembers(PsHead, state, loaded, st2, loaded)
  BY <1>1, <1>2, ElsewhereSame
<1>6. Members(st2, loaded, PsHead) = M \ {p}
  BY <1>2 DEF Members
<1>7. Removed(flink, g, M, PsHead, p, m)
  BY <1>3, UnlinkIs
<1>8. g[p] = flink[p]
  <2>1. m # p /\ m \in DOMAIN flink
    BY <1>1, <1>3, <1>7, MembersFacts, HeadOfFacts DEF Removed
  <2> QED BY <1>1, <2>1, HeadOfFacts, <1>3 DEF Unlink
<1> HIDE DEF M, g, st2, m
<1>9. Good(g, st2, loaded, r)
  BY <1>3, <1>4, <1>5, <1>6, <1>7, RemoveGood DEF M
<1>10. ASSUME Kept(flink, state, loaded, steady, ever, r)
       PROVE  Kept(g, st2, loaded, steady \ {p}, ever, r)
  <2>1. \A x \in ever \cap Procs : st2[x] # "free"
    BY <1>2, <1>10 DEF Kept, Owned
  <2> QED BY <1>3, <1>4, <1>5, <1>6, <1>7, <1>8, <1>10, <2>1, RemoveKept DEF M
<1>11. Goes(r, r)
  BY <1>1, <1>9, <1>10 DEF Goes
<1> QED BY <1>11

LEMMA FreeGoes ==
    ASSUME NEW r \in Ranks, NEW b \in Nat, Above(r, b), Good(flink, state, loaded, r),
           NEW p \in Procs, Free(p)
    PROVE  \E r2 : Goes(r, r2)
<1>0. PICK x \in {Null, Junk} : flink' = [flink EXCEPT ![p] = x]
  BY DEF Free
<1>1. /\ state \in [Procs -> States] /\ loaded \in SUBSET Entries /\ state[System] = "alive"
      /\ flink \in [Nodes -> Nodes \cup {Null, Junk, Odd}] /\ flink[PsHead] = System
      /\ state[p] = "unlinked" /\ p # System
      /\ state' = [state EXCEPT ![p] = "free"] /\ loaded' = loaded /\ broken'
  BY DEF Good, GuestTypes, Free
<1>2. /\ state' \in [Procs -> States] /\ state'[System] = "alive" /\ state'[p] = "free"
      /\ \A q \in Procs : q # p => state'[q] = state[q]
  BY <1>1 DEF States
<1>3. /\ PsHead \in Heads /\ Live(state, PsHead) /\ p \in Items /\ HeadOf(p) = PsHead /\ PsHead # p
      /\ p \in Nodes /\ PsHead \notin ModHeads /\ PsHead \in Nodes
  BY <1>1, HeadOfFacts, LiveFacts
<1>4. /\ flink' \in [Nodes -> Nodes \cup {Null, Junk, Odd}]
      /\ \A n \in Nodes : n # p => flink'[n] = flink[n]
  BY <1>0, <1>1
<1>5. GuestTypes(flink', state', loaded')
  BY <1>1, <1>2, <1>3, <1>4 DEF GuestTypes
<1>6. SameMembers(PsHead, state, loaded, state', loaded')
  BY <1>1, <1>2, ElsewhereSame
<1>7. /\ Members(state', loaded', PsHead) = Members(state, loaded, PsHead)
      /\ p \notin Members(state, loaded, PsHead)
  BY <1>1, <1>2 DEF Members
<1>8. SameElsewhere(PsHead, flink, r, flink', r)
  <2>1. \A y \in Nodes : HeadOf(y) # PsHead => flink'[y] = flink[y]
    BY <1>3, <1>4
  <2>2. \A e \in Entries : HeadOf(e) # PsHead
    BY HeadOfFacts
  <2> QED BY <1>3, <2>1, <2>2 DEF SameElsewhere
<1>9. Circular(flink', PsHead, Members(state', loaded', PsHead), r)
  <2>1. Circular(flink, PsHead, Members(state, loaded, PsHead), r)
    BY <1>3 DEF Good, LiveLists
  <2>2. Members(state, loaded, PsHead) \in SUBSET Items
    BY <1>1, <1>3, MembersFacts
  <2>3. \A y \in Members(state, loaded, PsHead) \cup {PsHead} : flink'[y] = flink[y]
    BY <1>3, <1>4, <1>7, <2>2, HeadOfFacts
  <2> QED BY <1>3, <1>7, <2>1, <2>2, <2>3, SameCircular
<1>10. Good(flink', state', loaded', r)
  BY <1>3, <1>5, <1>6, <1>8, <1>9, OneList
<1>11. Goes(r, r)
  BY <1>1, <1>10 DEF Goes
<1> QED BY <1>11

LEMMA LoadGoes ==
    ASSUME NEW r \in Ranks, NEW b \in Nat, Above(r, b), Good(flink, state, loaded, r),
           NEW e \in Entries, Load(e)
    PROVE  \E r2 : Goes(r, r2)
<1> DEFINE h == Module[e].list
           M == Members(state, loaded, h)
           g == InsertTail(flink, h, e)
           ld2 == loaded \cup {e}
           r2 == [r EXCEPT ![e] = b + 1]
<1>1. /\ state \in [Procs -> States] /\ loaded \in SUBSET Entries /\ state[System] = "alive"
      /\ flink \in [Nodes -> Nodes \cup {Null, Junk, Odd}] /\ flink[PsHead] = System
      /\ state' = state /\ loaded' = ld2 /\ flink' = g /\ ever' = ever \cup {e}
      /\ steady' = steady /\ e \notin loaded /\ (~broken' => ~broken /\ e \notin ever)
      /\ Running(h[1])
  BY DEF Good, GuestTypes, Load
<1>2. h \in ModHeads /\ h \in Heads /\ h # PsHead /\ HeadOf(e) = h /\ e \in Items
  BY HeadOfFacts
<1>3. Live(state, h)
  BY <1>1, <1>2, LiveFacts DEF Running
<1>4. e \notin M /\ Members(state, ld2, h) = M \cup {e}
  BY <1>1, <1>2 DEF Members
<1>5. GuestTypes(flink, state, ld2)
  BY <1>1 DEF GuestTypes
<1>6. SameMembers(h, state, loaded, state, ld2)
  <2>1. \A x \in Heads \ {h} : Members(state, ld2, x) = Members(state, loaded, x)
    BY <1>1, <1>2 DEF Members
  <2> QED BY <2>1 DEF SameMembers
<1> HIDE DEF h, M, g, ld2
<1>7. PICK m : Inserted(flink, g, M, h, e, m)
  BY <1>2, <1>3, <1>4, InsertTailIs DEF M, g
<1>8. r2 \in Ranks /\ Above(r2, b + 1) /\ Good(g, state, ld2, r2)
  BY <1>2, <1>3, <1>4, <1>5, <1>6, <1>7, InsertGood DEF M
<1>9. ASSUME Kept(flink, state, loaded, steady, ever, r), e \notin ever
      PROVE  Kept(g, state, ld2, steady, ever \cup {e}, r2) /\ \A x \in ever : r2[x] = r[x]
  <2>1. Kept(g, state, ld2, steady, ever \cup {e}, r2)
    BY <1>2, <1>3, <1>4, <1>5, <1>6, <1>7, <1>9, InsertKept DEF M
  <2>2. \A x \in ever : x \in Items /\ x # e
    BY <1>9 DEF Kept, Owned
  <2> QED BY <2>1, <2>2 DEF Ranks
<1>10. b + 1 \in Nat
  OBVIOUS
<1> HIDE DEF r2
<1>11. Goes(r, r2)
  <2>1. \E c \in Nat : Above(r2, c)
    BY <1>8, <1>10
  <2> QED BY <1>1, <1>8, <1>9, <2>1 DEF Goes
<1> QED BY <1>11

LEMMA UnloadGoes ==
    ASSUME NEW r \in Ranks, NEW b \in Nat, Above(r, b), Good(flink, state, loaded, r),
           NEW e \in Entries, Unload(e)
    PROVE  \E r2 : Goes(r, r2)
<1> DEFINE h == Module[e].list
           M == Members(state, loaded, h)
           g == Unlink(flink, e)
           ld2 == loaded \ {e}
           m == Before(flink, e)
<1>1. /\ state \in [Procs -> States] /\ loaded \in SUBSET Entries /\ state[System] = "alive"
      /\ flink \in [Nodes -> Nodes \cup {Null, Junk, Odd}] /\ flink[PsHead] = System
      /\ state' = state /\ loaded' = ld2 /\ ever' = ever
      /\ steady' = steady \ {e} /\ e \in loaded /\ flink[h] # e
      /\ \/ flink' = g
         \/ broken' /\ \E x \in {Null, Junk, Odd} : flink' = [g EXCEPT ![e] = x]
  BY DEF Good, GuestTypes, Unload
<1>2. h \in ModHeads /\ h \in Heads /\ h # PsHead /\ HeadOf(e) = h /\ e \in Items /\ e \in Nodes
  BY HeadOfFacts
<1>3. Live(state, h)
  BY <1>1 DEF Good, DeadSpaces
<1>4. e \in M /\ Members(state, ld2, h) = M \ {e}
  BY <1>1, <1>2 DEF Members
<1>5. GuestTypes(flink, state, ld2)
  BY <1>1 DEF GuestTypes
<1>6. SameMembers(h, state, loaded, state, ld2)
  <2>1. \A x \in Heads \ {h} : Members(state, ld2, x) = Members(state, loaded, x)
    BY <1>1, <1>2 DEF Members
  <2> QED BY <2>1 DEF SameMembers
<1>7. /\ Removed(flink, g, M, h, e, m)
      /\ \A x \in {Null, Junk, Odd} : Removed(flink, [g EXCEPT ![e] = x], M, h, e, m)
  BY <1>2, <1>3, <1>4, UnlinkIs
<1>8. g[e] = flink[e]
  <2>1. m # e /\ m \in DOMAIN flink
    BY <1>1, <1>2, <1>7, MembersFacts, HeadOfFacts DEF Removed
  <2> QED BY <1>1, <1>2, <2>1 DEF Unlink
<1> HIDE DEF h, M, g, ld2, m
<1>9. Removed(flink, flink', M, h, e, m)
  BY <1>1, <1>7
<1>10. Good(flink', state, ld2, r)
  BY <1>1, <1>2, <1>3, <1>4, <1>5, <1>6, <1>9, RemoveGood DEF M
<1>11. ASSUME Kept(flink, state, loaded, steady, ever, r), ~broken'
       PROVE  Kept(flink', state, ld2, steady \ {e}, ever, r)
  <2>1. \A x \in ever \cap Procs : state[x] # "free"
    BY <1>11 DEF Kept, Owned
  <2>2. flink'[e] = flink[e]
    BY <1>1, <1>8, <1>11
  <2> QED BY <1>2, <1>3, <1>4, <1>5, <1>6, <1>9, <1>11, <2>1, <2>2, RemoveKept DEF M
<1>12. Goes(r, r)
  BY <1>1, <1>10, <1>11 DEF Goes
<1> QED BY <1>12

LEMMA GuestGoes ==
    ASSUME NEW r \in Ranks, NEW b \in Nat, Above(r, b), Good(flink, state, loaded, r), GuestNext
    PROVE  \E r2 : Goes(r, r2)
BY SpawnGoes, ExitGoes, DeleteGoes, FreeGoes, LoadGoes, UnloadGoes DEF GuestNext

----------------------------------------------------------------------------
(* The guest at first *)

(* A sequence without repetitions is not longer than its set is large.     *)
LEMMA InjectiveLength ==
    ASSUME NEW T, IsFiniteSet(T), NEW s \in Seq(T), IsInjective(s)
    PROVE  Len(s) <= Cardinality(T)
<1>1. Len(s) \in Nat /\ s \in [1..Len(s) -> T]
  OBVIOUS
<1>2. s \in Injection(1..Len(s), T)
  BY <1>1 DEF Injection
<1>3. Cardinality(1..Len(s)) = Len(s)
  <2>1. Cardinality(1..Len(s)) = IF 1 > Len(s) THEN 0 ELSE Len(s) - 1 + 1
    BY <1>1, FS_Interval
  <2> QED BY <1>1, <2>1
<1>4. Cardinality(1..Len(s)) <= Cardinality(T)
  BY <1>2, FS_Injection
<1> QED BY <1>3, <1>4

(* The lists at first: their elements, and their lengths. *)
LEMMA AtFirstIs ==
    ASSUME NEW h \in Heads
    PROVE  /\ AtFirst(h) \in Seq(Items) /\ IsInjective(AtFirst(h))
           /\ \A x \in ToSet(AtFirst(h)) : HeadOf(x) = h /\ x \in Items
           /\ Len(AtFirst(h)) <= MaxIter
<1>1. CASE h = PsHead
  <2>1. AtFirst(h) = Started
    BY <1>1 DEF AtFirst
  <2>2. Started \in Seq(Procs) /\ Started \in Seq(Items) /\ IsInjective(Started)
    BY SystemAssumption DEF Items
  <2>3. \A x \in ToSet(Started) : HeadOf(x) = h /\ x \in Items
    BY <1>1, <2>2, HeadOfFacts DEF ToSet
  <2>4. Len(Started) <= Cardinality(Procs)
    BY <2>2, IterAssumption, InjectiveLength
  <2>5. Cardinality(Procs) \in Nat
    BY IterAssumption, FS_CardinalityType
  <2>6. Len(Started) <= MaxIter
    BY <2>2, <2>4, <2>5, IterAssumption
  <2> QED BY <2>1, <2>2, <2>3, <2>6
<1>2. CASE h # PsHead
  <2>1. h \in ModHeads /\ (AtFirst(h) = Loads[h] \/ AtFirst(h) = <<>>)
    BY <1>2 DEF AtFirst, Heads
  <2>2. CASE AtFirst(h) = <<>>
    <3>1. MaxIter \in Nat
      BY IterAssumption
    <3> QED BY <2>2, <3>1 DEF ToSet, IsInjective
  <2>3. CASE AtFirst(h) = Loads[h]
    <3> DEFINE T == {e \in Entries : Module[e].list = h}
    <3>1. /\ Loads[h] \in Seq(Entries) /\ IsInjective(Loads[h])
          /\ \A i \in DOMAIN Loads[h] : Module[Loads[h][i]].list = h
      BY <2>1, LoadsAssumption
    <3>2. Loads[h] \in Seq(T)
      BY <3>1
    <3>3. IsFiniteSet(T) /\ Cardinality(T) < MaxIter
      BY <2>1, IterAssumption, FS_Subset
    <3>4. Cardinality(T) \in Nat
      BY <3>3, FS_CardinalityType
    <3>5. Len(Loads[h]) <= Cardinality(T)
      BY <3>1, <3>2, <3>3, InjectiveLength
    <3>6. Len(Loads[h]) <= MaxIter
      BY <3>1, <3>3, <3>4, <3>5, IterAssumption
    <3>7. Loads[h] \in Seq(Items)
      BY <3>1 DEF Items
    <3>8. \A x \in ToSet(Loads[h]) : HeadOf(x) = h /\ x \in Items
      BY <3>1, HeadOfFacts DEF ToSet
    <3> QED BY <2>3, <3>1, <3>6, <3>7, <3>8
  <2> QED BY <2>1, <2>2, <2>3
<1> QED BY <1>1, <1>2

Places == [x \in Items |-> IF x \in ToSet(AtFirst(HeadOf(x)))
                           THEN CHOOSE i \in DOMAIN AtFirst(HeadOf(x)) : AtFirst(HeadOf(x))[i] = x
                           ELSE 0]

LEMMA PlacesAre ==
    /\ Places \in Ranks /\ Above(Places, MaxIter)
    /\ \A h \in Heads : \A i \in DOMAIN AtFirst(h) : Places[AtFirst(h)[i]] = i
<1>1. ASSUME NEW h \in Heads, NEW i \in DOMAIN AtFirst(h)
      PROVE  Places[AtFirst(h)[i]] = i
  <2> DEFINE s == AtFirst(h)
             x == s[i]
  <2>1. s \in Seq(Items) /\ IsInjective(s) /\ \A y \in ToSet(s) : HeadOf(y) = h /\ y \in Items
    BY <1>1, AtFirstIs
  <2>2. x \in ToSet(s) /\ HeadOf(x) = h /\ x \in Items
    BY <1>1, <2>1 DEF ToSet
  <2>3. \A j \in DOMAIN s : s[j] = x => j = i
    BY <1>1, <2>1 DEF IsInjective
  <2>4. (CHOOSE j \in DOMAIN s : s[j] = x) = i
    BY <1>1, <2>3
  <2> HIDE DEF x, s
  <2>5. Places[x] = CHOOSE j \in DOMAIN s : s[j] = x
    BY <2>2 DEF Places, s
  <2> QED BY <2>4, <2>5 DEF x, s
<1>2. ASSUME NEW x \in Items PROVE Places[x] \in Nat /\ Places[x] <= MaxIter
  <2>1. HeadOf(x) \in Heads /\ MaxIter \in Nat
    BY HeadOfFacts, IterAssumption
  <2>2. CASE x \in ToSet(AtFirst(HeadOf(x)))
    <3>1. PICK i \in DOMAIN AtFirst(HeadOf(x)) : AtFirst(HeadOf(x))[i] = x
      BY <2>2 DEF ToSet
    <3>2. Places[x] = i
      BY <1>1, <2>1, <3>1
    <3>3. AtFirst(HeadOf(x)) \in Seq(Items) /\ Len(AtFirst(HeadOf(x))) <= MaxIter
      BY <2>1, AtFirstIs
    <3>4. i \in Nat /\ i <= Len(AtFirst(HeadOf(x))) /\ Len(AtFirst(HeadOf(x))) \in Nat
      BY <3>1, <3>3
    <3> QED BY <2>1, <3>2, <3>3, <3>4
  <2>3. CASE x \notin ToSet(AtFirst(HeadOf(x)))
    BY <2>1, <2>3 DEF Places
  <2> QED BY <2>2, <2>3
<1>3. Places \in Ranks
  <2>1. Places = [x \in Items |-> Places[x]]
    BY DEF Places
  <2> QED BY <1>2, <2>1 DEF Ranks
<1> QED BY <1>1, <1>2, <1>3 DEF Above

(* A guest whose lists are as at first. *)
LEMMA FirstGood ==
    ASSUME Win32Init
    PROVE  Good(flink, state, loaded, Places)
<1> DEFINE empty == [n \in Nodes |-> IF n \in Heads THEN n ELSE Null]
           c(n) == Chain(empty, HeadOf(n), AtFirst(HeadOf(n)))
<1>1. /\ flink = [n \in Nodes |-> c(n)[n]]
      /\ state = [p \in Procs |-> IF p \in ToSet(Started) THEN "alive" ELSE "free"]
      /\ loaded = UNION {FirstModules(p) : p \in ToSet(Started) \cup {Kernel}}
  BY DEF Win32Init
<1>2. ASSUME NEW h \in Heads
      PROVE  /\ flink[h] = IF AtFirst(h) = <<>> THEN h ELSE AtFirst(h)[1]
             /\ \A i \in DOMAIN AtFirst(h) :
                  flink[AtFirst(h)[i]] = IF i = Len(AtFirst(h)) THEN h ELSE AtFirst(h)[i + 1]
             /\ \A n \in Items : HeadOf(n) = h /\ n \notin ToSet(AtFirst(h)) => flink[n] = Null
  <2> DEFINE s == AtFirst(h)
             g == Chain(empty, h, s)
  <2>1. /\ s \in Seq(Items) /\ IsInjective(s) /\ \A y \in ToSet(s) : HeadOf(y) = h /\ y \in Items
        /\ h \in Nodes /\ Items \subseteq Nodes /\ h \notin Items /\ HeadOf(h) = h
    BY <1>2, AtFirstIs, HeadOfFacts, ItemsAreNotHeads
  <2>2. DOMAIN empty = Nodes /\ empty[h] = h /\ \A n \in Items : empty[n] = Null
    BY <2>1, ItemsAreNotHeads
  <2> HIDE DEF empty, s
  <2>3. s \in Seq(DOMAIN empty) /\ h \in DOMAIN empty /\ h \notin ToSet(s)
    BY <2>1, <2>2
  <2>4. /\ DOMAIN g = DOMAIN empty /\ g[h] = IF s = <<>> THEN h ELSE s[1]
        /\ \A i \in DOMAIN s : g[s[i]] = IF i = Len(s) THEN h ELSE s[i + 1]
        /\ \A n \in DOMAIN empty : n # h /\ n \notin ToSet(s) => g[n] = empty[n]
    BY <2>1, <2>3, ChainLinks
  <2>5. \A n \in Nodes : HeadOf(n) = h => flink[n] = g[n]
    BY <1>1 DEF s
  <2>6. \A i \in DOMAIN s : s[i] \in Nodes /\ HeadOf(s[i]) = h
    BY <2>1 DEF ToSet
  <2> HIDE DEF g
  <2>7. flink[h] = IF s = <<>> THEN h ELSE s[1]
    BY <2>1, <2>4, <2>5
  <2>8. \A i \in DOMAIN s : flink[s[i]] = IF i = Len(s) THEN h ELSE s[i + 1]
    BY <2>4, <2>5, <2>6
  <2>9. \A n \in Items : HeadOf(n) = h /\ n \notin ToSet(s) => flink[n] = Null
    BY <2>1, <2>2, <2>4, <2>5
  <2> QED BY <2>7, <2>8, <2>9 DEF s
<1>3. ASSUME NEW h \in Heads
      PROVE  /\ AtFirst(h) \in Seq(Items) /\ IsInjective(AtFirst(h))
             /\ \A y \in ToSet(AtFirst(h)) : HeadOf(y) = h /\ y \in Items
             /\ Circular(flink, h, ToSet(AtFirst(h)), Places)
  <2>1. /\ AtFirst(h) \in Seq(Items) /\ IsInjective(AtFirst(h))
        /\ \A y \in ToSet(AtFirst(h)) : HeadOf(y) = h /\ y \in Items
    BY <1>3, AtFirstIs
  <2> DEFINE s == AtFirst(h)
  <2>2. \A i, j \in DOMAIN s : i < j => Places[s[i]] < Places[s[j]]
    BY <1>3, PlacesAre
  <2>3. Places \in Ranks
    BY PlacesAre
  <2>4. flink[h] = IF s = <<>> THEN h ELSE s[1]
    BY <1>2, <1>3
  <2>5. \A i \in DOMAIN s : flink[s[i]] = IF i = Len(s) THEN h ELSE s[i + 1]
    BY <1>2, <1>3
  <2>6. s \in Seq(Items) /\ IsInjective(s)
    BY <2>1
  <2> HIDE DEF s
  <2>7. Circular(flink, h, ToSet(s), Places)
    BY <1>3, <2>2, <2>3, <2>4, <2>5, <2>6, ChainMakes
  <2> QED BY <2>1, <2>7 DEF s
<1>4. ASSUME NEW h \in Heads, NEW n \in {x \in Nodes : HeadOf(x) = h}
      PROVE  (flink[n] \in Nodes /\ HeadOf(flink[n]) = h) \/ flink[n] = Null
  <2>1. CASE n = h
    <3>1. flink[h] = h \/ (AtFirst(h) # <<>> /\ flink[h] = AtFirst(h)[1])
      BY <1>2, <1>4
    <3>2. AtFirst(h) # <<>> => AtFirst(h)[1] \in ToSet(AtFirst(h))
      BY <1>3, <1>4 DEF ToSet
    <3> QED BY <1>3, <1>4, <2>1, <3>1, <3>2, HeadOfFacts
  <2>2. CASE n \in ToSet(AtFirst(h))
    <3>1. flink[n] \in ToSet(AtFirst(h)) \cup {h}
      BY <1>3, <1>4, <2>2 DEF Circular
    <3> QED BY <1>3, <1>4, <3>1, HeadOfFacts
  <2>3. CASE n # h /\ n \notin ToSet(AtFirst(h))
    <3>1. n \in Items
      BY <1>4, <2>3, HeadOfFacts
    <3> QED BY <1>2, <1>4, <2>3, <3>1
  <2> QED BY <2>1, <2>2, <2>3
<1> HIDE DEF empty, c
<1>5. GuestTypes(flink, state, loaded)
  <2>1. flink \in [Nodes -> Nodes \cup {Null, Junk, Odd}]
    <3>1. \A n \in Nodes : flink[n] \in Nodes \cup {Null, Junk, Odd}
      BY <1>4, HeadOfFacts
    <3>2. flink = [n \in Nodes |-> flink[n]]
      BY <1>1
    <3> QED BY <3>1, <3>2
  <2>2. state \in [Procs -> States]
    BY <1>1 DEF States
  <2>3. loaded \in SUBSET Entries
    <3> SUFFICES ASSUME NEW p \in ToSet(Started) \cup {Kernel} PROVE FirstModules(p) \subseteq Entries
      BY <1>1
    <3>1. p \in Procs \cup {Kernel}
      BY SystemAssumption DEF ToSet
    <3>2. Natives(p) \in ModHeads /\ Wow64s(p) \in ModHeads
      BY <3>1 DEF Natives, Wow64s, ModHeads
    <3>3. Loads[Natives(p)] \in Seq(Entries) /\ Loads[Wow64s(p)] \in Seq(Entries)
      BY <3>2, LoadsAssumption
    <3> QED BY <3>3 DEF FirstModules, ToSet
  <2>4. Started \in Seq(Procs) /\ Started # <<>> /\ Started[1] = System /\ System \in Procs
    BY SystemAssumption
  <2>5. System \in ToSet(Started)
    BY <2>4 DEF ToSet
  <2>6. state[System] = "alive"
    BY <1>1, <2>4, <2>5
  <2>7. flink[PsHead] = System
    <3>1. PsHead \in Heads /\ AtFirst(PsHead) = Started
      BY HeadOfFacts DEF AtFirst
    <3> QED BY <1>2, <2>4, <3>1
  <2> QED BY <2>1, <2>2, <2>3, <2>6, <2>7 DEF GuestTypes
<1>6. \A h \in ModHeads : Live(state, h) <=> h[1] \in ToSet(Started) \cup {Kernel}
  <2>1. state \in [Procs -> States]
    BY <1>5 DEF GuestTypes
  <2>2. \A h \in ModHeads : /\ h[1] \in Procs \cup {Kernel}
                            /\ Live(state, h) <=> (h[1] = Kernel \/ state[h[1]] = "alive")
    BY <2>1, LiveFacts
  <2>3. \A p \in Procs : state[p] = "alive" <=> p \in ToSet(Started)
    BY <1>1
  <2>4. Kernel \notin Procs /\ ToSet(Started) \subseteq Procs
    BY NodesAssumption, SystemAssumption DEF ToSet
  <2> QED BY <2>2, <2>3, <2>4
<1>7. \A h \in ModHeads : AtFirst(h) = IF Live(state, h) THEN Loads[h] ELSE <<>>
  BY <1>6, HeadOfFacts DEF AtFirst
<1>8. \A e \in loaded : e \in Entries /\ Live(state, HeadOf(e)) /\ e \in ToSet(AtFirst(HeadOf(e)))
  <2> SUFFICES ASSUME NEW p \in ToSet(Started) \cup {Kernel}, NEW e \in FirstModules(p)
               PROVE  e \in Entries /\ Live(state, HeadOf(e)) /\ e \in ToSet(AtFirst(HeadOf(e)))
    BY <1>1
  <2>1. PICK h \in {Natives(p), Wow64s(p)} : e \in ToSet(Loads[h])
    BY DEF FirstModules
  <2>2. p \in Procs \cup {Kernel}
    BY SystemAssumption DEF ToSet
  <2>3. h \in ModHeads /\ h[1] = p
    BY <2>2 DEF Natives, Wow64s, ModHeads
  <2>4. e \in Entries /\ Module[e].list = h
    BY <2>1, <2>3, LoadsAssumption DEF ToSet
  <2>5. HeadOf(e) = h
    BY <2>4, HeadOfFacts
  <2> QED BY <1>6, <1>7, <2>1, <2>3, <2>4, <2>5
<1>9. \A h \in ModHeads : Live(state, h) => ToSet(Loads[h]) \subseteq loaded
  <2> SUFFICES ASSUME NEW h \in ModHeads, Live(state, h) PROVE ToSet(Loads[h]) \subseteq loaded
    OBVIOUS
  <2>1. h[1] \in ToSet(Started) \cup {Kernel}
    BY <1>6
  <2>2. h = Natives(h[1]) \/ h = Wow64s(h[1])
    BY DEF ModHeads, Natives, Wow64s
  <2>3. ToSet(Loads[h]) \subseteq FirstModules(h[1])
    BY <2>2 DEF FirstModules
  <2> QED BY <1>1, <2>1, <2>3
<1>10. ASSUME NEW h \in Heads, Live(state, h) PROVE Members(state, loaded, h) = ToSet(AtFirst(h))
  <2>1. CASE h = PsHead
    <3>1. AtFirst(h) = Started /\ ToSet(Started) \subseteq Procs
      BY <2>1, SystemAssumption DEF AtFirst, ToSet
    <3> QED BY <1>1, <2>1, <3>1 DEF Members
  <2>2. CASE h # PsHead
    <3>1. h \in ModHeads /\ AtFirst(h) = Loads[h]
      BY <1>7, <1>10, <2>2 DEF Heads
    <3>2. Members(state, loaded, h) = {e \in loaded : Module[e].list = h}
      BY <2>2 DEF Members
    <3>3. \A e \in loaded : HeadOf(e) = Module[e].list
      BY <1>8, HeadOfFacts
    <3>4. \A e \in ToSet(Loads[h]) : HeadOf(e) = h
      BY <1>3, <1>10, <3>1
    <3> QED BY <1>8, <1>9, <1>10, <3>1, <3>2, <3>3, <3>4
  <2> QED BY <2>1, <2>2
<1>11. DeadSpaces(flink, state, loaded)
  <2>1. \A e \in loaded : Live(state, Module[e].list)
    BY <1>8, HeadOfFacts
  <2>2. \A h \in ModHeads : ~Live(state, h) => flink[h] = h
    BY <1>2, <1>7, HeadOfFacts
  <2> QED BY <2>1, <2>2 DEF DeadSpaces
<1>12. LiveLists(flink, state, loaded, Places)
  BY <1>3, <1>10 DEF LiveLists
<1>13. Links(flink, state)
  <2>1. \A h \in ModHeads : Live(state, h) /\ Loads[h] # <<>> => flink[h] = Loads[h][1]
    BY <1>2, <1>7, HeadOfFacts
  <2>2. \A e \in Entries : flink[e] \in Nodes => HeadOf(flink[e]) = HeadOf(e)
    BY <1>4, HeadOfFacts, NodesAssumption
  <2> QED BY <2>1, <2>2 DEF Links
<1> QED BY <1>5, <1>11, <1>12, <1>13 DEF Good

----------------------------------------------------------------------------
(* Walks of a list *)

Rising(r, seq) == \A i, j \in DOMAIN seq : i < j => r[seq[i]] < r[seq[j]]

(* Those of the list of a head. *)
Of(E, h) == {x \in E : HeadOf(x) = h}

(* What was found of a list before x, and that nothing steady was missed.  *)
Sought(S, E, r, h, seq, x) ==
    /\ seq \in Seq(Of(E, h)) /\ Rising(r, seq)
    /\ x \in Of(E, h) \cup {h} /\ \A i \in DOMAIN seq : Lt(r, seq[i], x)
    /\ \A s \in Of(S, h) : s \in ToSet(seq) \/ s = x \/ Lt(r, x, s)
Found(S, E, r, h, seq) ==
    /\ seq \in Seq(Of(E, h)) /\ Rising(r, seq)
    /\ \A s \in Of(S, h) : s \in ToSet(seq)

LEMMA RisingIsInjective ==
    ASSUME NEW r \in Ranks, NEW seq \in Seq(Items), Rising(r, seq)
    PROVE  IsInjective(seq)
<1> SUFFICES ASSUME NEW i \in DOMAIN seq, NEW j \in DOMAIN seq, seq[i] = seq[j], i # j
             PROVE  FALSE
  BY DEF IsInjective
<1>1. i \in Nat /\ j \in Nat /\ r[seq[i]] \in Nat
  BY DEF Ranks
<1>2. i < j \/ j < i
  BY <1>1
<1> QED BY <1>1, <1>2 DEF Rising

(* A sequence without repetition is no longer than what it is taken from,  *)
(* and has all of it when it is as long.                                   *)
LEMMA InjectiveInto ==
    ASSUME NEW T, IsFiniteSet(T), NEW seq \in Seq(T), IsInjective(seq)
    PROVE  /\ Len(seq) <= Cardinality(T)
           /\ Len(seq) = Cardinality(T) => ToSet(seq) = T
<1>1. seq \in Injection(1..Len(seq), T) /\ Len(seq) \in Nat
  BY DEF Injection
<1>2. Cardinality(1..Len(seq)) = Len(seq)
  <2>1. Cardinality(1..Len(seq)) = IF 1 > Len(seq) THEN 0 ELSE Len(seq) - 1 + 1
    BY <1>1, FS_Interval
  <2> QED BY <1>1, <2>1
<1>3. Cardinality(1..Len(seq)) <= Cardinality(T)
  BY <1>1, FS_Injection
<1>4. ASSUME Len(seq) = Cardinality(T) PROVE ToSet(seq) = T
  <2>1. seq \in Surjection(1..Len(seq), T)
    BY <1>1, <1>2, <1>4, FS_Injection
  <2>2. \A p \in T : \E i \in 1..Len(seq) : seq[i] = p
    BY <2>1 DEF Surjection
  <2> QED BY <2>2 DEF ToSet
<1> QED BY <1>2, <1>3, <1>4

(* A search starts at the first of a list. *)
LEMMA SoughtAtFirst ==
    ASSUME NEW r \in Ranks, NEW f, NEW st, NEW ld, Good(f, st, ld, r),
           NEW S, NEW E, Kept(f, st, ld, S, E, r), NEW h \in Heads, Live(st, h), HasFirst(h)
    PROVE  Sought(S, E, r, h, <<>>, FirstOf(h))
<1>1. S \in SUBSET E
  BY DEF Kept, Owned
<1>2. FirstOf(h) \in Of(E, h)
  <2>1. FirstOf(h) \in Members(st, ld, h) /\ Members(st, ld, h) \subseteq E
    BY FirstIsFirst DEF Kept, Owned
  <2>2. \A x \in Members(st, ld, h) : HeadOf(x) = h
    BY MembersFacts DEF Good, GuestTypes
  <2> QED BY <2>1, <2>2 DEF Of
<1>3. \A s \in Of(S, h) : s = FirstOf(h) \/ Lt(r, FirstOf(h), s)
  BY <1>1 DEF Kept, InOrder, Of
<1> QED BY <1>2, <1>3 DEF Sought, Rising

(* No link leads back to the first of a list, or anywhere but on. *)
LEMMA LinkLeadsOn ==
    ASSUME NEW r \in Ranks, NEW S, NEW E, NEW st, E \in SUBSET Items, InOrder(st, E, r),
           NEW x \in E, NEW z, Follows(S, E, r, x, z), Live(st, HeadOf(x)), HasFirst(HeadOf(x))
    PROVE  z # FirstOf(HeadOf(x)) /\ z # x /\ z \in Nodes
<1>1. Lt(r, x, z) /\ z \in Nodes
  BY HeadOfFacts DEF Follows
<1>2. x = FirstOf(HeadOf(x)) \/ Lt(r, FirstOf(HeadOf(x)), x)
  BY DEF InOrder
<1>3. ~Lt(r, z, z)
  BY <1>1, HeadOfFacts, LtFacts
<1>4. Lt(r, z, x) => Lt(r, z, z)
  BY <1>1, LtFacts
<1> QED BY <1>1, <1>2, <1>3, <1>4

(* It goes on to an element that no steady one is before. *)
LEMMA SoughtGoesOn ==
    ASSUME NEW r \in Ranks, NEW S, NEW E, NEW st, E \in SUBSET Items, S \in SUBSET E, InOrder(st, E, r),
           NEW h \in Heads, NEW seq, NEW x \in Items, NEW z,
           Sought(S, E, r, h, seq, x), Follows(S, E, r, x, z)
    PROVE  Sought(S, E, r, h, Append(seq, x), z) /\ Len(Append(seq, x)) = Len(seq) + 1
<1> DEFINE t == Append(seq, x)
           Eh == Of(E, h)
<1>1. Eh \in SUBSET Items /\ h \notin Items
  BY HeadOfFacts DEF Of
<1>2. seq \in Seq(Eh) /\ x \in Eh /\ HeadOf(x) = h /\ x \in E
  BY <1>1 DEF Sought, Of
<1>4. /\ z \in Eh \cup {h} /\ Lt(r, x, z)
      /\ \A s \in Of(S, h) : ~(Lt(r, x, s) /\ Lt(r, s, z))
  BY <1>2, HeadOfFacts DEF Follows, Of
<1> HIDE DEF Eh
<1>5. /\ t \in Seq(Eh) /\ Len(t) = Len(seq) + 1 /\ t[Len(t)] = x
      /\ \A i \in DOMAIN seq : t[i] = seq[i] /\ seq[i] \in Eh
      /\ DOMAIN t = 1..Len(t) /\ DOMAIN seq = 1..Len(seq) /\ Len(seq) \in Nat
  BY <1>2
<1> HIDE DEF t
<1>6. \A i \in DOMAIN seq : Lt(r, seq[i], x) /\ r[seq[i]] < r[x]
  BY <1>1, <1>5 DEF Sought, Lt
<1>7. Rising(r, t)
  <2> SUFFICES ASSUME NEW i \in DOMAIN t, NEW j \in DOMAIN t, i < j
               PROVE  r[t[i]] < r[t[j]]
    BY DEF Rising
  <2>1. i \in DOMAIN seq
    BY <1>5
  <2>2. CASE j \in DOMAIN seq
    <3>1. t[i] = seq[i] /\ t[j] = seq[j]
      BY <1>5, <2>1, <2>2
    <3> QED BY <2>1, <2>2, <3>1 DEF Sought, Rising
  <2>3. CASE j \notin DOMAIN seq
    <3>1. j = Len(t)
      BY <1>5, <2>3
    <3> QED BY <1>5, <1>6, <2>1, <3>1
  <2> QED BY <2>2, <2>3
<1>8. \A i \in DOMAIN t : Lt(r, t[i], z)
  <2> SUFFICES ASSUME NEW i \in DOMAIN t PROVE Lt(r, t[i], z)
    OBVIOUS
  <2>1. CASE i \in DOMAIN seq
    <3>1. Lt(r, seq[i], x) /\ t[i] = seq[i]
      BY <1>5, <1>6, <2>1
    <3> QED BY <1>4, <3>1, LtFacts
  <2>2. CASE i \notin DOMAIN seq
    <3>1. i = Len(t)
      BY <1>5, <2>2
    <3> QED BY <1>4, <1>5, <3>1
  <2> QED BY <2>1, <2>2
<1>9. \A s \in Of(S, h) : s \in ToSet(t) \/ s = z \/ Lt(r, z, s)
  <2> SUFFICES ASSUME NEW s \in Of(S, h) PROVE s \in ToSet(t) \/ s = z \/ Lt(r, z, s)
    OBVIOUS
  <2>1. s \in Items /\ s \in E /\ HeadOf(s) = h
    BY DEF Of
  <2>2. CASE s \in ToSet(seq)
    <3>1. PICK i \in DOMAIN seq : s = seq[i]
      BY <2>2 DEF ToSet
    <3>2. i \in DOMAIN t /\ t[i] = s
      BY <1>5, <3>1
    <3> QED BY <3>2 DEF ToSet
  <2>3. CASE s = x
    <3>1. Len(t) \in DOMAIN t
      BY <1>5
    <3> QED BY <1>5, <2>3, <3>1 DEF ToSet
  <2>4. CASE Lt(r, x, s)
    <3>1. ~Lt(r, s, z)
      BY <1>4, <2>4
    <3>2. z \in Items /\ z \in E /\ HeadOf(z) = h
      BY <1>1, <1>4, <2>1, <3>1, LtFacts DEF Eh, Of
    <3>3. Lt(r, z, s) \/ r[z] = r[s]
      BY <2>1, <3>1, <3>2, LtFacts
    <3> QED BY <2>1, <3>2, <3>3 DEF InOrder
  <2> QED BY <2>2, <2>3, <2>4 DEF Sought
<1>10. Sought(S, E, r, h, t, z)
  BY <1>4, <1>5, <1>7, <1>8, <1>9 DEF Sought, Eh
<1> QED BY <1>5, <1>10 DEF t

(* At the head of the list everything steady was passed. *)
LEMMA SoughtAtEnd ==
    ASSUME NEW r \in Ranks, NEW S, NEW E, NEW h \in Heads, NEW seq, Sought(S, E, r, h, seq, h),
           S \in SUBSET Items
    PROVE  Found(S, E, r, h, seq)
<1>1. \A s \in Of(S, h) : s # h /\ ~Lt(r, h, s)
  BY HeadOfFacts, LtFacts DEF Of
<1> QED BY <1>1 DEF Sought, Found

(* A step of the guest does not lead a search astray. *)
LEMMA SoughtStays ==
    ASSUME NEW r \in Ranks, NEW r2 \in Ranks, NEW S, NEW E, NEW S2, NEW E2, E \in SUBSET Items,
           S \in SUBSET E, S2 \subseteq S, E \subseteq E2, \A y \in E : r2[y] = r[y]
    PROVE  /\ \A h, seq : Found(S, E, r, h, seq) => Found(S2, E2, r2, h, seq)
           /\ \A h \in Heads : \A seq, x :
                 Sought(S, E, r, h, seq, x) => Sought(S2, E2, r2, h, seq, x)
           /\ \A x \in E : \A z : Follows(S, E, r, x, z) => Follows(S2, E2, r2, x, z)
<1>1. \A u, v \in E \cup Heads : Lt(r2, u, v) <=> Lt(r, u, v)
  BY ItemsAreNotHeads DEF Lt
<1>2. \A h : Of(E, h) \subseteq Of(E2, h) /\ Of(E, h) \subseteq E /\ Of(S2, h) \subseteq Of(S, h)
             /\ Of(S2, h) \subseteq E
  BY DEF Of
<1>3. ASSUME NEW h, NEW seq, seq \in Seq(Of(E, h)), Rising(r, seq)
      PROVE  seq \in Seq(Of(E2, h)) /\ Rising(r2, seq) /\ \A i \in DOMAIN seq : seq[i] \in E
  <2>1. \A i \in DOMAIN seq : seq[i] \in Of(E, h) /\ seq[i] \in E /\ seq[i] \in Of(E2, h)
    BY <1>2, <1>3
  <2>2. seq \in Seq(Of(E2, h))
    BY <1>3, <2>1
  <2> QED BY <1>3, <2>1, <2>2 DEF Rising
<1>4. ASSUME NEW h, NEW seq, Found(S, E, r, h, seq)
      PROVE  Found(S2, E2, r2, h, seq)
  BY <1>2, <1>3, <1>4 DEF Found
<1>5. ASSUME NEW h \in Heads, NEW seq, NEW x, Sought(S, E, r, h, seq, x)
      PROVE  Sought(S2, E2, r2, h, seq, x)
  <2>1. /\ seq \in Seq(Of(E, h)) /\ Rising(r, seq)
        /\ x \in Of(E, h) \cup {h} /\ \A i \in DOMAIN seq : Lt(r, seq[i], x)
        /\ \A s \in Of(S, h) : s \in ToSet(seq) \/ s = x \/ Lt(r, x, s)
    BY <1>5 DEF Sought
  <2>2. /\ seq \in Seq(Of(E2, h)) /\ Rising(r2, seq) /\ \A i \in DOMAIN seq : seq[i] \in E
        /\ x \in E \cup Heads /\ x \in Of(E2, h) \cup {h}
    BY <1>2, <1>3, <2>1
  <2>3. \A i \in DOMAIN seq : Lt(r2, seq[i], x)
    BY <1>1, <2>1, <2>2
  <2>4. \A s \in Of(S2, h) : s \in ToSet(seq) \/ s = x \/ Lt(r2, x, s)
    BY <1>1, <1>2, <2>1, <2>2
  <2> QED BY <2>2, <2>3, <2>4 DEF Sought
<1>6. ASSUME NEW x \in E, NEW z, Follows(S, E, r, x, z) PROVE Follows(S2, E2, r2, x, z)
  <2>1. /\ z \in E \cup {HeadOf(x)} /\ HeadOf(z) = HeadOf(x) /\ Lt(r, x, z)
        /\ \A s \in S : HeadOf(s) = HeadOf(x) => ~(Lt(r, x, s) /\ Lt(r, s, z))
    BY <1>6 DEF Follows
  <2>2. HeadOf(x) \in Heads
    BY HeadOfFacts
  <2> QED BY <1>1, <2>1, <2>2 DEF Follows
<1> QED BY <1>4, <1>5, <1>6

(* A set of natural numbers has a least element. *)
LEMMA LeastNumber ==
    ASSUME NEW S \in SUBSET Nat, S # {}
    PROVE  \E x \in S : \A y \in S : x <= y
<1>0. \A x, y \in Nat : x < y => <<x, y>> \in OpToRel(<, Nat)
  BY Zenon DEF OpToRel
<1>1. PICK x \in S : \A y \in S : ~ (<<y, x>> \in OpToRel(<, Nat))
  BY NatLessThanWellFounded, WFMin, Zenon
<1>2. \A y \in S : x <= y
  <2> SUFFICES ASSUME NEW y \in S PROVE x <= y
    OBVIOUS
  <2>1. ~(y < x)
    BY <1>0, <1>1
  <2> QED BY <2>1
<1> QED BY <1>2

(* The processes of a name, in order. *)
LEMMA NamedIs ==
    ASSUME NEW T, infos \in Seq(T), NEW n
    PROVE  /\ named(n) \in Seq(T)
           /\ \A i \in DOMAIN named(n) : named(n)[i].name = short[n]
           /\ \A k \in DOMAIN infos : infos[k].name = short[n] =>
                 \E i \in DOMAIN named(n) : named(n)[i] = infos[k]
<1> DEFINE L == Len(infos)
           Fits(k) == infos[k].name = short[n]
           Body(f, k) == IF k = 0 THEN <<>>
                         ELSE IF Fits(k) THEN Append(f[k - 1], infos[k]) ELSE f[k - 1]
           first == CHOOSE first : first = [k \in 0..L |-> Body(first, k)]
           Right(k, s) == /\ s \in Seq(T) /\ \A i \in DOMAIN s : s[i].name = short[n]
                          /\ \A j \in 1..k : Fits(j) => \E i \in DOMAIN s : s[i] = infos[j]
           Upto(m) == \E g \in [0..m -> Seq(T)] : \A k \in 0..m : g[k] = Body(g, k)
<1>0. L \in Nat /\ DOMAIN infos = 1..L /\ \A k \in 1..L : infos[k] \in T
  OBVIOUS
<1>1. Upto(0)
  <2> DEFINE g == [k \in 0..0 |-> <<>>]
  <2>1. g \in [0..0 -> Seq(T)]
    OBVIOUS
  <2>2. \A k \in 0..0 : k = 0
    OBVIOUS
  <2>3. \A k \in 0..0 : g[k] = Body(g, k)
    BY <2>2
  <2> QED BY <2>1, <2>3
<1>2. ASSUME NEW m \in Nat, m < L, Upto(m) PROVE Upto(m + 1)
  <2>1. PICK g \in [0..m -> Seq(T)] : \A k \in 0..m : g[k] = Body(g, k)
    BY <1>2
  <2> DEFINE h == [k \in 0..(m + 1) |-> IF k = m + 1 THEN Body(g, m + 1) ELSE g[k]]
  <2>2. m + 1 \in 1..L /\ m \in 0..m /\ m + 1 - 1 = m /\ m + 1 # 0
    BY <1>0, <1>2
  <2>3. infos[m + 1] \in T /\ g[m] \in Seq(T)
    BY <1>0, <2>1, <2>2
  <2>4. Body(g, m + 1) \in Seq(T)
    <3>1. Body(g, m + 1) = Append(g[m], infos[m + 1]) \/ Body(g, m + 1) = g[m]
      BY <2>2
    <3> HIDE DEF Body
    <3>2. Append(g[m], infos[m + 1]) \in Seq(T)
      BY <2>3
    <3> QED BY <2>3, <3>1, <3>2
  <2> HIDE DEF Body
  <2>5. h \in [0..(m + 1) -> Seq(T)]
    <3>1. \A k \in 0..(m + 1) : k # m + 1 => k \in 0..m
      BY <1>2
    <3> DEFINE a == Body(g, m + 1)
    <3>2. a \in Seq(T) /\ \A k \in 0..m : g[k] \in Seq(T)
      BY <2>1, <2>4
    <3>3. h = [k \in 0..(m + 1) |-> IF k = m + 1 THEN a ELSE g[k]]
      OBVIOUS
    <3> HIDE DEF a, h
    <3> QED BY <3>1, <3>2, <3>3
  <2>6. \A k \in 0..(m + 1) : k # m + 1 => k \in 0..m /\ h[k] = g[k]
    BY <1>2
  <2>7. h[m + 1] = Body(g, m + 1) /\ h[m] = g[m]
    BY <1>2, <2>6
  <2> HIDE DEF h
  <2>8. \A k \in 0..(m + 1) : h[k] = Body(h, k)
    <3> SUFFICES ASSUME NEW k \in 0..(m + 1) PROVE h[k] = Body(h, k)
      OBVIOUS
    <3>1. CASE k = m + 1
      <4>1. Body(h, m + 1) = Body(g, m + 1)
        BY <2>2, <2>7 DEF Body
      <4> QED BY <2>7, <3>1, <4>1
    <3>2. CASE k # m + 1
      <4>1. k \in 0..m /\ h[k] = g[k] /\ g[k] = Body(g, k)
        BY <2>1, <2>6, <3>2
      <4>2. k # 0 => h[k - 1] = g[k - 1]
        <5> SUFFICES ASSUME k # 0 PROVE h[k - 1] = g[k - 1]
          OBVIOUS
        <5>1. k - 1 \in 0..(m + 1) /\ k - 1 # m + 1
          BY <1>2, <4>1
        <5> QED BY <2>6, <5>1
      <4>3. Body(h, k) = Body(g, k)
        BY <4>2 DEF Body
      <4> QED BY <4>1, <4>3
    <3> QED BY <3>1, <3>2
  <2> QED BY <2>5, <2>8
<1>3. Upto(L)
  <2> DEFINE Bad == {k \in 0..L : ~Upto(k)}
  <2> SUFFICES ASSUME Bad # {} PROVE FALSE
    <3>1. L \in 0..L
      BY <1>0
    <3> HIDE DEF Upto
    <3> QED BY <3>1
  <2> HIDE DEF Upto
  <2>1. Bad \in SUBSET Nat
    BY <1>0
  <2>2. PICK b \in Bad : \A y \in Bad : b <= y
    BY <2>1, LeastNumber
  <2>3. b \in 0..L /\ b # 0 /\ ~Upto(b)
    BY <1>1, <2>2
  <2>4. b - 1 \in Nat /\ b - 1 < L /\ b - 1 \in 0..L /\ ~(b <= b - 1)
    BY <1>0, <2>3
  <2>5. Upto(b - 1)
    BY <2>2, <2>4
  <2>6. Upto(b - 1 + 1) /\ b - 1 + 1 = b
    BY <1>2, <2>3, <2>4, <2>5
  <2> QED BY <2>3, <2>6
<1>4. named(n) = first[L]
  BY DEF named
<1>5. PICK g \in [0..L -> Seq(T)] : \A k \in 0..L : g[k] = Body(g, k)
  BY <1>3
<1>6. g = [k \in 0..L |-> Body(g, k)]
  BY <1>5
<1>7. first = [k \in 0..L |-> Body(first, k)]
  BY <1>6
<1> HIDE DEF first
<1>8. \A k \in 0..L : first[k] = Body(first, k)
  BY <1>7
<1> DEFINE Wrong == {k \in 0..L : ~Right(k, first[k])}
<1>9. Wrong = {}
  <2> SUFFICES ASSUME Wrong # {} PROVE FALSE
    OBVIOUS
  <2>1. Wrong \in SUBSET Nat
    BY <1>0
  <2>2. PICK k \in Wrong : \A y \in Wrong : k <= y
    BY <2>1, LeastNumber
  <2>3. Right(0, <<>>)
    OBVIOUS
  <2>4. first[0] = <<>> /\ 0 \in 0..L
    BY <1>0, <1>8
  <2>5. k # 0
    <3> HIDE DEF Right
    <3> QED BY <2>2, <2>3, <2>4
  <2>6. k - 1 \in 0..L /\ ~(k <= k - 1) /\ k \in 0..L /\ k \in 1..L
    BY <1>0, <2>2, <2>5
  <2>7. Right(k - 1, first[k - 1])
    <3> HIDE DEF Right
    <3> QED BY <2>2, <2>6
  <2> DEFINE s == first[k - 1]
             t == first[k]
  <2>8. t = IF Fits(k) THEN Append(s, infos[k]) ELSE s
    BY <1>8, <2>5, <2>6
  <2>9. /\ s \in Seq(T) /\ (\A i \in DOMAIN s : s[i].name = short[n])
        /\ \A j \in 1..(k - 1) : Fits(j) => \E i \in DOMAIN s : s[i] = infos[j]
    BY <2>7
  <2>10. \A j \in 1..k : j # k => j \in 1..(k - 1)
    BY <2>6
  <2>11. infos[k] \in T /\ (Fits(k) <=> infos[k].name = short[n])
    BY <1>0, <2>6
  <2> HIDE DEF s, t, Fits
  <2>12. Right(k, t)
    <3>1. CASE Fits(k)
      <4>1. /\ t = Append(s, infos[k]) /\ t \in Seq(T) /\ Len(t) = Len(s) + 1
            /\ \A i \in DOMAIN s : i \in DOMAIN t /\ t[i] = s[i]
            /\ Len(t) \in DOMAIN t /\ t[Len(t)] = infos[k]
            /\ \A i \in DOMAIN t : i \in DOMAIN s \/ i = Len(t)
        BY <2>8, <2>9, <2>11, <3>1
      <4>2. \A i \in DOMAIN t : t[i].name = short[n]
        BY <2>9, <2>11, <3>1, <4>1
      <4>3. \A j \in 1..k : Fits(j) => \E i \in DOMAIN t : t[i] = infos[j]
        <5> SUFFICES ASSUME NEW j \in 1..k, Fits(j) PROVE \E i \in DOMAIN t : t[i] = infos[j]
          OBVIOUS
        <5>1. CASE j = k
          BY <4>1, <5>1
        <5>2. CASE j # k
          <6>1. PICK i \in DOMAIN s : s[i] = infos[j]
            BY <2>9, <2>10, <5>2
          <6> QED BY <4>1, <6>1
        <5> QED BY <5>1, <5>2
      <4> QED BY <4>1, <4>2, <4>3
    <3>2. CASE ~Fits(k)
      <4>1. t = s
        BY <2>8, <3>2
      <4>2. \A j \in 1..k : Fits(j) => \E i \in DOMAIN s : s[i] = infos[j]
        BY <2>9, <2>10, <3>2
      <4> QED BY <2>9, <4>1, <4>2
    <3> QED BY <3>1, <3>2
  <2> HIDE DEF Right
  <2> QED BY <2>2, <2>12 DEF t
<1>10. Right(L, first[L])
  <2> HIDE DEF Right
  <2>1. L \in 0..L
    BY <1>0
  <2> QED BY <1>9, <2>1
<1> QED BY <1>0, <1>4, <1>10

Tidy == \E r \in Ranks : (\E b \in Nat : Above(r, b)) /\ Good(flink, state, loaded, r)

LEMMA TidyFacts ==
    ASSUME Tidy
    PROVE  /\ state \in [Procs -> States] /\ flink \in [Nodes -> Nodes \cup {Null, Junk, Odd}]
           /\ \A h \in ModHeads : Live(state, h) /\ Loads[h] # <<>> => flink[h] = Loads[h][1]
           /\ \A n \in Entries \cup ModHeads : flink[n] \in Nodes => HeadOf(flink[n]) = HeadOf(n)
<1>1. PICK r \in Ranks : Good(flink, state, loaded, r)
  BY DEF Tidy
<1>2. \A n \in ModHeads : HeadOf(flink[n]) = HeadOf(n)
  BY <1>1, OwnList, HeadOfFacts
<1> QED BY <1>1, <1>2 DEF Good, GuestTypes, Links

----------------------------------------------------------------------------
(* What is known of processes *)

(* A Win32ProcessInfo, of whatever time it is. *)
Infos == [address : Procs \cup {Kernel}, name : {Process[p].name : p \in Procs} \cup {Null},
          pid : {Process[p].pid : p \in Procs} \cup {0},
          wow64 : {Process[p].wow64 : p \in Procs} \cup {FALSE},
          teb : {Process[p].teb : p \in Procs} \cup {FALSE},
          native : Entries \cup {Junk}, wow : Entries \cup {Null}]

Based(base, h) == h \in ModHeads /\ Loads[h] # <<>> /\ base = Loads[h][1]

Origins ==
    {i \in Infos :
        /\ i.native = Junk \/ Based(i.native, Natives(i.address))
        /\ i.wow = Null \/ Based(i.wow, Wow64s(i.address))
        /\ i.address \in Procs => i.name = Process[i.address].name
        /\ i.address \in Procs /\ i.native # Junk /\ Process[i.address].wow64 /\ Process[i.address].teb
              => i.wow # Null}

Bases == {m \in [base : Entries \cup {Junk}, list : ModHeads] :
             m.base = Junk \/ Based(m.base, m.list)}

(* The fields that are read first. *)
Fields(p) == [NoInfo EXCEPT !.address = p, !.name = Process[p].name,
                 !.pid = Process[p].pid, !.wow64 = Process[p].wow64, !.teb = Process[p].teb]

InfoWith(a, n, q, w, t, x, y) ==
    [address |-> a, name |-> n, pid |-> q, wow64 |-> w, teb |-> t, native |-> x, wow |-> y]

LEMMA NoInfoIs == NoInfo = InfoWith(Null, Null, 0, FALSE, FALSE, Null, Null)
BY DEF NoInfo, InfoWith

LEMMA FieldsIs ==
    ASSUME NEW p
    PROVE  Fields(p) = InfoWith(p, Process[p].name, Process[p].pid, Process[p].wow64,
                              Process[p].teb, Null, Null)
<1> DEFINE i1 == [NoInfo EXCEPT !.address = p]
           i2 == [i1 EXCEPT !.name = Process[p].name]
           i3 == [i2 EXCEPT !.pid = Process[p].pid]
           i4 == [i3 EXCEPT !.wow64 = Process[p].wow64]
           i5 == [i4 EXCEPT !.teb = Process[p].teb]
<1>1. Fields(p) = i5
  BY DEF Fields
<1> HIDE DEF i1, i2, i3, i4, i5
<1>2. i1 = InfoWith(p, Null, 0, FALSE, FALSE, Null, Null)
  <2>1. i1 = [InfoWith(Null, Null, 0, FALSE, FALSE, Null, Null) EXCEPT !.address = p]
    BY NoInfoIs DEF i1
  <2> QED BY <2>1 DEF InfoWith
<1>3. i2 = InfoWith(p, Process[p].name, 0, FALSE, FALSE, Null, Null)
  <2>1. i2 = [InfoWith(p, Null, 0, FALSE, FALSE, Null, Null) EXCEPT !.name = Process[p].name]
    BY <1>2 DEF i2
  <2> QED BY <2>1 DEF InfoWith
<1>4. i3 = InfoWith(p, Process[p].name, Process[p].pid, FALSE, FALSE, Null, Null)
  <2>1. i3 = [InfoWith(p, Process[p].name, 0, FALSE, FALSE, Null, Null) EXCEPT !.pid = Process[p].pid]
    BY <1>3 DEF i3
  <2> QED BY <2>1 DEF InfoWith
<1>5. i4 = InfoWith(p, Process[p].name, Process[p].pid, Process[p].wow64, FALSE, Null, Null)
  <2>1. i4 = [InfoWith(p, Process[p].name, Process[p].pid, FALSE, FALSE, Null, Null) EXCEPT !.wow64 = Process[p].wow64]
    BY <1>4 DEF i4
  <2> QED BY <2>1 DEF InfoWith
<1>6. i5 = InfoWith(p, Process[p].name, Process[p].pid, Process[p].wow64, Process[p].teb, Null, Null)
  <2>1. i5 = [InfoWith(p, Process[p].name, Process[p].pid, Process[p].wow64, FALSE, Null, Null) EXCEPT !.teb = Process[p].teb]
    BY <1>5 DEF i5
  <2> QED BY <2>1 DEF InfoWith
<1> QED BY <1>1, <1>6

Filled(p, n, w) == [Fields(p) EXCEPT !.native = n, !.wow = w]
WithoutContext(p, n)  == [Fields(p) EXCEPT !.native = n]

LEMMA FieldsFilled ==
    ASSUME NEW p, NEW n, NEW w
    PROVE  /\ Filled(p, n, w) =
                  InfoWith(p, Process[p].name, Process[p].pid, Process[p].wow64, Process[p].teb, n, w)
           /\ WithoutContext(p, n) =
                  InfoWith(p, Process[p].name, Process[p].pid, Process[p].wow64, Process[p].teb, n, Null)
<1> DEFINE i == Fields(p)
           i1 == [i EXCEPT !.native = n]
           i2 == [i1 EXCEPT !.wow = w]
<1>1. Filled(p, n, w) = i2
  BY DEF Filled
<1>4. WithoutContext(p, n) = i1
  BY DEF WithoutContext
<1> HIDE DEF i, i1, i2
<1>5. i = InfoWith(p, Process[p].name, Process[p].pid, Process[p].wow64, Process[p].teb, Null, Null)
  BY FieldsIs DEF i
<1> DEFINE j(x, y) ==
           InfoWith(p, Process[p].name, Process[p].pid, Process[p].wow64, Process[p].teb, x, y)
<1>2. i1 = j(n, Null)
  <2>1. i1 = [j(Null, Null) EXCEPT !.native = n]
    BY <1>5 DEF i1
  <2> QED BY <2>1 DEF InfoWith
<1>3. i2 = j(n, w)
  <2>1. i2 = [j(n, Null) EXCEPT !.wow = w]
    BY <1>2 DEF i2
  <2> QED BY <2>1 DEF InfoWith
<1> QED BY <1>1, <1>2, <1>3, <1>4

LEMMA FirstEntry ==
    ASSUME NEW h \in ModHeads, Loads[h] # <<>>
    PROVE  Loads[h][1] \in Entries /\ HeadOf(Loads[h][1]) = h
<1>1. 1 \in DOMAIN Loads[h] /\ Loads[h][1] \in Entries /\ Module[Loads[h][1]].list = h
  BY LoadsAssumption
<1> QED BY <1>1, HeadOfFacts

(* kernel_process_info and process_info_from_base_info *)
LEMMA KernelIsKnown ==
    ASSUME Tidy
    PROVE  kernel_process_info \in Origins /\ kernel_process_info.address = Kernel
<1> DEFINE h == Natives(Kernel)
           i == InfoWith(Kernel, Null, 0, FALSE, FALSE, flink[h], Null)
<1>1. h \in ModHeads /\ Live(state, h) /\ Loads[h] # <<>>
  BY LoadsAssumption DEF ModHeads, Natives, Live
<1>2. flink[h] = Loads[h][1] /\ flink[h] \in Entries
  BY <1>1, TidyFacts, FirstEntry
<1>3. kernel_process_info = i
  <2>1. kernel_process_info = [NoInfo EXCEPT !.address = Kernel, !.native = flink[h]]
    BY DEF kernel_process_info
  <2> DEFINE i1 == [NoInfo EXCEPT !.address = Kernel]
             i2 == [i1 EXCEPT !.native = flink[h]]
  <2>2. kernel_process_info = i2
    BY <2>1
  <2> HIDE DEF h, i1, i2
  <2>3. i1 = InfoWith(Kernel, Null, 0, FALSE, FALSE, Null, Null)
    <3>1. i1 = [InfoWith(Null, Null, 0, FALSE, FALSE, Null, Null) EXCEPT !.address = Kernel]
      BY NoInfoIs DEF i1
    <3> QED BY <3>1 DEF InfoWith
  <2>4. i2 = InfoWith(Kernel, Null, 0, FALSE, FALSE, flink[h], Null)
    <3>1. i2 = [InfoWith(Kernel, Null, 0, FALSE, FALSE, Null, Null) EXCEPT !.native = flink[h]]
      BY <2>3 DEF i2
    <3> QED BY <3>1 DEF InfoWith
  <2> QED BY <2>2, <2>4
<1>4. /\ i \in Infos /\ i.address = Kernel /\ i.native = flink[h] /\ i.wow = Null
  BY <1>2 DEF Infos, InfoWith
<1>5. Based(flink[h], h)
  BY <1>1, <1>2 DEF Based
<1>6. Kernel \notin Procs
  BY NodesAssumption
<1> HIDE DEF h, i
<1>7. i \in Origins
  BY <1>4, <1>5, <1>6 DEF Origins, h
<1> QED BY <1>3, <1>4, <1>7

LEMMA ProcessIsKnown ==
    ASSUME Tidy, NEW p \in Procs, ~Process[p].kernel
    PROVE  /\ WithoutContext(p, Junk) \in Origins
           /\ Running(p) =>
                Filled(p, flink[Natives(p)],
                       IF Process[p].wow64 /\ Process[p].teb THEN flink[Wow64s(p)] ELSE Null)
                \in Origins
<1>1. /\ Natives(p) \in ModHeads /\ Wow64s(p) \in ModHeads
      /\ Natives(p)[1] = p /\ Wow64s(p)[1] = p /\ p # Kernel
  BY NodesAssumption DEF Natives, Wow64s, ModHeads
<1>2. /\ Loads[Natives(p)] # <<>> /\ (Process[p].wow64 /\ Process[p].teb => Loads[Wow64s(p)] # <<>>)
      /\ Junk \notin Entries /\ Null \notin Entries
  BY LoadsAssumption, NodesAssumption DEF Nodes
<1> DEFINE i0 == InfoWith(p, Process[p].name, Process[p].pid, Process[p].wow64, Process[p].teb,
                        Junk, Null)
<1>3. i0 \in Origins
  BY <1>2 DEF Infos, Origins, InfoWith
<1>4. WithoutContext(p, Junk) = i0
  BY FieldsFilled
<1>5. ASSUME Running(p)
      PROVE  Filled(p, flink[Natives(p)],
                    IF Process[p].wow64 /\ Process[p].teb THEN flink[Wow64s(p)] ELSE Null)
             \in Origins
  <2> DEFINE n == flink[Natives(p)]
             w == IF Process[p].wow64 /\ Process[p].teb THEN flink[Wow64s(p)] ELSE Null
             i == InfoWith(p, Process[p].name, Process[p].pid, Process[p].wow64, Process[p].teb, n, w)
  <2>1. Live(state, Natives(p)) /\ Live(state, Wow64s(p))
    BY <1>1, <1>5 DEF Live, Running
  <2>2. Based(n, Natives(p)) /\ n \in Entries
    BY <1>1, <1>2, <2>1, TidyFacts, FirstEntry DEF Based
  <2>3. IF Process[p].wow64 /\ Process[p].teb THEN Based(w, Wow64s(p)) /\ w \in Entries ELSE w = Null
    BY <1>1, <1>2, <2>1, TidyFacts, FirstEntry DEF Based
  <2>4. Filled(p, n, w) = i
    BY FieldsFilled
  <2> HIDE DEF n, w
  <2>5. /\ i \in Infos /\ i.address = p /\ i.native = n /\ i.wow = w
        /\ i.name = Process[p].name
    BY <2>2, <2>3 DEF Infos, InfoWith
  <2> HIDE DEF i
  <2>6. i \in Origins
    BY <1>2, <2>2, <2>3, <2>5 DEF Origins
  <2> QED BY <2>4, <2>6 DEF n, w
<1> QED BY <1>3, <1>4, <1>5

LEMMA OneAndMore ==
    ASSUME NEW T, NEW x \in T
    PROVE  /\ LET s == <<x>> \o <<>> IN s \in Seq(T) /\ Len(s) = 1 /\ s[1] = x /\ DOMAIN s = 1..Len(s)
           /\ \A y \in T : LET s == <<x>> \o <<y>> IN
                 s \in Seq(T) /\ Len(s) = 2 /\ s[1] = x /\ s[2] = y /\ DOMAIN s = 1..Len(s)
<1>1. ASSUME NEW a \in Seq(T), Len(a) = 1, a[1] = x, NEW b \in Seq(T)
      PROVE  LET s == a \o b IN
             /\ s \in Seq(T) /\ Len(s) = 1 + Len(b) /\ s[1] = x /\ DOMAIN s = 1..Len(s)
             /\ Len(b) = 1 => s[2] = b[1]
  <2> DEFINE s == a \o b
  <2>1. /\ s \in Seq(T) /\ Len(s) = Len(a) + Len(b)
        /\ \A i \in 1..(Len(a) + Len(b)) : s[i] = IF i <= Len(a) THEN a[i] ELSE b[i - Len(a)]
    BY <1>1, ConcatProperties
  <2>2. Len(b) \in Nat
    BY <1>1
  <2> HIDE DEF s
  <2>3. Len(s) = 1 + Len(b) /\ DOMAIN s = 1..Len(s) /\ 1 \in 1..(Len(a) + Len(b))
    BY <1>1, <2>1, <2>2
  <2>4. s[1] = x
    BY <1>1, <2>1, <2>3
  <2>5. ASSUME Len(b) = 1 PROVE s[2] = b[1]
    <3>1. 2 \in 1..(Len(a) + Len(b)) /\ ~(2 <= Len(a)) /\ 2 - Len(a) = 1
      BY <1>1, <2>5
    <3> QED BY <2>1, <3>1
  <2> QED BY <2>1, <2>3, <2>4, <2>5 DEF s
<1>2. \A y \in T : <<y>> \in Seq(T) /\ Len(<<y>>) = 1 /\ <<y>>[1] = y
  OBVIOUS
<1>3. <<>> \in Seq(T) /\ Len(<<>>) = 0
  OBVIOUS
<1>4. LET s == <<x>> \o <<>> IN s \in Seq(T) /\ Len(s) = 1 /\ s[1] = x /\ DOMAIN s = 1..Len(s)
  <2> DEFINE a == <<x>>
             b == <<>>
  <2>1. a \in Seq(T) /\ Len(a) = 1 /\ a[1] = x /\ b \in Seq(T) /\ Len(b) = 0
    BY <1>2, <1>3
  <2> HIDE DEF a, b
  <2>2. LET s == a \o b IN s \in Seq(T) /\ Len(s) = 1 /\ s[1] = x /\ DOMAIN s = 1..Len(s)
    BY <1>1, <2>1
  <2> QED BY <2>2 DEF a, b
<1>5. ASSUME NEW y \in T
      PROVE LET s == <<x>> \o <<y>> IN
            s \in Seq(T) /\ Len(s) = 2 /\ s[1] = x /\ s[2] = y /\ DOMAIN s = 1..Len(s)
  <2> DEFINE a == <<x>>
             b == <<y>>
  <2>1. a \in Seq(T) /\ Len(a) = 1 /\ a[1] = x /\ b \in Seq(T) /\ Len(b) = 1 /\ b[1] = y
    BY <1>2
  <2> HIDE DEF a, b
  <2>2. LET s == a \o b IN
        s \in Seq(T) /\ Len(s) = 2 /\ s[1] = x /\ s[2] = y /\ DOMAIN s = 1..Len(s)
    BY <1>1, <2>1
  <2> QED BY <2>2 DEF a, b
<1> QED BY <1>4, <1>5

LEMMA ListsOfIs ==
    ASSUME NEW i \in Origins
    PROVE  /\ ListsOf(i) \in Seq(Bases) /\ ListsOf(i) # <<>>
           /\ Head(ListsOf(i)).base = i.native /\ Head(ListsOf(i)).list = Natives(i.address)
           /\ \A k \in DOMAIN ListsOf(i) : ListsOf(i)[k].list[1] = i.address
           /\ i.wow # Null => /\ Len(ListsOf(i)) = 2
                              /\ ListsOf(i)[2].list = Wow64s(i.address) /\ ListsOf(i)[2].base = i.wow
           /\ i.native = Junk \/ Based(i.native, Natives(i.address))
<1>1. /\ i.address \in Procs \cup {Kernel} /\ i.native \in Entries \cup {Junk}
      /\ i.wow \in Entries \cup {Null}
      /\ i.native = Junk \/ Based(i.native, Natives(i.address))
      /\ i.wow = Null \/ Based(i.wow, Wow64s(i.address))
  BY DEF Origins, Infos
<1> DEFINE m1 == [base |-> i.native, list |-> Natives(i.address)]
           m2 == [base |-> i.wow, list |-> Wow64s(i.address)]
<1>2. /\ Natives(i.address) \in ModHeads /\ Wow64s(i.address) \in ModHeads
      /\ Natives(i.address)[1] = i.address /\ Wow64s(i.address)[1] = i.address
  BY <1>1 DEF Natives, Wow64s, ModHeads
<1>3. m1 \in Bases /\ (i.wow # Null => m2 \in Bases)
  BY <1>1, <1>2 DEF Bases
<1>4. LET l == ListsOf(i) IN
      /\ l[1] = m1 /\ Len(l) \in {1, 2} /\ DOMAIN l = 1..Len(l) /\ l \in Seq(Bases)
      /\ Len(l) = 2 <=> i.wow # Null
      /\ i.wow # Null => l[2] = m2
  <2> DEFINE t == IF i.wow = Null THEN <<>> ELSE <<m2>>
  <2>1. ListsOf(i) = <<m1>> \o t
    BY DEF ListsOf
  <2> HIDE DEF m1, m2
  <2>2. CASE i.wow = Null
    <3>1. ListsOf(i) = <<m1>> \o <<>>
      BY <2>1, <2>2
    <3> QED BY <1>3, <2>2, <3>1, OneAndMore
  <2>3. CASE i.wow # Null
    <3>1. ListsOf(i) = <<m1>> \o <<m2>>
      BY <2>1, <2>3
    <3> QED BY <1>3, <2>3, <3>1, OneAndMore
  <2> QED BY <2>2, <2>3
<1>5. /\ m1.base = i.native /\ m1.list = Natives(i.address)
      /\ m2.base = i.wow /\ m2.list = Wow64s(i.address)
  OBVIOUS
<1> HIDE DEF m1, m2
<1>6. \A k \in DOMAIN ListsOf(i) : k = 1 \/ (k = 2 /\ i.wow # Null)
  BY <1>4
<1>7. \A k \in DOMAIN ListsOf(i) : ListsOf(i)[k].list[1] = i.address
  BY <1>2, <1>4, <1>5, <1>6
<1> QED BY <1>1, <1>4, <1>5, <1>7

----------------------------------------------------------------------------
(* The walk of eprocess_list_extend *)

(* The steps of a call. *)
Reading == \/ WalkFlink \/ WalkBlink \/ EprocessFields \/ ProcessContext \/ InfosDone \/ Candidate
           \/ ModFlink \/ ModInfo \/ NextList \/ ModulesDone \/ Tried \/ KernelModules \/ ReadKbase
Calling == \E r \in Requests : \/ CallWalk(r) \/ CallKernel(r) \/ CallModules(r)
                               \/ \E down \in {{}, {0}, {r.vk}} : KeyState(r, down)

LEMMA NextIs == Win32Next <=> GuestNext \/ Calling \/ Reading
BY DEF Win32Next, Reading, Calling

LEMMA ReadingKeeps ==
    ASSUME Reading
    PROVE  /\ pc # "idle" /\ flink' = flink /\ state' = state /\ loaded' = loaded /\ call' = call
           /\ steady' = steady /\ ever' = ever /\ broken' = broken
BY DEF Reading, WalkFlink, WalkBlink,
       EprocessFields, ProcessContext, InfosDone, Candidate, ModFlink, ModInfo, NextList,
       ModulesDone, Tried, KernelModules, ReadKbase, AllRead, Reader, guest

LEMMA CallingKeeps ==
    ASSUME Calling
    PROVE  /\ pc = "idle" /\ flink' = flink /\ state' = state /\ loaded' = loaded
           /\ steady' = Linked \cup loaded /\ ever' = Linked \cup loaded /\ broken' = FALSE
           /\ \/ StartWalk
              \/ StartModules(kernel_process_info) \/ (process # NoInfo /\ StartModules(process))
              \/ pc' = "idle"
<1>1. PICK r \in Requests : \/ CallWalk(r) \/ CallKernel(r) \/ CallModules(r)
                             \/ \E down \in {{}, {0}, {r.vk}} : KeyState(r, down)
  BY DEF Calling
<1>2. Call(r)
  BY <1>1 DEF CallWalk, CallKernel, CallModules, KeyState
<1>3. \/ StartWalk
      \/ StartModules(kernel_process_info) \/ (process # NoInfo /\ StartModules(process))
      \/ pc' = "idle"
  <2>1. CASE CallWalk(r)
    BY <2>1 DEF CallWalk
  <2>2. CASE CallKernel(r)
    BY <2>2 DEF CallKernel, Return
  <2>3. CASE CallModules(r)
    BY <2>3 DEF CallModules
  <2>4. CASE \E down \in {{}, {0}, {r.vk}} : KeyState(r, down)
    BY <2>4 DEF KeyState, Return
  <2> QED BY <1>1, <2>1, <2>2, <2>3, <2>4
<1>4. /\ pc = "idle" /\ flink' = flink /\ state' = state /\ loaded' = loaded
      /\ steady' = Linked \cup loaded /\ ever' = Linked \cup loaded /\ broken' = FALSE
  BY <1>2 DEF Call, guest
<1> QED BY <1>3, <1>4

LEMMA GuestKeeps ==
    ASSUME GuestNext
    PROVE  /\ (~broken' => ~broken)
           /\ UNCHANGED <<faults, calls, pc, call, names, walk, lists, client, aborted>>
<1>1. GuestStep
  BY DEF GuestNext, Spawn, Exit, Delete, Free, Load, Unload
<1>2. broken' = broken \/ broken' = TRUE \/ \E e \in Entries : broken' = (broken \/ e \in ever)
  <2>1. ASSUME NEW p \in Procs, Spawn(p) \/ Exit(p) \/ Delete(p) \/ Free(p)
        PROVE  broken' = broken \/ broken' = TRUE
    BY <2>1 DEF Spawn, Exit, Delete, Free
  <2>2. ASSUME NEW e \in Entries, Load(e)
        PROVE  broken' = (broken \/ e \in ever)
    BY <2>2 DEF Load
  <2>3. ASSUME NEW e \in Entries, Unload(e)
        PROVE  broken' = broken \/ broken' = TRUE
    BY <2>3 DEF Unload
  <2> QED BY <2>1, <2>2, <2>3 DEF GuestNext
<1>3. ~broken' => ~broken
  BY Zenon, <1>2
<1> QED BY <1>1, <1>3 DEF GuestStep

(* The walk of eprocess_list_extend: at is pc, x entry, z flink_entry, n   *)
(* iter and seq eprocs.                                                    *)
Walking(S, E, r, at, x, z, n, seq) ==
    /\ at \in {"flink", "blink"} => Sought(S, E, r, PsHead, seq, x) /\ n = Len(seq) /\ n < MaxIter
    /\ at = "blink" => (x = PsHead /\ z = System) \/ (x \in Items /\ Follows(S, E, r, x, z))
    /\ at \in {"eprocess", "context"} => Found(S, E, r, PsHead, seq)

LEMMA PsHeadFacts ==
    /\ PsHead \in Heads /\ PsHead \notin Items /\ HasFirst(PsHead) /\ FirstOf(PsHead) = System
    /\ \A st : Live(st, PsHead)
    /\ \A E \in SUBSET Items : Of(E, PsHead) = E \cap Procs
<1>1. \A x \in Items : HeadOf(x) = PsHead <=> x \in Procs
  BY HeadOfFacts
<1> QED BY <1>1, HeadOfFacts DEF HasFirst, FirstOf, Live, Of

(* A walk starts at the system process, the first of the list. *)
LEMMA WalkBegins ==
    ASSUME NEW r \in Ranks, Good(flink, state, loaded, r), NEW S, NEW E,
           Kept(flink, state, loaded, S, E, r), StartWalk
    PROVE  Walking(S, E, r, pc', entry', flink_entry', iter', eprocs')
<1>1. pc' = "flink" /\ entry' = System /\ iter' = 0 /\ eprocs' = <<>>
  BY DEF StartWalk
<1>2. Sought(S, E, r, PsHead, <<>>, System)
  BY SoughtAtFirst, PsHeadFacts
<1>3. Len(<<>>) = 0 /\ 0 < MaxIter
  BY IterAssumption
<1> QED BY <1>1, <1>2, <1>3 DEF Walking

(* What is read from a link is near, and stays so. *)
LEMMA LinkIsRead ==
    ASSUME NEW r \in Ranks, NEW f, NEW st, NEW ld, Good(f, st, ld, r),
           NEW S, NEW E, Kept(f, st, ld, S, E, r), NEW x, NEW z, NEW n, NEW seq,
           Walking(S, E, r, "flink", x, z, n, seq)
    PROVE  Walking(S, E, r, "blink", x, f[x], n, seq)
<1>1. Sought(S, E, r, PsHead, seq, x) /\ n = Len(seq) /\ n < MaxIter
  BY DEF Walking
<1>2. x = PsHead \/ (x \in E /\ x \in Items /\ HeadOf(x) = PsHead)
  BY <1>1 DEF Sought, Of, Kept, Owned
<1>3. x \in Items => Follows(S, E, r, x, f[x])
  BY <1>2, PsHeadFacts DEF Kept, Linkage
<1>4. x = PsHead => f[x] = System
  BY DEF Good, GuestTypes
<1> QED BY <1>1, <1>2, <1>3, <1>4 DEF Walking

(* The walk ends at the head, where every steady process was passed ...    *)
LEMMA WalkEnds ==
    ASSUME NEW r \in Ranks, NEW f, NEW st, NEW ld, Good(f, st, ld, r),
           NEW S, NEW E, Kept(f, st, ld, S, E, r), NEW x, NEW z, NEW n, NEW seq,
           Walking(S, E, r, "blink", x, z, n, seq),
           z \in {Null, System, x} \/ f[x] = Null
    PROVE  Found(S, E, r, PsHead, seq)
<1>1. Sought(S, E, r, PsHead, seq, x) /\ E \in SUBSET Items /\ S \in SUBSET E /\ InOrder(st, E, r)
  BY DEF Walking, Kept, Owned
<1>2. x = PsHead
  <2> SUFFICES ASSUME x # PsHead PROVE FALSE
    OBVIOUS
  <2>1. x \in E /\ HeadOf(x) = PsHead
    BY <1>1 DEF Sought, Of
  <2>2. Follows(S, E, r, x, z) /\ Follows(S, E, r, x, f[x])
    BY <2>1, PsHeadFacts DEF Walking, Kept, Linkage
  <2>3. z # System /\ z # x /\ z \in Nodes /\ f[x] \in Nodes
    BY <1>1, <2>1, <2>2, PsHeadFacts, LinkLeadsOn
  <2> QED BY <2>3, NodesAssumption
<1> QED BY <1>1, <1>2, SoughtAtEnd, PsHeadFacts

(* ... or goes on to a process that none is before ...                     *)
LEMMA WalkGoesOn ==
    ASSUME NEW r \in Ranks, NEW f, NEW st, NEW ld, Good(f, st, ld, r),
           NEW S, NEW E, Kept(f, st, ld, S, E, r), NEW x, NEW z, NEW n, NEW seq,
           Walking(S, E, r, "blink", x, z, n, seq), z # System
    PROVE  /\ Sought(S, E, r, PsHead, Append(seq, x), z)
           /\ n + 1 = Len(Append(seq, x)) /\ n + 1 \in Nat /\ n + 1 <= MaxIter
<1>1. Sought(S, E, r, PsHead, seq, x) /\ n = Len(seq) /\ n < MaxIter
  BY DEF Walking
<1>2. E \in SUBSET Items /\ S \in SUBSET E /\ InOrder(st, E, r)
  BY DEF Kept, Owned
<1>3. x \in Items /\ Follows(S, E, r, x, z)
  BY DEF Walking
<1>4. Sought(S, E, r, PsHead, Append(seq, x), z) /\ Len(Append(seq, x)) = Len(seq) + 1
  BY <1>1, <1>2, <1>3, PsHeadFacts, SoughtGoesOn
<1>5. Len(seq) \in Nat
  BY <1>1 DEF Sought
<1>6. MaxIter \in Nat
  BY IterAssumption
<1> QED BY <1>1, <1>4, <1>5, <1>6

(* ... and where it stops for its length every process was found.          *)
LEMMA WalkIsFull ==
    ASSUME NEW r \in Ranks, NEW S, NEW E \in SUBSET Items, S \in SUBSET E,
           NEW seq, NEW z, Sought(S, E, r, PsHead, seq, z), Len(seq) = MaxIter
    PROVE  Found(S, E, r, PsHead, seq)
<1>1. seq \in Seq(Of(E, PsHead)) /\ Rising(r, seq)
  BY DEF Sought
<1>2. Of(E, PsHead) = E \cap Procs /\ Of(S, PsHead) = S \cap Procs
  BY PsHeadFacts
<1>3. seq \in Seq(Items) /\ seq \in Seq(Procs)
  BY <1>1, <1>2 DEF Items
<1>4. IsInjective(seq)
  BY <1>1, <1>3, RisingIsInjective
<1>5. Len(seq) <= Cardinality(Procs) /\ (Len(seq) = Cardinality(Procs) => ToSet(seq) = Procs)
  BY <1>3, <1>4, IterAssumption, InjectiveInto
<1>6. Cardinality(Procs) \in Nat /\ Cardinality(Procs) <= MaxIter /\ MaxIter \in Nat
  BY IterAssumption, FS_CardinalityType
<1>7. ToSet(seq) = Procs
  BY <1>5, <1>6
<1> QED BY <1>1, <1>2, <1>7 DEF Found

(* A step of the guest does not lead a walk astray. *)
LEMMA WalkStays ==
    ASSUME NEW r \in Ranks, NEW r2 \in Ranks, NEW S, NEW E, NEW S2, NEW E2, E \in SUBSET Items,
           S \in SUBSET E, S2 \subseteq S, E \subseteq E2, \A y \in E : r2[y] = r[y],
           NEW at, NEW x, NEW z, NEW n, NEW seq, Walking(S, E, r, at, x, z, n, seq)
    PROVE  Walking(S2, E2, r2, at, x, z, n, seq)
<1>1. Found(S, E, r, PsHead, seq) => Found(S2, E2, r2, PsHead, seq)
  BY SoughtStays
<1>2. Sought(S, E, r, PsHead, seq, x) => Sought(S2, E2, r2, PsHead, seq, x)
  BY SoughtStays, PsHeadFacts
<1>3. Sought(S, E, r, PsHead, seq, x) /\ x \in Items => x \in E
  BY PsHeadFacts DEF Sought, Of
<1>4. x \in E /\ Follows(S, E, r, x, z) => Follows(S2, E2, r2, x, z)
  BY SoughtStays
<1> QED BY <1>1, <1>2, <1>3, <1>4 DEF Walking

(* Where nothing is known of a walk. *)
LEMMA NoWalk ==
    ASSUME NEW S, NEW E, NEW r, NEW at, NEW x, NEW z, NEW n, NEW seq,
           at \notin {"flink", "blink", "eprocess", "context"}
    PROVE  Walking(S, E, r, at, x, z, n, seq)
BY DEF Walking

LEMMA WalkFails ==
    ASSUME NEW r \in Ranks, Good(flink, state, loaded, r), NEW S, NEW E,
           Kept(flink, state, loaded, S, E, r), Fail
    PROVE  Walking(S, E, r, pc', entry', flink_entry', iter', eprocs')
<1>1. StartWalk \/ pc' = "idle"
  BY DEF Fail, Return
<1> QED BY <1>1, WalkBegins, NoWalk

LEMMA WalkProceeds ==
    ASSUME NEW r \in Ranks, Good(flink, state, loaded, r), NEW S, NEW E,
           Kept(flink, state, loaded, S, E, r), Reading,
           Walking(S, E, r, pc, entry, flink_entry, iter, eprocs)
    PROVE  Walking(S, E, r, pc', entry', flink_entry', iter', eprocs')
<1>1. CASE WalkFlink
  <2>1. CASE Fail
    BY <2>1, WalkFails
  <2>2. CASE /\ flink_entry' = flink[entry] /\ pc' = "blink"
             /\ UNCHANGED <<entry, iter, lists>>
    <3>1. Walking(S, E, r, "flink", entry, flink_entry, iter, eprocs)
      BY <1>1 DEF WalkFlink
    <3>2. Walking(S, E, r, "blink", entry, flink[entry], iter, eprocs)
      BY <3>1, LinkIsRead
    <3> QED BY <2>2, <3>2 DEF lists
  <2> QED BY <1>1, <2>1, <2>2 DEF WalkFlink
<1>2. CASE WalkBlink
  <2>0. Walking(S, E, r, "blink", entry, flink_entry, iter, eprocs)
    BY <1>2 DEF WalkBlink
  <2>1. CASE Fail
    BY <2>1, WalkFails
  <2>2. CASE Ends /\ pc' = "eprocess" /\ UNCHANGED eprocs
    <3>1. Found(S, E, r, PsHead, eprocs)
      BY <2>0, <2>2, WalkEnds DEF Ends
    <3> QED BY <2>2, <3>1 DEF Walking
  <2>3. CASE /\ ~Ends /\ eprocs' = Append(eprocs, entry) /\ entry' = flink_entry /\ iter' = iter + 1
             /\ IF iter + 1 = MaxIter THEN pc' = "eprocess" ELSE pc' = "flink"
    <3>1. /\ Sought(S, E, r, PsHead, eprocs', flink_entry) /\ iter + 1 = Len(eprocs')
          /\ iter + 1 \in Nat /\ iter + 1 <= MaxIter
      BY <2>0, <2>3, WalkGoesOn DEF Ends
    <3>2. CASE iter + 1 = MaxIter
      <4>1. Found(S, E, r, PsHead, eprocs') /\ pc' = "eprocess"
        <5>1. E \in SUBSET Items /\ S \in SUBSET E
          BY DEF Kept, Owned
        <5> QED BY <2>3, <3>1, <3>2, <5>1, WalkIsFull
      <4> QED BY <4>1 DEF Walking
    <3>3. CASE iter + 1 # MaxIter
      <4>1. iter + 1 < MaxIter
        BY <3>1, <3>3, IterAssumption
      <4> QED BY <2>3, <3>1, <3>3, <4>1 DEF Walking
    <3> QED BY <3>2, <3>3
  <2>4. \/ Fail
        \/ Ends /\ pc' = "eprocess" /\ UNCHANGED eprocs
        \/ /\ ~Ends /\ eprocs' = Append(eprocs, entry) /\ entry' = flink_entry /\ iter' = iter + 1
           /\ IF iter + 1 = MaxIter THEN pc' = "eprocess" ELSE pc' = "flink"
    BY <1>2 DEF WalkBlink
  <2> QED BY <2>1, <2>2, <2>3, <2>4
<1>3. CASE EprocessFields \/ ProcessContext
  <2>1. pc \in {"eprocess", "context"} /\ pc' \in {"eprocess", "context"} /\ eprocs' = eprocs
    BY <1>3 DEF EprocessFields, ProcessContext
  <2> QED BY <2>1 DEF Walking
<1>4. CASE Candidate \/ ModFlink \/ KernelModules
  <2>1. Fail \/ StartWalk \/ pc' \in {"mod_flink", "mod_info", "idle"}
    BY <1>4 DEF Candidate, StartModules, ModFlink, KernelModules, Return
  <2> QED BY <2>1, WalkFails, WalkBegins, NoWalk
<1>5. CASE InfosDone \/ ModInfo \/ NextList \/ ModulesDone \/ Tried \/ ReadKbase
  <2>1. pc' \in {"idle", "candidate", "mod_info", "mod_flink", "kbase"}
    BY <1>5 DEF InfosDone, ModInfo, NextList, ModulesDone, Tried, ReadKbase, AllRead, Return
  <2> QED BY <2>1, NoWalk
<1> QED BY <1>1, <1>2, <1>3, <1>4, <1>5 DEF Reading

----------------------------------------------------------------------------
(* The data of a call *)

(* What a walk of the modules of list h comes to, and what is seen of the  *)
(* modules of a, a process or the kernel.                                  *)
NodesOf(h)   == {x \in Entries \cup ModHeads : HeadOf(x) = h} \cup {Junk}
Sightings(a) == {m \in [entry : Nodes \cup {Junk}, name : {Module[e].name : e \in Entries} \cup {Junk}] :
                    \/ m.name = Junk
                    \/ /\ m.entry \in Entries /\ Module[m.entry].list[1] = a
                       /\ m.name = Module[m.entry].name}

WalkPcs   == {"flink", "blink", "eprocess", "context"}
ModulePcs == {"mod_flink", "mod_info"}

CallTyped ==
    /\ call \in Requests \cup {NoCall} /\ names \in Seq(DOMAIN short)
    /\ names # <<>> => call.op \in {"info", "keyboard"}
    /\ process \in Origins \cup {NoInfo}

WalkTyped ==
    pc \in WalkPcs =>
        infos \in Seq(Origins) /\ (call.op \in {"info", "keyboard"} => names # <<>>)

ContextTyped ==
    pc = "context" => \E p \in Procs : ~Process[p].kernel /\ info = Fields(p)

(* The candidates bear the name that is sought. *)
Named(seq, n) == seq \in Seq(Origins) /\ \A i \in DOMAIN seq : seq[i].name = short[n]

CandidatesNamed ==
    /\ pc \in {"candidate", "kbase"} => names # <<>>
    /\ pc = "kbase" => call.op = "keyboard"
    /\ pc \in {"candidate", "kbase"} \cup ModulePcs /\ names # <<>> => Named(candidates, Head(names))
    /\ pc \in {"kbase"} \cup ModulePcs /\ names # <<>> => candidates # <<>>

ModulesOf(a) ==
    /\ module_infos \in Seq(Bases) /\ module_infos # <<>>
    /\ \A k \in DOMAIN module_infos : module_infos[k].list[1] = a
    /\ list \in Seq(NodesOf(Head(module_infos).list)) /\ modules \in Seq(Sightings(a))
    /\ pc = "mod_flink" => entry \in NodesOf(Head(module_infos).list)

ModulesTyped ==
    pc \in ModulePcs =>
        \E a \in Procs \cup {Kernel} :
            ModulesOf(a) /\ (names # <<>> => Head(candidates).address = a)

(* A process and a module of the name that is sought was seen in it. *)
Seen(i) ==
    /\ i.name = short[Head(names)]
    /\ \E k \in DOMAIN modules :
          /\ modules[k].name = Head(names)
          /\ Module[modules[k].entry].list[1] = i.address

SeenIsSeen ==
    /\ pc = "kbase" => Seen(Head(candidates))
    /\ pc = "idle" /\ call.op \in {"info", "keyboard"} /\ result.status = "ok" =>
          Seen(IF call.op = "info" THEN process ELSE keyboard)

SearchInv ==
    /\ CallTyped /\ WalkTyped /\ ContextTyped /\ CandidatesNamed /\ ModulesTyped /\ SeenIsSeen

LEMMA StartWalkTyped ==
    ASSUME StartWalk, CallTyped', call'.op \in {"info", "keyboard"} => names' # <<>>
    PROVE  SearchInv'
<1>1. pc' = "flink" /\ infos' = <<>>
  BY DEF StartWalk
<1>2. WalkTyped'
  BY <1>1 DEF WalkTyped
<1>3. ContextTyped' /\ CandidatesNamed' /\ ModulesTyped' /\ SeenIsSeen'
  BY <1>1 DEF ContextTyped, CandidatesNamed, ModulesTyped, SeenIsSeen, ModulePcs
<1> QED BY <1>2, <1>3 DEF SearchInv

LEMMA IdleTyped ==
    ASSUME pc' = "idle", CallTyped',
           (call.op \in {"info", "keyboard"} /\ result.status = "ok" =>
               Seen(IF call.op = "info" THEN process ELSE keyboard))'
    PROVE  SearchInv'
<1>1. WalkTyped' /\ ContextTyped' /\ CandidatesNamed' /\ ModulesTyped' /\ SeenIsSeen'
  BY DEF WalkTyped, WalkPcs, ContextTyped, CandidatesNamed, ModulesTyped, SeenIsSeen, ModulePcs
<1> QED BY <1>1 DEF SearchInv

LEMMA ErrorTyped ==
    ASSUME NEW x, Return(x), x = Error \/ call'.op \notin {"info", "keyboard"}, CallTyped'
    PROVE  SearchInv'
<1>1. pc' = "idle" /\ result' = x /\ Error.status # "ok"
  BY DEF Return, Error
<1> QED BY <1>1, IdleTyped

LEMMA TailStays ==
    ASSUME NEW T, NEW s \in Seq(T), Len(s) > 1
    PROVE  Tail(s) \in Seq(T) /\ Tail(s) # <<>> /\ s # <<>>
<1> DEFINE t == Tail(s)
<1>1. Len(t) = Len(s) - 1 /\ t \in Seq(T) /\ Len(s) \in Nat
  OBVIOUS
<1> HIDE DEF t
<1>2. t # <<>> /\ s # <<>>
  BY <1>1
<1> QED BY <1>1, <1>2 DEF t

LEMMA FailTyped ==
    ASSUME Fail, CallTyped, call' = call, process' = process
    PROVE  SearchInv'
<1>0. names \in Seq(DOMAIN short) /\ (names # <<>> => call.op \in {"info", "keyboard"})
  BY DEF CallTyped
<1>1. CASE Len(names) > 1 /\ names' = Tail(names) /\ StartWalk
  <2>1. names' \in Seq(DOMAIN short) /\ names' # <<>> /\ names # <<>>
    BY <1>0, <1>1, TailStays
  <2>2. CallTyped'
    BY <1>0, <2>1 DEF CallTyped
  <2> QED BY <1>1, <2>1, <2>2, StartWalkTyped
<1>2. CASE Return(Error) /\ UNCHANGED names
  <2>1. CallTyped'
    BY <1>2 DEF CallTyped
  <2> QED BY <1>2, <2>1, ErrorTyped
<1> QED BY <1>1, <1>2 DEF Fail

LEMMA StartModulesTyped ==
    ASSUME NEW i \in Origins, StartModules(i), CallTyped',
           (names # <<>> => Named(candidates, Head(names)) /\ candidates # <<>>)',
           names' # <<>> => Head(candidates').address = i.address
    PROVE  SearchInv'
<1> DEFINE h == Natives(i.address)
           a == i.address
<1>1. /\ pc' = "mod_flink" /\ modules' = <<>> /\ list' = <<>>
      /\ module_infos' = ListsOf(i) /\ entry' = i.native
  BY DEF StartModules
<1>2. /\ a \in Procs \cup {Kernel}
      /\ i.native = Junk \/ Based(i.native, h)
  BY DEF Origins, Infos
<1>3. i.native \in NodesOf(h)
  <2>1. Based(i.native, h) => i.native \in Entries /\ HeadOf(i.native) = h
    BY FirstEntry DEF Based
  <2> QED BY <1>2, <2>1 DEF NodesOf
<1>4. /\ ListsOf(i) \in Seq(Bases) /\ ListsOf(i) # <<>> /\ Head(ListsOf(i)).list = h
      /\ \A k \in DOMAIN ListsOf(i) : ListsOf(i)[k].list[1] = a
  BY ListsOfIs
<1> HIDE DEF h, a
<1>5. ModulesOf(a)'
  BY <1>1, <1>3, <1>4 DEF ModulesOf, h
<1>6. ModulesTyped'
  BY <1>2, <1>5 DEF ModulesTyped, a
<1>7. WalkTyped' /\ ContextTyped' /\ SeenIsSeen'
  BY <1>1 DEF WalkTyped, WalkPcs, ContextTyped, SeenIsSeen
<1>8. CandidatesNamed'
  BY <1>1 DEF CandidatesNamed
<1> QED BY <1>6, <1>7, <1>8 DEF SearchInv

(* A call begins. *)
LEMMA CallingTyped ==
    ASSUME Tidy, SearchInv, Calling
    PROVE  SearchInv'
<1>1. PICK r \in Requests : \/ CallWalk(r) \/ CallKernel(r) \/ CallModules(r)
                            \/ \E down \in {{}, {0}, {r.vk}} : KeyState(r, down)
  BY DEF Calling
<1>2. /\ call' = r /\ names' = IF r.op = "keyboard" THEN <<>> ELSE r.names
      /\ keyboard' = keyboard
  BY <1>1 DEF CallWalk, CallKernel, CallModules, KeyState, Call
<1>3. /\ r.op \in {"list", "info", "pid", "modules", "keyboard", "keys"}
      /\ r.names \in Seq(DOMAIN short) /\ (r.names # <<>> <=> r.op \in {"info", "keyboard"})
  BY RequestsAssumption
<1>4. /\ call'.op = r.op /\ names' \in Seq(DOMAIN short) /\ (names' # <<>> <=> r.op = "info")
      /\ call' \in Requests \cup {NoCall}
  <2>1. call' = r /\ call'.op = r.op /\ call' \in Requests \cup {NoCall}
    BY <1>2
  <2>2. CASE r.op = "keyboard"
    <3>1. names' = <<>> /\ r.op # "info" /\ <<>> \in Seq(DOMAIN short)
      BY <1>2, <2>2
    <3> QED BY <2>1, <3>1
  <2>3. CASE r.op # "keyboard"
    <3>1. names' = r.names
      BY <1>2, <2>3
    <3> QED BY <1>3, <2>1, <2>3, <3>1
  <2> QED BY <2>2, <2>3
<1>5. process \in Origins \cup {NoInfo} /\ kernel_process_info \in Origins
  BY KernelIsKnown DEF SearchInv, CallTyped
<1>6. process' \in Origins \cup {NoInfo} => CallTyped'
  BY <1>4 DEF CallTyped
<1>7. CASE CallWalk(r)
  <2>1. StartWalk /\ process' = process /\ r.op # "keyboard"
    BY <1>3, <1>7 DEF CallWalk
  <2> QED BY <1>4, <1>5, <1>6, <2>1, StartWalkTyped
<1>8. CASE CallKernel(r)
  <2>1. CASE r.op = "pid" /\ process' = kernel_process_info /\ Return(Ok(<<kernel_process_info>>))
    BY <1>4, <1>5, <1>6, <2>1, ErrorTyped
  <2>2. CASE r.op = "keyboard" /\ StartModules(kernel_process_info) /\ UNCHANGED process
    BY <1>4, <1>5, <1>6, <2>2, StartModulesTyped
  <2>3. CASE Return(Error) /\ UNCHANGED process
    BY <1>4, <1>5, <1>6, <2>3, ErrorTyped
  <2> QED BY <1>8, <2>1, <2>2, <2>3 DEF CallKernel
<1>9. CASE CallModules(r)
  <2>1. r.op = "modules" /\ process # NoInfo /\ StartModules(process) /\ UNCHANGED process
    BY <1>9 DEF CallModules
  <2> QED BY <1>4, <1>5, <1>6, <2>1, StartModulesTyped
<1>10. CASE \E down \in {{}, {0}, {r.vk}} : KeyState(r, down)
  <2>1. r.op = "keys" /\ UNCHANGED process /\ \E x : Return(x)
    BY <1>10 DEF KeyState
  <2> QED BY <1>4, <1>5, <1>6, <2>1, ErrorTyped
<1> QED BY <1>1, <1>7, <1>8, <1>9, <1>10

LEMMA TypedFlink ==
    ASSUME SearchInv, WalkFlink
    PROVE  SearchInv'
<1>1. CASE Fail /\ process' = process
  BY <1>1, FailTyped DEF WalkFlink, Reader, SearchInv
<1>2. CASE /\ pc' = "blink"
           /\ UNCHANGED <<names, entry, iter, lists, client>>
  <2>1. /\ call' = call /\ pc = "flink" /\ names' = names /\ infos' = infos /\ process' = process
    BY <1>2 DEF WalkFlink, Reader, lists, client
  <2>2. CallTyped' /\ WalkTyped'
    BY <1>2, <2>1 DEF SearchInv, CallTyped, WalkTyped, WalkPcs
  <2>3. ContextTyped' /\ CandidatesNamed' /\ ModulesTyped' /\ SeenIsSeen'
    BY <1>2 DEF ContextTyped, CandidatesNamed, ModulesTyped, SeenIsSeen, ModulePcs
  <2> QED BY <2>2, <2>3 DEF SearchInv
<1> QED BY <1>1, <1>2 DEF WalkFlink

LEMMA TypedBlink ==
    ASSUME SearchInv, WalkBlink
    PROVE  SearchInv'
<1>1. CASE Fail /\ process' = process
  BY <1>1, FailTyped DEF WalkBlink, Reader, SearchInv
<1>2. CASE /\ pc' \in {"flink", "eprocess"}
           /\ UNCHANGED <<names, infos, client>>
  <2>1. /\ call' = call /\ pc = "blink" /\ names' = names /\ infos' = infos /\ process' = process
    BY <1>2 DEF WalkBlink, Reader, client
  <2>2. CallTyped' /\ WalkTyped'
    BY <1>2, <2>1 DEF SearchInv, CallTyped, WalkTyped, WalkPcs
  <2>3. ContextTyped' /\ CandidatesNamed' /\ ModulesTyped' /\ SeenIsSeen'
    BY <1>2 DEF ContextTyped, CandidatesNamed, ModulesTyped, SeenIsSeen, ModulePcs
  <2> QED BY <2>2, <2>3 DEF SearchInv
<1> QED BY <1>1, <1>2 DEF WalkBlink

LEMMA TypedFields ==
    ASSUME SearchInv, EprocessFields
    PROVE  SearchInv'
<1>1. /\ pc = "eprocess" /\ call' = call /\ names' = names /\ infos' = infos /\ process' = process
      /\ \/ pc' = "eprocess"
         \/ pc' = "context" /\ HasPeb(Head(list)) /\ info' = Fields(Head(list))
  BY DEF EprocessFields, Reader, client, Fields
<1>2. CallTyped' /\ WalkTyped'
  BY <1>1 DEF SearchInv, CallTyped, WalkTyped, WalkPcs
<1>3. ContextTyped'
  BY <1>1 DEF ContextTyped, HasPeb
<1>4. CandidatesNamed' /\ ModulesTyped' /\ SeenIsSeen'
  BY <1>1 DEF CandidatesNamed, ModulesTyped, SeenIsSeen, ModulePcs
<1> QED BY <1>2, <1>3, <1>4 DEF SearchInv

LEMMA TypedContext ==
    ASSUME Tidy, SearchInv, ProcessContext
    PROVE  SearchInv'
<1>1. /\ pc = "context" /\ call' = call /\ names' = names /\ process' = process /\ pc' = "eprocess"
  BY DEF ProcessContext, Reader, client
<1>2. PICK p \in Procs : ~Process[p].kernel /\ info = Fields(p)
  BY <1>1 DEF SearchInv, ContextTyped
<1>3. infos \in Seq(Origins)
  BY <1>1 DEF SearchInv, WalkTyped, WalkPcs
<1>4. infos' \in Seq(Origins)
  <2> DEFINE w == IF Process[p].wow64 /\ Process[p].teb THEN flink[Wow64s(p)] ELSE Null
             i1 == Filled(p, flink[Natives(p)], w)
             i2 == WithoutContext(p, Junk)
  <2>1. info.address = p /\ info.wow64 = Process[p].wow64 /\ info.teb = Process[p].teb
    BY <1>2, FieldsIs DEF InfoWith
  <2>2. \/ infos' = infos
        \/ Running(p) /\ infos' = Append(infos, i1)
        \/ infos' = Append(infos, i2)
    <3>1. \/ infos' = infos
          \/ Running(info.address) /\ infos' = Append(infos, [info EXCEPT
                !.native = flink[Natives(info.address)],
                !.wow = IF info.wow64 /\ info.teb THEN flink[Wow64s(info.address)] ELSE Null])
          \/ infos' = Append(infos, [info EXCEPT !.native = Junk])
      BY DEF ProcessContext
    <3>2. CASE Running(info.address) /\ infos' = Append(infos, [info EXCEPT
                !.native = flink[Natives(info.address)],
                !.wow = IF info.wow64 /\ info.teb THEN flink[Wow64s(info.address)] ELSE Null])
      <4>1. Running(p) /\ infos' = Append(infos, [Fields(p) EXCEPT !.native = flink[Natives(p)], !.wow = w])
        BY <1>2, <2>1, <3>2
      <4> QED BY <4>1 DEF Filled
    <3>3. CASE infos' = Append(infos, [info EXCEPT !.native = Junk])
      BY <1>2, <3>3 DEF WithoutContext
    <3> QED BY <3>1, <3>2, <3>3
  <2>3. i2 \in Origins /\ (Running(p) => i1 \in Origins)
    BY <1>2, ProcessIsKnown
  <2> HIDE DEF i1, i2
  <2> QED BY <1>3, <2>2, <2>3
<1>5. CallTyped' /\ WalkTyped'
  BY <1>1, <1>4 DEF SearchInv, CallTyped, WalkTyped, WalkPcs
<1>6. ContextTyped' /\ CandidatesNamed' /\ ModulesTyped' /\ SeenIsSeen'
  BY <1>1 DEF ContextTyped, CandidatesNamed, ModulesTyped, SeenIsSeen, ModulePcs
<1> QED BY <1>5, <1>6 DEF SearchInv

LEMMA TypedInfos ==
    ASSUME SearchInv, InfosDone
    PROVE  SearchInv'
<1>1. /\ pc = "eprocess" /\ call' = call /\ names' = names
  BY DEF InfosDone, Reader
<1>2. infos \in Seq(Origins) /\ (call.op \in {"info", "keyboard"} => names # <<>>) /\ CallTyped
  BY <1>1 DEF SearchInv, WalkTyped, WalkPcs
<1>3. CASE call.op = "list" /\ Return(Ok(infos)) /\ UNCHANGED process
  <2>1. CallTyped'
    BY <1>1, <1>2, <1>3 DEF CallTyped
  <2> QED BY <1>1, <1>3, <2>1, ErrorTyped
<1>4. CASE call.op = "pid" /\ pc' # "candidate"
  <2> DEFINE i == SelectInSeq(infos, LAMBDA x : x.pid = call.pid)
  <2>1. IF i = 0 THEN Return(Error) /\ UNCHANGED process
        ELSE Return(Ok(<<infos[i]>>)) /\ process' = infos[i]
    BY <1>4 DEF InfosDone
  <2>2. i = 0 \/ i \in DOMAIN infos
    <3> DEFINE I == {k \in 1..Len(infos) : infos[k].pid = call.pid}
    <3>1. i = IF I # {} THEN Min(I) ELSE 0
      BY DEF SelectInSeq
    <3>2. I \in SUBSET Nat /\ I \subseteq DOMAIN infos
      BY <1>2
    <3> HIDE DEF i, I
    <3>3. I # {} => Min(I) \in I
      BY <3>2, LeastNumber DEF Min
    <3> QED BY <3>1, <3>2, <3>3
  <2> HIDE DEF i
  <2>3. process' \in Origins \cup {NoInfo}
    BY <1>2, <2>1, <2>2 DEF CallTyped
  <2>4. CallTyped'
    BY <1>1, <1>2, <2>3 DEF CallTyped
  <2> QED BY <1>1, <1>4, <2>1, <2>4, ErrorTyped
<1>5. CASE /\ call.op \in {"info", "keyboard"} /\ candidates' = named(Head(names))
           /\ pc' = "candidate" /\ UNCHANGED process
  <2>1. Named(candidates, Head(names))'
    <3>1. Named(named(Head(names)), Head(names))
      BY <1>2, NamedIs DEF Named
    <3> QED BY <1>1, <1>5, <3>1 DEF Named
  <2>2. CandidatesNamed'
    BY <1>1, <1>2, <1>5, <2>1 DEF CandidatesNamed, ModulePcs
  <2>3. CallTyped'
    BY <1>1, <1>2, <1>5 DEF CallTyped
  <2>4. WalkTyped' /\ ContextTyped' /\ ModulesTyped' /\ SeenIsSeen'
    BY <1>5 DEF WalkTyped, WalkPcs, ContextTyped, ModulesTyped, SeenIsSeen, ModulePcs
  <2> QED BY <2>2, <2>3, <2>4 DEF SearchInv
<1> QED BY <1>3, <1>4, <1>5 DEF InfosDone, Return

LEMMA TypedCandidate ==
    ASSUME SearchInv, Candidate
    PROVE  SearchInv'
<1>1. pc = "candidate" /\ call' = call /\ process' = process
  BY DEF Candidate, Reader
<1>2. names # <<>> /\ Named(candidates, Head(names)) /\ CallTyped
  BY <1>1 DEF SearchInv, CandidatesNamed
<1>3. CASE Fail
  BY <1>1, <1>2, <1>3, FailTyped
<1>4. CASE candidates # <<>> /\ StartModules(Head(candidates)) /\ UNCHANGED <<names, candidates>>
  <2>1. Head(candidates) \in Origins
    BY <1>2, <1>4 DEF Named
  <2>2. CallTyped'
    BY <1>1, <1>2, <1>4 DEF CallTyped
  <2>3. Named(candidates, Head(names))' /\ candidates' # <<>>
    BY <1>2, <1>4 DEF Named
  <2>4. Head(candidates').address = Head(candidates).address
    BY <1>4
  <2> QED BY <1>4, <2>1, <2>2, <2>3, <2>4, StartModulesTyped
<1> QED BY <1>3, <1>4 DEF Candidate

(* No link leaves its list. *)
LEMMA NextNode ==
    ASSUME Tidy, NEW h \in ModHeads, NEW x \in NodesOf(h), x \in Nodes
    PROVE  flink[x] \in NodesOf(h) \cup {Null, Odd}
<1>1. x \in Entries \cup ModHeads /\ HeadOf(x) = h
  BY NodesAssumption DEF NodesOf
<1>2. flink[x] \in Nodes \cup {Null, Junk, Odd}
  BY TidyFacts
<1>3. CASE flink[x] \in Nodes
  <2>1. HeadOf(flink[x]) = h
    BY <1>1, <1>3, TidyFacts
  <2>2. flink[x] \notin Procs /\ flink[x] # PsHead
    BY <2>1, HeadOfFacts
  <2> QED BY <1>3, <2>1, <2>2 DEF Nodes, Heads, NodesOf
<1> QED BY <1>2, <1>3 DEF NodesOf

LEMMA TypedModFlink ==
    ASSUME Tidy, SearchInv, ModFlink
    PROVE  SearchInv'
<1>1. pc = "mod_flink" /\ call' = call /\ CallTyped
  BY DEF ModFlink, Reader, SearchInv
<1>2. CASE Fail /\ process' = process
  BY <1>1, <1>2, FailTyped
<1>3. CASE /\ list' = Append(list, entry)
           /\ \E next \in IF Readable(entry) THEN {flink[entry]}
                          ELSE IF entry \in Nodes THEN {Junk, Odd} ELSE {} :
                IF LastModule(next) \/ iter + 1 = MaxIter
                THEN pc' = "mod_info" /\ UNCHANGED entry
                ELSE entry' = next /\ UNCHANGED pc
           /\ UNCHANGED <<names, candidates, module_infos, modules, client>>
  <2> DEFINE h == Head(module_infos).list
  <2>1. PICK a \in Procs \cup {Kernel} :
            ModulesOf(a) /\ (names # <<>> => Head(candidates).address = a)
    BY <1>1 DEF SearchInv, ModulesTyped, ModulePcs
  <2>2. /\ Head(module_infos) \in Bases /\ h \in ModHeads
        /\ list \in Seq(NodesOf(h)) /\ entry \in NodesOf(h)
    BY <1>1, <2>1 DEF ModulesOf, Bases
  <2> HIDE DEF h
  <2>3. list' \in Seq(NodesOf(h))
    BY <1>3, <2>2
  <2>4. pc' = "mod_info" \/ (pc' = "mod_flink" /\ entry' \in NodesOf(h))
    <3>1. PICK next \in IF Readable(entry) THEN {flink[entry]}
                        ELSE IF entry \in Nodes THEN {Junk, Odd} ELSE {} :
                IF LastModule(next) \/ iter + 1 = MaxIter
                THEN pc' = "mod_info" /\ UNCHANGED entry
                ELSE entry' = next /\ UNCHANGED pc
      BY <1>3
    <3>2. next \in NodesOf(h) \cup {Null, Odd}
      <4>1. Junk \in NodesOf(h)
        BY DEF NodesOf
      <4> QED BY <2>2, <3>1, <4>1, NextNode DEF Readable
    <3>3. next \in {Null, Odd} => LastModule(next)
      BY DEF LastModule
    <3> QED BY <1>1, <3>1, <3>2, <3>3
  <2>5. ModulesOf(a)'
    BY <1>3, <2>1, <2>3, <2>4 DEF ModulesOf, h
  <2>6. ModulesTyped'
    BY <1>3, <2>1, <2>5 DEF ModulesTyped
  <2>7. CallTyped' /\ CandidatesNamed'
    BY <1>1, <1>3, <2>4 DEF SearchInv, CallTyped, CandidatesNamed, Named, ModulePcs, client
  <2>8. WalkTyped' /\ ContextTyped' /\ SeenIsSeen'
    BY <2>4 DEF WalkTyped, WalkPcs, ContextTyped, SeenIsSeen
  <2> QED BY <2>6, <2>7, <2>8 DEF SearchInv
<1> QED BY <1>2, <1>3 DEF ModFlink

(* module_info_from_entry *)
LEMMA SeenIs ==
    ASSUME NEW h \in ModHeads, NEW x \in NodesOf(h), NEW m \in InfoOf(x)
    PROVE  m \in Seq(Sightings(h[1]))
<1> DEFINE T == Sightings(h[1])
<1>1. x \in Nodes \cup {Junk} /\ (x \in Entries => Module[x].list = h)
  <2>1. x \in Nodes \cup {Junk}
    BY DEF NodesOf, Nodes, Heads
  <2>2. ASSUME x \in Entries PROVE Module[x].list = h
    <3>1. HeadOf(x) = Module[x].list /\ x # Junk
      BY <2>2, HeadOfFacts, NodesAssumption DEF Nodes
    <3> QED BY <3>1 DEF NodesOf
  <2> QED BY <2>1, <2>2
<1>2. [entry |-> x, name |-> Junk] \in T
  BY <1>1 DEF Sightings
<1>3. x \in Entries => [entry |-> x, name |-> Module[x].name] \in T
  BY <1>1 DEF Sightings, Nodes
<1>4. \/ m = <<>> \/ m = <<[entry |-> x, name |-> Junk]>>
      \/ x \in Entries /\ m = <<[entry |-> x, name |-> Module[x].name]>>
  BY DEF InfoOf
<1> DEFINE s1 == [entry |-> x, name |-> Junk]
           s2 == [entry |-> x, name |-> Module[x].name]
<1> HIDE DEF T
<1>5. m \in Seq(T)
  <2>1. s1 \in T /\ (x \in Entries => s2 \in T) /\ (m = <<>> \/ m = <<s1>> \/ (x \in Entries /\ m = <<s2>>))
    BY <1>2, <1>3, <1>4
  <2> HIDE DEF s1, s2
  <2>2. <<>> \in Seq(T) /\ (s1 \in T => <<s1>> \in Seq(T)) /\ (s2 \in T => <<s2>> \in Seq(T))
    OBVIOUS
  <2> QED BY Zenon, <2>1, <2>2
<1> QED BY <1>5 DEF T

LEMMA TypedModInfo ==
    ASSUME SearchInv, ModInfo
    PROVE  SearchInv'
<1>1. /\ pc = "mod_info" /\ call' = call /\ CallTyped /\ list # <<>> /\ list' = Tail(list)
      /\ UNCHANGED <<pc, names, candidates, module_infos, process>>
      /\ modules' = modules \/ \E m \in InfoOf(Head(list)) : modules' = modules \o m
  BY DEF ModInfo, Reader, SearchInv, client
<1> DEFINE h == Head(module_infos).list
<1>2. PICK a \in Procs \cup {Kernel} :
          ModulesOf(a) /\ (names # <<>> => Head(candidates).address = a)
  BY <1>1 DEF SearchInv, ModulesTyped, ModulePcs
<1>3. /\ h \in ModHeads /\ h[1] = a /\ list \in Seq(NodesOf(h)) /\ modules \in Seq(Sightings(a))
  <2>1. /\ module_infos \in Seq(Bases) /\ module_infos # <<>>
        /\ \A k \in DOMAIN module_infos : module_infos[k].list[1] = a
        /\ list \in Seq(NodesOf(h)) /\ modules \in Seq(Sightings(a))
    BY <1>2 DEF ModulesOf
  <2>2. 1 \in DOMAIN module_infos /\ Head(module_infos) = module_infos[1] /\ module_infos[1] \in Bases
    BY <2>1
  <2> QED BY <2>1, <2>2 DEF Bases
<1> HIDE DEF h
<1>4. Head(list) \in NodesOf(h) /\ list' \in Seq(NodesOf(h))
  BY <1>1, <1>3
<1>5. modules' \in Seq(Sightings(a))
  <2> SUFFICES ASSUME NEW m \in InfoOf(Head(list)), modules' = modules \o m
               PROVE  modules' \in Seq(Sightings(a))
    BY <1>1, <1>3
  <2>1. m \in Seq(Sightings(a))
    BY <1>3, <1>4, SeenIs
  <2> QED BY <1>3, <2>1, ConcatProperties
<1>6. ModulesOf(a)'
  BY <1>1, <1>2, <1>4, <1>5 DEF ModulesOf, h
<1>7. ModulesTyped'
  BY <1>1, <1>2, <1>6 DEF ModulesTyped
<1>8. CallTyped' /\ CandidatesNamed'
  BY <1>1 DEF SearchInv, CallTyped, CandidatesNamed, Named, ModulePcs
<1>9. WalkTyped' /\ ContextTyped' /\ SeenIsSeen'
  BY <1>1 DEF WalkTyped, WalkPcs, ContextTyped, SeenIsSeen
<1> QED BY <1>7, <1>8, <1>9 DEF SearchInv

LEMMA TypedNextList ==
    ASSUME SearchInv, NextList
    PROVE  SearchInv'
<1>1. /\ pc = "mod_info" /\ call' = call /\ CallTyped /\ list = <<>> /\ Len(module_infos) > 1
      /\ module_infos' = Tail(module_infos) /\ entry' = module_infos[2].base /\ pc' = "mod_flink"
      /\ UNCHANGED <<names, candidates, list, modules, process>>
  BY DEF NextList, Reader, SearchInv, client
<1>2. PICK a \in Procs \cup {Kernel} :
          ModulesOf(a) /\ (names # <<>> => Head(candidates).address = a)
  BY <1>1 DEF SearchInv, ModulesTyped, ModulePcs
<1>3. /\ module_infos \in Seq(Bases) /\ modules \in Seq(Sightings(a))
      /\ \A k \in DOMAIN module_infos : module_infos[k].list[1] = a
  BY <1>2 DEF ModulesOf
<1> DEFINE t == module_infos'
<1>4. /\ t \in Seq(Bases) /\ t # <<>> /\ Head(t) = module_infos[2] /\ module_infos[2] \in Bases
      /\ \A k \in DOMAIN t : t[k] = module_infos[k + 1] /\ k + 1 \in DOMAIN module_infos
  BY <1>1, <1>3, TailStays
<1> HIDE DEF t
<1>5. \A k \in DOMAIN t : t[k].list[1] = a
  BY <1>3, <1>4
<1>6. list' \in Seq(NodesOf(Head(t).list)) /\ entry' \in NodesOf(Head(t).list)
  <2> DEFINE m == module_infos[2]
  <2>1. m.base = Junk \/ (m.base \in Entries /\ HeadOf(m.base) = m.list)
    BY <1>4, FirstEntry DEF Bases, Based
  <2> HIDE DEF m
  <2>2. m.base \in NodesOf(m.list)
    BY <2>1 DEF NodesOf
  <2>3. entry' = m.base /\ Head(t) = m /\ list' = <<>>
    BY <1>1, <1>4 DEF m
  <2> QED BY <2>2, <2>3
<1>7. ModulesOf(a)'
  BY <1>1, <1>3, <1>4, <1>5, <1>6 DEF ModulesOf, t
<1>8. ModulesTyped'
  BY <1>1, <1>2, <1>7 DEF ModulesTyped
<1>9. CallTyped' /\ CandidatesNamed'
  BY <1>1 DEF SearchInv, CallTyped, CandidatesNamed, Named, ModulePcs
<1>10. WalkTyped' /\ ContextTyped' /\ SeenIsSeen'
  BY <1>1 DEF WalkTyped, WalkPcs, ContextTyped, SeenIsSeen
<1> QED BY <1>8, <1>9, <1>10 DEF SearchInv

LEMMA TypedDone ==
    ASSUME SearchInv, ModulesDone
    PROVE  SearchInv'
<1>1. call' = call /\ names' = names /\ process' = process /\ call.op = "modules" /\ Return(Ok(modules))
  BY DEF ModulesDone, AllRead, Reader
<1>2. CallTyped'
  BY <1>1 DEF SearchInv, CallTyped
<1> QED BY <1>1, <1>2, ErrorTyped

(* A candidate with a module of its name. *)
LEMMA TriedIsSeen ==
    ASSUME SearchInv, AllRead, names # <<>>
    PROVE  /\ candidates # <<>> /\ Named(candidates, Head(names)) /\ Head(candidates) \in Origins
           /\ Try => Seen(Head(candidates))
<1>1. pc = "mod_info" /\ CallTyped
  BY DEF AllRead, SearchInv
<1>2. candidates # <<>> /\ Named(candidates, Head(names))
  BY <1>1 DEF SearchInv, CandidatesNamed, ModulePcs
<1>3. 1 \in DOMAIN candidates /\ Head(candidates) = candidates[1] /\ candidates[1] \in Origins
  BY <1>2 DEF Named
<1>4. PICK a \in Procs \cup {Kernel} : ModulesOf(a) /\ Head(candidates).address = a
  BY <1>1 DEF SearchInv, ModulesTyped, ModulePcs
<1>5. Head(names) \in DOMAIN short /\ Head(names) # Junk
  BY <1>1, RequestsAssumption DEF CallTyped
<1>6. ASSUME NEW k \in DOMAIN modules, modules[k].name = Head(names)
      PROVE  Module[modules[k].entry].list[1] = a
  <2>1. modules[k] \in Sightings(a)
    BY <1>4 DEF ModulesOf
  <2> QED BY <1>5, <1>6, <2>1 DEF Sightings
<1>7. Try => Seen(Head(candidates))
  BY <1>2, <1>3, <1>4, <1>6 DEF Try, Has, Seen, Named
<1> QED BY <1>2, <1>3, <1>7

LEMMA TypedTried ==
    ASSUME SearchInv, Tried
    PROVE  SearchInv'
<1>1. /\ AllRead /\ pc = "mod_info" /\ call' = call /\ names' = names /\ names # <<>> /\ keyboard' = keyboard
      /\ call.op \in {"info", "keyboard"} /\ CallTyped
  BY DEF Tried, AllRead, Reader, SearchInv
<1>2. /\ candidates # <<>> /\ Named(candidates, Head(names)) /\ Head(candidates) \in Origins
      /\ Try => Seen(Head(candidates))
  BY <1>1, TriedIsSeen
<1>3. CASE ~Try
  <2>1. candidates' = Tail(candidates) /\ pc' = "candidate" /\ process' = process
    BY <1>3 DEF Tried
  <2>2. Named(Tail(candidates), Head(names))
    BY <1>2 DEF Named
  <2>3. CandidatesNamed'
    BY <1>1, <2>1, <2>2 DEF CandidatesNamed, Named, ModulePcs
  <2>4. CallTyped'
    BY <1>1, <2>1 DEF CallTyped
  <2>5. WalkTyped' /\ ContextTyped' /\ ModulesTyped' /\ SeenIsSeen'
    BY <2>1 DEF WalkTyped, WalkPcs, ContextTyped, ModulesTyped, ModulePcs, SeenIsSeen
  <2> QED BY <2>3, <2>4, <2>5 DEF SearchInv
<1>4. CASE Try /\ call.op = "info"
  <2>1. process' = Head(candidates) /\ pc' = "idle" /\ modules' = modules
    BY <1>4 DEF Tried, Return
  <2>2. CallTyped'
    BY <1>1, <1>2, <2>1 DEF CallTyped
  <2>3. Seen(process)'
    BY <1>1, <1>2, <1>4, <2>1 DEF Seen
  <2>4. (call.op \in {"info", "keyboard"} /\ result.status = "ok" =>
               Seen(IF call.op = "info" THEN process ELSE keyboard))'
    BY <1>1, <1>4, <2>3
  <2> QED BY <2>1, <2>2, <2>4, IdleTyped
<1>5. CASE Try /\ call.op # "info"
  <2>1. pc' = "kbase" /\ modules' = modules /\ candidates' = candidates /\ process' = process
    BY <1>5 DEF Tried, lists
  <2>2. Seen(Head(candidates))'
    BY <1>1, <1>2, <1>5, <2>1 DEF Seen
  <2>3. CandidatesNamed'
    BY <1>1, <1>2, <1>5, <2>1 DEF CandidatesNamed, Named
  <2>4. CallTyped' /\ SeenIsSeen'
    BY <1>1, <2>1, <2>2 DEF CallTyped, SeenIsSeen
  <2>5. WalkTyped' /\ ContextTyped' /\ ModulesTyped'
    BY <2>1 DEF WalkTyped, WalkPcs, ContextTyped, ModulesTyped, ModulePcs
  <2> QED BY <2>3, <2>4, <2>5 DEF SearchInv
<1> QED BY <1>3, <1>4, <1>5

LEMMA TypedKernel ==
    ASSUME SearchInv, KernelModules
    PROVE  SearchInv'
<1>1. /\ call' = call /\ process' = process /\ call.op = "keyboard" /\ CallTyped
      /\ \/ names' = call.names /\ StartWalk
         \/ names' = names /\ Return(Error)
  BY DEF KernelModules, AllRead, Reader, SearchInv
<1>2. call \in Requests /\ call.names \in Seq(DOMAIN short) /\ call.names # <<>>
  <2>1. call \in Requests
    BY <1>1 DEF CallTyped, NoCall
  <2> QED BY <1>1, <2>1, RequestsAssumption
<1>3. CallTyped'
  BY <1>1, <1>2 DEF CallTyped
<1> QED BY <1>1, <1>2, <1>3, StartWalkTyped, ErrorTyped

LEMMA TypedKbase ==
    ASSUME SearchInv, ReadKbase
    PROVE  SearchInv'
<1>1. /\ pc = "kbase" /\ call' = call /\ names' = names /\ process' = process
      /\ pc' = "idle" /\ modules' = modules /\ CallTyped
      /\ \/ keyboard' = Head(candidates)
         \/ result' = Error
  BY DEF ReadKbase, Reader, Return, SearchInv
<1>2. call.op = "keyboard" /\ Seen(Head(candidates))
  BY <1>1 DEF SearchInv, CandidatesNamed, SeenIsSeen
<1>3. CallTyped'
  BY <1>1 DEF CallTyped
<1>4. (call.op \in {"info", "keyboard"} /\ result.status = "ok" =>
            Seen(IF call.op = "info" THEN process ELSE keyboard))'
  <2>1. CASE keyboard' = Head(candidates)
    <3>1. Seen(keyboard)'
      BY <1>1, <1>2, <2>1 DEF Seen
    <3> QED BY <1>1, <1>2, <3>1
  <2>2. CASE result' = Error
    BY <2>2 DEF Error
  <2> QED BY <1>1, <2>1, <2>2
<1> QED BY <1>1, <1>3, <1>4, IdleTyped

LEMMA SearchUnchanged ==
    ASSUME SearchInv,
           UNCHANGED <<pc, call, names, entry, infos, info, candidates, module_infos, list, modules,
                       result, process, keyboard>>
    PROVE  SearchInv'
<1>1. CallTyped' /\ WalkTyped' /\ ContextTyped'
  BY DEF SearchInv, CallTyped, WalkTyped, ContextTyped
<1>2. CandidatesNamed'
  BY DEF SearchInv, CandidatesNamed, Named
<1>3. ModulesTyped'
  BY DEF SearchInv, ModulesTyped, ModulesOf
<1>4. SeenIsSeen'
  BY DEF SearchInv, SeenIsSeen, Seen
<1> QED BY <1>1, <1>2, <1>3, <1>4 DEF SearchInv

LEMMA SearchAtFirst == Win32Init => SearchInv
<1> SUFFICES ASSUME Win32Init PROVE SearchInv
  OBVIOUS
<1>1. /\ pc = "idle" /\ call = NoCall /\ names = <<>> /\ process = NoInfo
  BY DEF Win32Init
<1>2. CallTyped /\ SeenIsSeen
  BY <1>1 DEF CallTyped, NoCall, SeenIsSeen
<1>3. WalkTyped /\ ContextTyped /\ CandidatesNamed /\ ModulesTyped
  BY <1>1 DEF WalkTyped, WalkPcs, ContextTyped, CandidatesNamed, ModulesTyped, ModulePcs
<1> QED BY <1>2, <1>3 DEF SearchInv

LEMMA SearchStep == Tidy /\ SearchInv /\ [Win32Next]_wvars => SearchInv'
<1> SUFFICES ASSUME Tidy, SearchInv, [Win32Next]_wvars PROVE SearchInv'
  OBVIOUS
<1>1. CASE GuestNext
  <2>1. UNCHANGED <<pc, call, names, entry, infos, info, candidates, module_infos, list, modules,
                    result, process, keyboard>>
    BY <1>1, GuestKeeps DEF walk, lists, client
  <2> QED BY <2>1, SearchUnchanged
<1>2. CASE Calling
  BY <1>2, CallingTyped
<1>3. CASE Reading
  BY <1>3, TypedFlink, TypedBlink, TypedFields, TypedContext, TypedInfos, TypedCandidate, TypedModFlink,
     TypedModInfo, TypedNextList, TypedDone, TypedTried, TypedKernel, TypedKbase DEF Reading
<1>4. CASE UNCHANGED wvars
  <2>1. UNCHANGED <<pc, call, names, entry, infos, info, candidates, module_infos, list, modules,
                    result, process, keyboard>>
    BY <1>4 DEF wvars, walk, lists, client
  <2> QED BY <2>1, SearchUnchanged
<1> QED BY <1>1, <1>2, <1>3, <1>4, NextIs

----------------------------------------------------------------------------
(* The walk of module_entry_list *)

(* A walk that has been all through the list of h, and its head.           *)
Complete(S, E, h, seq) ==
    /\ IsInjective(seq) /\ ToSet(seq) \subseteq E \cup {h}
    /\ \A s \in Of(S, h) : s \in ToSet(seq)

(* The walk of module_entry_list: at is pc, x entry, n iter, seq list.  Of *)
(* a process that was not there nothing but the base is found.             *)
Looking(st, S, E, r, at, h, base, x, n, seq) ==
    /\ at = "mod_flink" =>
          /\ n = Len(seq)
          /\ base # Junk /\ x # Junk =>
                /\ Live(st, h) => Sought(S, E, r, h, seq, x)
                /\ h[1] \notin E \cup {Kernel} => seq = <<>> /\ x = base
    /\ at = "mod_info" =>
          /\ n \in Nat /\ n >= 1 /\ Len(seq) <= n
          /\ base # Junk /\ Len(seq) = n =>
                /\ Live(st, h) => Complete(S, E, h, seq)
                /\ h[1] \notin E \cup {Kernel} => seq = <<base>>

LEMMA BasedIsFirst ==
    ASSUME NEW h, NEW base, Based(base, h)
    PROVE  h \in ModHeads /\ h \in Heads /\ HasFirst(h) /\ FirstOf(h) = base /\ base \in Entries
           /\ HeadOf(base) = h
BY HeadOfFacts, FirstEntry DEF Based, HasFirst, FirstOf

LEMMA LookBegins ==
    ASSUME NEW r \in Ranks, NEW f, NEW st, NEW ld, Good(f, st, ld, r),
           NEW S, NEW E, Kept(f, st, ld, S, E, r), NEW h \in ModHeads, NEW base,
           base = Junk \/ Based(base, h)
    PROVE  Looking(st, S, E, r, "mod_flink", h, base, base, 0, <<>>)
<1>1. ASSUME base # Junk, Live(st, h) PROVE Sought(S, E, r, h, <<>>, base)
  BY <1>1, BasedIsFirst, SoughtAtFirst
<1>2. Len(<<>>) = 0
  OBVIOUS
<1> QED BY <1>1, <1>2 DEF Looking

(* A list that can be read has an owner that is known. *)
LEMMA LiveIsKnown ==
    ASSUME NEW r \in Ranks, NEW f, NEW st, NEW ld, Good(f, st, ld, r),
           NEW S, NEW E, Kept(f, st, ld, S, E, r), NEW h \in ModHeads, Live(st, h)
    PROVE  h[1] \in E \cup {Kernel}
<1>1. st \in [Procs -> States] /\ h[1] \in Procs \cup {Kernel}
  BY LiveFacts DEF Good, GuestTypes
<1>2. h[1] = Kernel \/ st[h[1]] = "alive"
  BY <1>1, LiveFacts
<1>3. h[1] \in Procs /\ st[h[1]] = "alive" => h[1] \in Members(st, ld, PsHead)
  BY DEF Members
<1>4. Members(st, ld, PsHead) \subseteq E
  BY PsHeadFacts DEF Kept, Owned
<1> QED BY <1>1, <1>2, <1>3, <1>4

LEMMA ReadableIs ==
    ASSUME NEW h \in ModHeads,
           state \in [Procs -> States], NEW x \in Entries \cup ModHeads, HeadOf(x) = h
    PROVE  Readable(x) <=> Live(state, h)
<1>1. x \in Entries => Module[x].list = h /\ x \notin Heads
  BY HeadOfFacts
<1>2. x \in ModHeads => x = h /\ x \notin Entries /\ x \in Heads \ {PsHead}
  BY HeadOfFacts
<1>3. x \in Nodes /\ h # PsHead
  BY HeadOfFacts DEF Nodes, Heads
<1>4. Running(h[1]) <=> Live(state, h)
  BY LiveFacts DEF Running
<1> QED BY <1>1, <1>2, <1>3, <1>4 DEF Readable

LEMMA EntriesAreFew ==
    ASSUME NEW r \in Ranks, NEW E \in SUBSET Items, NEW h \in ModHeads,
           NEW seq \in Seq(Of(E, h)), Rising(r, seq)
    PROVE  Len(seq) < MaxIter
<1> DEFINE T == {e \in Entries : Module[e].list = h}
<1>1. Of(E, h) \subseteq T /\ Of(E, h) \subseteq Items
  BY HeadOfFacts DEF Of
<1>2. IsFiniteSet(T) /\ Cardinality(T) < MaxIter /\ Cardinality(T) \in Nat
  BY IterAssumption, FS_Subset, FS_CardinalityType
<1> HIDE DEF T
<1>3. seq \in Seq(T) /\ seq \in Seq(Items)
  BY <1>1
<1>4. Len(seq) <= Cardinality(T)
  BY <1>2, <1>3, RisingIsInjective, InjectiveInto
<1> QED BY <1>2, <1>3, <1>4, IterAssumption

(* At the head the walk is complete. *)
LEMMA CompleteAtEnd ==
    ASSUME NEW r \in Ranks, NEW E \in SUBSET Items, NEW S \in SUBSET E, NEW h \in ModHeads,
           NEW seq, Sought(S, E, r, h, seq, h)
    PROVE  Complete(S, E, h, Append(seq, h))
<1> DEFINE t == Append(seq, h)
<1>1. h \in Heads /\ h \notin Items /\ S \in SUBSET Items
  BY HeadOfFacts
<1>2. /\ seq \in Seq(Of(E, h)) /\ Rising(r, seq) /\ \A s \in Of(S, h) : s \in ToSet(seq)
  BY <1>1, SoughtAtEnd DEF Found
<1>3. /\ seq \in Seq(Items) /\ \A i \in DOMAIN seq : seq[i] \in E /\ seq[i] # h
  BY <1>1, <1>2 DEF Of
<1>4. IsInjective(seq)
  BY <1>2, <1>3, RisingIsInjective
<1>5. /\ DOMAIN t = 1..(Len(seq) + 1) /\ DOMAIN seq = 1..Len(seq) /\ Len(seq) \in Nat
      /\ t[Len(seq) + 1] = h /\ \A i \in DOMAIN seq : t[i] = seq[i]
  BY <1>3
<1> HIDE DEF t
<1>6. \A i \in DOMAIN t : i \in DOMAIN seq \/ i = Len(seq) + 1
  BY <1>5
<1>7. DOMAIN seq \subseteq DOMAIN t
  BY <1>5
<1>8. IsInjective(t)
  BY <1>3, <1>4, <1>5, <1>6 DEF IsInjective
<1>9. ToSet(t) \subseteq E \cup {h}
  BY <1>3, <1>5, <1>6 DEF ToSet
<1>10. ToSet(seq) \subseteq ToSet(t)
  BY <1>5, <1>7 DEF ToSet
<1> QED BY <1>2, <1>8, <1>9, <1>10 DEF Complete, t

(* What a walk of a list that can be read comes to after x. *)
LEMMA LookOn ==
    ASSUME NEW r \in Ranks, NEW f, NEW st, NEW ld, Good(f, st, ld, r),
           NEW S, NEW E, Kept(f, st, ld, S, E, r), NEW h \in ModHeads, NEW base, Based(base, h),
           NEW seq, NEW x, Live(st, h), Sought(S, E, r, h, seq, x)
    PROVE  /\ x = h => f[x] = base /\ Complete(S, E, h, Append(seq, x))
           /\ x # h => /\ f[x] \in Nodes /\ f[x] # base /\ Sought(S, E, r, h, Append(seq, x), f[x])
                       /\ Len(Append(seq, x)) < MaxIter
           /\ Len(Append(seq, x)) = Len(seq) + 1
<1>1. E \in SUBSET Items /\ S \in SUBSET E /\ InOrder(st, E, r)
  BY DEF Kept, Owned
<1>2. h \in Heads /\ HasFirst(h) /\ FirstOf(h) = base
  BY BasedIsFirst
<1>3. seq \in Seq(Of(E, h))
  BY DEF Sought
<1>4. Len(Append(seq, x)) = Len(seq) + 1
  BY <1>3
<1>5. CASE x = h
  <2>1. f[x] = base
    BY <1>2, <1>5, FirstIsFirst
  <2> QED BY <1>1, <1>4, <1>5, <2>1, CompleteAtEnd
<1>6. CASE x # h
  <2>1. x \in E /\ HeadOf(x) = h /\ x \in Items
    BY <1>1, <1>6 DEF Sought, Of
  <2>2. Follows(S, E, r, x, f[x])
    BY <2>1 DEF Kept, Linkage
  <2>3. f[x] # base /\ f[x] \in Nodes
    BY <1>1, <1>2, <2>1, <2>2, LinkLeadsOn
  <2>4. Sought(S, E, r, h, Append(seq, x), f[x])
    BY <1>1, <1>2, <2>1, <2>2, SoughtGoesOn
  <2>5. Append(seq, x) \in Seq(Of(E, h)) /\ Rising(r, Append(seq, x))
    BY <2>4 DEF Sought
  <2>6. Len(Append(seq, x)) < MaxIter
    BY <1>1, <2>5, EntriesAreFew
  <2> QED BY <1>4, <1>6, <2>3, <2>4, <2>6
<1> QED BY <1>5, <1>6

(* ModFlink *)
LEMMA LookGoesOn ==
    ASSUME NEW r \in Ranks, Good(flink, state, loaded, r),
           NEW S, NEW E, Kept(flink, state, loaded, S, E, r), NEW h \in ModHeads, NEW base,
           base = Junk \/ Based(base, h),
           NEW seq, NEW x \in NodesOf(h), seq \in Seq(NodesOf(h)), NEW n,
           Looking(state, S, E, r, "mod_flink", h, base, x, n, seq),
           NEW next, next \in IF Readable(x) THEN {flink[x]} ELSE IF x \in Nodes THEN {Junk, Odd} ELSE {}
    PROVE  /\ next \in {Null, Odd, base} \/ n + 1 = MaxIter =>
                 \A y : Looking(state, S, E, r, "mod_info", h, base, y, n + 1, Append(seq, x))
           /\ next \notin {Null, Odd, base} /\ n + 1 # MaxIter =>
                 Looking(state, S, E, r, "mod_flink", h, base, next, n + 1, Append(seq, x))
<1> DEFINE t == Append(seq, x)
<1>1. /\ state \in [Procs -> States] /\ Junk \notin Nodes /\ Null \notin Nodes /\ Odd \notin Nodes
      /\ Odd # Junk
  BY NodesAssumption DEF Good, GuestTypes
<1>2. n = Len(seq) /\ n \in Nat /\ Len(t) = n + 1
  BY DEF Looking
<1>3. x \in Nodes /\ x # Junk /\ x \in Entries \cup ModHeads /\ HeadOf(x) = h
  BY <1>1 DEF NodesOf, Readable
<1>4. Readable(x) <=> Live(state, h)
  BY <1>1, <1>3, ReadableIs
<1>5. CASE base = Junk
  BY <1>2, <1>5 DEF Looking
<1>6. CASE base # Junk /\ Live(state, h)
  <2>1. Based(base, h) /\ Sought(S, E, r, h, seq, x) /\ next = flink[x] /\ h[1] \in E \cup {Kernel}
    BY <1>3, <1>4, <1>6, LiveIsKnown DEF Looking
  <2>2. /\ x = h => next = base /\ Complete(S, E, h, t)
        /\ x # h => /\ next \in Nodes /\ next # base /\ Sought(S, E, r, h, t, next)
                    /\ Len(t) < MaxIter
    BY <1>6, <2>1, LookOn
  <2> HIDE DEF t
  <2>3. CASE x = h
    <3>1. Complete(S, E, h, t) /\ next = base
      BY <2>2, <2>3
    <3>2. \A y : Looking(state, S, E, r, "mod_info", h, base, y, n + 1, t)
      BY <1>2, <2>1, <3>1 DEF Looking
    <3> QED BY <3>1, <3>2 DEF t
  <2>4. CASE x # h
    <3>1. next \notin {Null, Odd, base} /\ n + 1 # MaxIter
      BY <1>1, <1>2, <2>2, <2>4, IterAssumption
    <3>2. Looking(state, S, E, r, "mod_flink", h, base, next, n + 1, t)
      BY <1>2, <2>1, <2>2, <2>4 DEF Looking
    <3> QED BY <3>1, <3>2 DEF t
  <2> QED BY <2>3, <2>4
<1>7. CASE base # Junk /\ ~Live(state, h)
  <2>1. next \in {Junk, Odd} /\ Len(t) = n + 1 /\ n + 1 >= 1 /\ n + 1 \in Nat
    BY <1>2, <1>3, <1>4, <1>7
  <2>2. h[1] \notin E \cup {Kernel} => t = <<base>>
    <3>1. h[1] \notin E \cup {Kernel} => seq = <<>> /\ x = base
      BY <1>3, <1>7 DEF Looking
    <3>2. seq = <<>> /\ x = base => t = <<base>>
      OBVIOUS
    <3> HIDE DEF t
    <3> QED BY <3>1, <3>2
  <2>3. next # Junk => next \in {Null, Odd, base}
    BY <2>1
  <2> HIDE DEF t
  <2>4. \A y : Looking(state, S, E, r, "mod_info", h, base, y, n + 1, t)
    BY <1>7, <2>1, <2>2 DEF Looking
  <2>5. Looking(state, S, E, r, "mod_flink", h, base, Junk, n + 1, t)
    BY <1>7, <2>1 DEF Looking
  <2> QED BY <2>3, <2>4, <2>5 DEF t
<1> QED BY <1>5, <1>6, <1>7

(* Nobody is there again whom the call knows. *)
LEMMA NobodyReturns ==
    ASSUME NEW r \in Ranks, Good(flink, state, loaded, r), Kept(flink, state, loaded, steady, ever, r),
           GuestNext, NEW h \in ModHeads, Live(state', h)
    PROVE  Live(state, h) \/ h[1] \notin ever \cup {Kernel}
<1>1. state \in [Procs -> States] /\ h[1] \in Procs \cup {Kernel}
  BY LiveFacts DEF Good, GuestTypes
<1>2. \A p \in Procs : state'[p] = "alive" => state[p] \in {"alive", "free"}
  <2>1. ASSUME NEW p \in Procs, Spawn(p) \/ Exit(p) \/ Delete(p) \/ Free(p), NEW q \in Procs,
               state'[q] = "alive"
        PROVE  state[q] \in {"alive", "free"}
    BY <1>1, <2>1 DEF Spawn, Exit, Delete, Free
  <2>2. ASSUME NEW e \in Entries, Load(e) \/ Unload(e) PROVE state' = state
    BY <2>2 DEF Load, Unload
  <2> QED BY <2>1, <2>2 DEF GuestNext
<1>3. h[1] = Kernel \/ (h[1] \in Procs /\ state'[h[1]] = "alive")
  BY <1>1, HeadOfFacts DEF Live
<1>4. \A p \in ever \cap Procs : state[p] # "free"
  BY DEF Kept, Owned
<1> QED BY <1>1, <1>2, <1>3, <1>4, LiveFacts

(* A step of the guest. *)
LEMMA LookStays ==
    ASSUME NEW r \in Ranks, NEW r2 \in Ranks, NEW st, NEW st2, NEW f2, NEW ld2,
           NEW S, NEW E, NEW S2, NEW E2, E \in SUBSET Items,
           S \in SUBSET E, S2 \subseteq S, E \subseteq E2, \A y \in E : r2[y] = r[y],
           \A s \in S \cap Entries : HeadOf(s)[1] \in E \cup {Kernel},
           Good(f2, st2, ld2, r2), Kept(f2, st2, ld2, S2, E2, r2),
           NEW h \in ModHeads, NEW base, base = Junk \/ Based(base, h),
           Live(st2, h) => Live(st, h) \/ h[1] \notin E \cup {Kernel},
           NEW at, NEW x, NEW n, NEW seq, Looking(st, S, E, r, at, h, base, x, n, seq)
    PROVE  Looking(st2, S2, E2, r2, at, h, base, x, n, seq)
<1>0. h[1] \notin E2 \cup {Kernel} => h[1] \notin E \cup {Kernel}
  OBVIOUS
<1>1. ASSUME h[1] \notin E \cup {Kernel} PROVE Of(S2, h) = {}
  <2> SUFFICES ASSUME NEW s \in Of(S2, h) PROVE FALSE
    OBVIOUS
  <2>1. s \in S /\ HeadOf(s) = h /\ s \in Items
    BY DEF Of
  <2>2. s \in Entries
    BY <2>1, HeadOfFacts
  <2> QED BY <1>1, <2>1, <2>2
<1>2. ASSUME at = "mod_flink", base # Junk, x # Junk, Live(st2, h) PROVE Sought(S2, E2, r2, h, seq, x)
  <2>1. CASE Live(st, h)
    <3>1. Sought(S, E, r, h, seq, x) /\ h \in Heads
      BY <1>2, <2>1, HeadOfFacts DEF Looking
    <3> QED BY <3>1, SoughtStays
  <2>2. CASE h[1] \notin E \cup {Kernel}
    <3>1. seq = <<>> /\ x = base /\ Based(base, h)
      BY <1>2, <2>2 DEF Looking
    <3> QED BY <1>2, <3>1, BasedIsFirst, SoughtAtFirst
  <2> QED BY <1>2, <2>1, <2>2
<1>3. ASSUME at = "mod_info", base # Junk, Len(seq) = n, Live(st2, h) PROVE Complete(S2, E2, h, seq)
  <2>1. CASE Live(st, h)
    <3>1. Complete(S, E, h, seq)
      BY <1>3, <2>1 DEF Looking
    <3> QED BY <3>1 DEF Complete, Of
  <2>2. CASE h[1] \notin E \cup {Kernel}
    <3>1. seq = <<base>> /\ Based(base, h)
      BY <1>3, <2>2 DEF Looking
    <3>2. base \in E2
      BY <1>3, <3>1, BasedIsFirst, FirstIsFirst DEF Kept, Owned
    <3>3. IsInjective(seq) /\ ToSet(seq) = {base}
      BY <3>1 DEF IsInjective, ToSet
    <3> QED BY <1>1, <2>2, <3>2, <3>3 DEF Complete
  <2> QED BY <1>3, <2>1, <2>2
<1> QED BY <1>0, <1>2, <1>3 DEF Looking

----------------------------------------------------------------------------
(* The lists while a call goes on *)

(* What a call has found so far, as far as no memory was reused. *)
LookingNow(r) ==
    pc \in ModulePcs =>
        LET m == Head(module_infos) IN
        Looking(state, steady, ever, r, pc, m.list, m.base, entry, iter, list)

Followed(r) ==
    /\ Kept(flink, state, loaded, steady, ever, r)
    /\ Walking(steady, ever, r, pc, entry, flink_entry, iter, eprocs)
    /\ LookingNow(r)

ListsInv ==
    \E r \in Ranks :
        /\ \E b \in Nat : Above(r, b)
        /\ Good(flink, state, loaded, r)
        /\ pc # "idle" /\ ~broken => Followed(r)

LEMMA FirstModuleList ==
    ASSUME SearchInv, pc \in ModulePcs
    PROVE  LET m == Head(module_infos) IN
           /\ m.list \in ModHeads /\ (m.base = Junk \/ Based(m.base, m.list))
           /\ list \in Seq(NodesOf(m.list))
           /\ pc = "mod_flink" => entry \in NodesOf(m.list)
<1>1. PICK a \in Procs \cup {Kernel} : ModulesOf(a)
  BY DEF SearchInv, ModulesTyped
<1>2. module_infos \in Seq(Bases) /\ module_infos # <<>>
  BY <1>1 DEF ModulesOf
<1>3. Head(module_infos) \in Bases
  BY <1>2
<1> QED BY <1>1, <1>3 DEF ModulesOf, Bases

(* A walk of the modules begins. *)
LEMMA LookStarts ==
    ASSUME NEW r \in Ranks, Good(flink', state', loaded', r),
           Kept(flink', state', loaded', steady', ever', r),
           SearchInv', pc' = "mod_flink", entry' = Head(module_infos').base, iter' = 0, list' = <<>>
    PROVE  LookingNow(r)'
<1> DEFINE m == Head(module_infos')
<1>1. m.list \in ModHeads /\ (m.base = Junk \/ Based(m.base, m.list))
  <2>1. (LET m0 == Head(module_infos) IN m0.list \in ModHeads /\ (m0.base = Junk \/ Based(m0.base, m0.list)))'
    <3>1. PICK a \in Procs \cup {Kernel} : ModulesOf(a)'
      BY DEF SearchInv, ModulesTyped, ModulePcs
    <3>2. module_infos' \in Seq(Bases) /\ module_infos' # <<>>
      BY <3>1 DEF ModulesOf
    <3>3. Head(module_infos') \in Bases
      BY <3>2
    <3> QED BY <3>3 DEF Bases
  <2> QED BY <2>1
<1> HIDE DEF m
<1>2. Looking(state', steady', ever', r, "mod_flink", m.list, m.base, m.base, 0, <<>>)
  BY <1>1, LookBegins
<1> QED BY <1>2 DEF LookingNow, m

LEMMA StartModulesIs ==
    ASSUME NEW i \in Origins, StartModules(i)
    PROVE  pc' = "mod_flink" /\ entry' = Head(module_infos').base /\ iter' = 0 /\ list' = <<>>
BY ListsOfIs DEF StartModules

LEMMA LookProceeds ==
    ASSUME NEW r \in Ranks, Good(flink, state, loaded, r),
           Kept(flink, state, loaded, steady, ever, r), SearchInv, SearchInv', Reading, LookingNow(r)
    PROVE  LookingNow(r)'
<1>0. /\ flink' = flink /\ state' = state /\ loaded' = loaded /\ steady' = steady /\ ever' = ever
      /\ Good(flink', state', loaded', r) /\ Kept(flink', state', loaded', steady', ever', r)
  <2>1. flink' = flink /\ state' = state /\ loaded' = loaded /\ steady' = steady /\ ever' = ever
    BY ReadingKeeps
  <2> QED BY <2>1
<1>1. CASE pc' \notin ModulePcs
  BY <1>1 DEF LookingNow
<1>2. CASE Candidate /\ pc' \in ModulePcs
  <2>1. StartModules(Head(candidates)) /\ candidates # <<>> /\ pc = "candidate"
    BY <1>2 DEF Candidate, Fail, StartWalk, Return, ModulePcs
  <2>2. Head(candidates) \in Origins
    BY <2>1 DEF SearchInv, CandidatesNamed, Named
  <2> QED BY <1>0, <2>1, <2>2, StartModulesIs, LookStarts
<1>3. CASE ModFlink /\ pc' \in ModulePcs
  <2> DEFINE m == Head(module_infos)
  <2>1. /\ pc = "mod_flink" /\ module_infos' = module_infos /\ list' = Append(list, entry)
        /\ iter' = iter + 1
    BY <1>3 DEF ModFlink, Fail, StartWalk, Return, ModulePcs
  <2>2. PICK next \in IF Readable(entry) THEN {flink[entry]}
                      ELSE IF entry \in Nodes THEN {Junk, Odd} ELSE {} :
                IF LastModule(next) \/ iter + 1 = MaxIter
                THEN pc' = "mod_info" /\ UNCHANGED entry
                ELSE entry' = next /\ UNCHANGED pc
    BY <1>3 DEF ModFlink, Fail, StartWalk, Return, ModulePcs
  <2>3. /\ m.list \in ModHeads /\ (m.base = Junk \/ Based(m.base, m.list))
        /\ list \in Seq(NodesOf(m.list)) /\ entry \in NodesOf(m.list)
    BY <2>1, FirstModuleList DEF ModulePcs
  <2>4. Looking(state, steady, ever, r, "mod_flink", m.list, m.base, entry, iter, list)
    BY <2>1 DEF LookingNow, ModulePcs
  <2>5. LastModule(next) <=> next \in {Null, Odd, m.base}
    BY DEF LastModule
  <2> HIDE DEF m
  <2>6. /\ next \in {Null, Odd, m.base} \/ iter + 1 = MaxIter =>
              \A y : Looking(state, steady, ever, r, "mod_info", m.list, m.base, y, iter + 1, Append(list, entry))
        /\ next \notin {Null, Odd, m.base} /\ iter + 1 # MaxIter =>
              Looking(state, steady, ever, r, "mod_flink", m.list, m.base, next, iter + 1, Append(list, entry))
    BY <2>2, <2>3, <2>4, LookGoesOn
  <2>7. Looking(state, steady, ever, r, pc', m.list, m.base, entry', iter + 1, Append(list, entry))
    BY <2>1, <2>2, <2>5, <2>6
  <2> QED BY <1>0, <2>1, <2>7 DEF LookingNow, m
<1>4. CASE ModInfo
  <2> DEFINE m == Head(module_infos)
  <2>1. /\ pc = "mod_info" /\ pc' = pc /\ list # <<>> /\ list' = Tail(list)
        /\ module_infos' = module_infos /\ iter' = iter /\ entry' = entry
    BY <1>4 DEF ModInfo, walk
  <2>2. Looking(state, steady, ever, r, "mod_info", m.list, m.base, entry, iter, list)
    BY <2>1 DEF LookingNow, ModulePcs
  <2>3. list \in Seq(NodesOf(m.list))
    BY <2>1, FirstModuleList DEF ModulePcs
  <2>4. Len(Tail(list)) = Len(list) - 1 /\ Len(list) \in Nat /\ iter \in Nat /\ Len(list) <= iter
    BY <2>1, <2>2, <2>3 DEF Looking
  <2> HIDE DEF m
  <2>5. Len(Tail(list)) # iter /\ Len(Tail(list)) <= iter
    BY <2>4
  <2>6. Looking(state, steady, ever, r, "mod_info", m.list, m.base, entry, iter, Tail(list))
    BY <2>2, <2>5 DEF Looking
  <2> QED BY <1>0, <2>1, <2>6 DEF LookingNow, m
<1>5. CASE NextList
  <2>1. /\ pc = "mod_info" /\ list = <<>> /\ list' = list /\ Len(module_infos) > 1
        /\ module_infos' = Tail(module_infos) /\ entry' = module_infos[2].base /\ iter' = 0
        /\ pc' = "mod_flink"
    BY <1>5 DEF NextList
  <2>2. PICK a \in Procs \cup {Kernel} : ModulesOf(a)
    BY <2>1 DEF SearchInv, ModulesTyped, ModulePcs
  <2>3. module_infos \in Seq(Bases)
    BY <2>2 DEF ModulesOf
  <2>4. Head(module_infos') = module_infos[2]
    BY <2>1, <2>3
  <2> QED BY <1>0, <2>1, <2>4, LookStarts
<1>6. CASE WalkFlink \/ WalkBlink \/ EprocessFields \/ ProcessContext \/ InfosDone
  <2>1. pc' \in {"flink", "blink", "eprocess", "context", "candidate", "idle"}
    BY <1>6 DEF WalkFlink, WalkBlink, EprocessFields, ProcessContext, InfosDone, Fail, StartWalk, Return
  <2> QED BY <1>1, <2>1 DEF ModulePcs
<1>7. CASE ModulesDone \/ Tried \/ KernelModules \/ ReadKbase
  <2>1. pc' \in {"flink", "candidate", "kbase", "idle"}
    BY <1>7 DEF ModulesDone, Tried, KernelModules, ReadKbase, AllRead, StartWalk, Return
  <2> QED BY <1>1, <2>1 DEF ModulePcs
<1> QED BY <1>1, <1>2, <1>3, <1>4, <1>5, <1>6, <1>7 DEF Reading

LEMMA ListsAreTidy == ListsInv => Tidy
BY DEF ListsInv, Tidy

LEMMA ListsAtFirst == Win32Init => ListsInv
<1> SUFFICES ASSUME Win32Init PROVE ListsInv
  OBVIOUS
<1>1. Places \in Ranks /\ Above(Places, MaxIter) /\ MaxIter \in Nat
  BY PlacesAre, IterAssumption
<1>2. Good(flink, state, loaded, Places) /\ pc = "idle"
  BY FirstGood DEF Win32Init
<1> QED BY <1>1, <1>2 DEF ListsInv

LEMMA GuestLists ==
    ASSUME ListsInv, SearchInv, SearchInv', GuestNext
    PROVE  ListsInv'
<1>1. PICK r \in Ranks : /\ \E b \in Nat : Above(r, b)
                         /\ Good(flink, state, loaded, r)
                         /\ pc # "idle" /\ ~broken => Followed(r)
  BY DEF ListsInv
<1>2. PICK r2 : Goes(r, r2)
  BY <1>1, GuestGoes
<1>3. /\ r2 \in Ranks /\ (\E b \in Nat : Above(r2, b)) /\ Good(flink', state', loaded', r2)
      /\ (Kept(flink, state, loaded, steady, ever, r) /\ ~broken' =>
             /\ Kept(flink', state', loaded', steady', ever', r2)
             /\ steady' \subseteq steady /\ ever \subseteq ever' /\ \A x \in ever : r2[x] = r[x])
  BY <1>2 DEF Goes
<1>4. /\ ~broken' => ~broken
      /\ UNCHANGED <<pc, entry, flink_entry, iter, eprocs, module_infos, list>>
  BY GuestKeeps DEF walk, lists
<1>5. ASSUME pc' # "idle", ~broken' PROVE Followed(r2)'
  <2>1. /\ Kept(flink, state, loaded, steady, ever, r)
        /\ Walking(steady, ever, r, pc, entry, flink_entry, iter, eprocs) /\ LookingNow(r)
    BY <1>1, <1>4, <1>5 DEF Followed
  <2>2. /\ Kept(flink', state', loaded', steady', ever', r2)
        /\ steady' \subseteq steady /\ ever \subseteq ever' /\ \A x \in ever : r2[x] = r[x]
    BY <1>3, <1>5, <2>1
  <2>3. /\ ever \in SUBSET Items /\ steady \in SUBSET ever
        /\ \A s \in steady \cap Entries : HeadOf(s)[1] \in ever \cup {Kernel}
    BY <2>1 DEF Kept, Owned
  <2>4. Walking(steady', ever', r2, pc, entry, flink_entry, iter, eprocs)
    BY <1>3, <2>1, <2>2, <2>3, WalkStays
  <2>5. LookingNow(r2)'
    <3> DEFINE m == Head(module_infos)
    <3> SUFFICES ASSUME pc \in ModulePcs
                 PROVE  Looking(state', steady', ever', r2, pc, m.list, m.base, entry, iter, list)
      BY <1>4 DEF LookingNow
    <3>1. m.list \in ModHeads /\ (m.base = Junk \/ Based(m.base, m.list))
      BY FirstModuleList
    <3>2. Looking(state, steady, ever, r, pc, m.list, m.base, entry, iter, list)
      BY <2>1 DEF LookingNow
    <3> HIDE DEF m
    <3>3. Live(state', m.list) => Live(state, m.list) \/ m.list[1] \notin ever \cup {Kernel}
      BY <1>1, <2>1, <3>1, NobodyReturns
    <3> QED BY <1>3, <2>2, <2>3, <3>1, <3>2, <3>3, LookStays
  <2> QED BY <1>4, <2>2, <2>4, <2>5 DEF Followed
<1> QED BY <1>3, <1>5 DEF ListsInv

LEMMA CallingLists ==
    ASSUME ListsInv, SearchInv, SearchInv', Calling
    PROVE  ListsInv'
<1>1. PICK r \in Ranks : /\ \E b \in Nat : Above(r, b)
                         /\ Good(flink, state, loaded, r)
  BY DEF ListsInv
<1> DEFINE E == Linked \cup loaded
<1>2. /\ flink' = flink /\ state' = state /\ loaded' = loaded
      /\ steady' = E /\ ever' = E
      /\ \/ StartWalk
         \/ StartModules(kernel_process_info) \/ (process # NoInfo /\ StartModules(process))
         \/ pc' = "idle"
  BY CallingKeeps
<1>3. Kept(flink, state, loaded, E, E, r)
  <2>1. Linked = Members(state, loaded, PsHead)
    BY DEF Linked, Members
  <2> QED BY <1>1, <2>1, KeptAtFirst
<1> HIDE DEF E
<1>4. Good(flink', state', loaded', r) /\ Kept(flink', state', loaded', steady', ever', r)
  BY <1>1, <1>2, <1>3
<1>5. ASSUME pc' # "idle" PROVE Followed(r)'
  <2>1. CASE StartWalk
    <3>1. Walking(E, E, r, pc', entry', flink_entry', iter', eprocs')
      BY <1>1, <1>3, <2>1, WalkBegins
    <3>2. LookingNow(r)'
      BY <2>1 DEF StartWalk, LookingNow, ModulePcs
    <3> QED BY <1>2, <1>4, <3>1, <3>2 DEF Followed
  <2>2. CASE \/ StartModules(kernel_process_info)
             \/ (process # NoInfo /\ StartModules(process))
    <3>1. kernel_process_info \in Origins /\ (process # NoInfo => process \in Origins)
      BY ListsAreTidy, KernelIsKnown DEF SearchInv, CallTyped
    <3>2. pc' = "mod_flink" /\ entry' = Head(module_infos').base /\ iter' = 0 /\ list' = <<>>
      BY <2>2, <3>1, StartModulesIs
    <3>3. LookingNow(r)'
      BY <1>4, <3>2, LookStarts
    <3>4. Walking(steady', ever', r, pc', entry', flink_entry', iter', eprocs')
      BY <3>2, NoWalk
    <3> QED BY <1>4, <3>3, <3>4 DEF Followed
  <2> QED BY <1>2, <1>5, <2>1, <2>2
<1> QED BY <1>1, <1>4, <1>5 DEF ListsInv

LEMMA ReadingLists ==
    ASSUME ListsInv, SearchInv, SearchInv', Reading
    PROVE  ListsInv'
<1>1. PICK r \in Ranks : /\ \E b \in Nat : Above(r, b)
                         /\ Good(flink, state, loaded, r)
                         /\ pc # "idle" /\ ~broken => Followed(r)
  BY DEF ListsInv
<1>2. /\ pc # "idle" /\ flink' = flink /\ state' = state /\ loaded' = loaded
      /\ steady' = steady /\ ever' = ever /\ broken' = broken
  BY ReadingKeeps
<1>3. Good(flink', state', loaded', r)
  BY <1>1, <1>2
<1>4. ASSUME ~broken' PROVE Followed(r)'
  <2>1. /\ Kept(flink, state, loaded, steady, ever, r)
        /\ Walking(steady, ever, r, pc, entry, flink_entry, iter, eprocs) /\ LookingNow(r)
    BY <1>1, <1>2, <1>4 DEF Followed
  <2>2. Walking(steady, ever, r, pc', entry', flink_entry', iter', eprocs')
    BY <1>1, <2>1, WalkProceeds
  <2>3. LookingNow(r)'
    BY <1>1, <2>1, LookProceeds
  <2> QED BY <1>2, <2>1, <2>2, <2>3 DEF Followed
<1> QED BY <1>1, <1>3, <1>4 DEF ListsInv

LEMMA ListsStep == ListsInv /\ SearchInv /\ SearchInv' /\ [Win32Next]_wvars => ListsInv'
<1> SUFFICES ASSUME ListsInv, SearchInv, SearchInv', [Win32Next]_wvars PROVE ListsInv'
  OBVIOUS
<1>1. CASE UNCHANGED wvars
  <2>1. PICK r \in Ranks : /\ \E b \in Nat : Above(r, b)
                           /\ Good(flink, state, loaded, r)
                           /\ pc # "idle" /\ ~broken => Followed(r)
    BY DEF ListsInv
  <2>2. UNCHANGED <<flink, state, loaded, pc, entry, flink_entry, iter, eprocs, module_infos, list,
                    steady, ever, broken>>
    BY <1>1 DEF wvars, guest, walk, lists, past
  <2>3. Followed(r) => Followed(r)'
    BY <2>2 DEF Followed, LookingNow
  <2>4. Good(flink', state', loaded', r)
    BY <2>1, <2>2
  <2> QED BY <2>1, <2>2, <2>3, <2>4 DEF ListsInv
<1> QED BY <1>1, GuestLists, CallingLists, ReadingLists, NextIs

(* What the lists say of a complete walk. *)
LEMMA OnceIs ==
    ASSUME NEW seq, IsInjective(seq), NEW S, \A s \in S : s \in ToSet(seq)
    PROVE  OnceEach(seq, S)
<1> SUFFICES ASSUME NEW s \in S PROVE Cardinality({i \in DOMAIN seq : seq[i] = s}) = 1
  BY DEF OnceEach
<1>1. PICK i \in DOMAIN seq : seq[i] = s
  BY DEF ToSet
<1>2. {j \in DOMAIN seq : seq[j] = s} = {i}
  BY <1>1 DEF IsInjective
<1> QED BY <1>2, FS_Singleton

LEMMA WalkIsTrue == ListsInv => WalkFindsSurvivors
<1> SUFFICES ASSUME ListsInv, pc = "eprocess", ~broken
             PROVE  OnceEach(eprocs, steady \cap Procs) /\ ToSet(eprocs) \subseteq ever \cap Procs
  BY DEF WalkFindsSurvivors
<1>1. PICK r \in Ranks : Followed(r)
  BY DEF ListsInv
<1>2. Found(steady, ever, r, PsHead, eprocs) /\ ever \in SUBSET Items /\ steady \in SUBSET ever
  BY <1>1 DEF Followed, Walking, Kept, Owned
<1>3. /\ eprocs \in Seq(ever \cap Procs) /\ Rising(r, eprocs)
      /\ \A s \in steady \cap Procs : s \in ToSet(eprocs)
  BY <1>2, PsHeadFacts DEF Found
<1>4. eprocs \in Seq(Items) /\ IsInjective(eprocs)
  <2>1. eprocs \in Seq(Items)
    BY <1>3 DEF Items
  <2> QED BY <1>3, <2>1, RisingIsInjective
<1>5. ToSet(eprocs) \subseteq ever \cap Procs
  BY <1>3 DEF ToSet
<1> QED BY <1>3, <1>4, <1>5, OnceIs

LEMMA ModulesAreTrue == ListsInv /\ SearchInv => ModulesFindSurvivors
<1> DEFINE m == Head(module_infos)
<1> SUFFICES ASSUME ListsInv, SearchInv, pc = "mod_info", Readable(m.list), ~broken, m.base # Junk,
                    Len(list) = iter
             PROVE  /\ OnceEach(list, {e \in steady \cap Entries : Module[e].list = m.list})
                    /\ ToSet(list) \subseteq ever \cup {m.list}
  BY DEF ModulesFindSurvivors
<1>1. PICK r \in Ranks : Good(flink, state, loaded, r) /\ Followed(r)
  BY DEF ListsInv
<1>2. m.list \in ModHeads
  BY FirstModuleList DEF ModulePcs
<1>3. Looking(state, steady, ever, r, "mod_info", m.list, m.base, entry, iter, list)
  BY <1>1 DEF Followed, LookingNow, ModulePcs
<1> HIDE DEF m
<1>4. Live(state, m.list)
  BY <1>1, <1>2, ReadableIs, HeadOfFacts DEF Good, GuestTypes
<1>5. Complete(steady, ever, m.list, list)
  BY <1>3, <1>4 DEF Looking
<1>6. \A s \in {e \in steady \cap Entries : Module[e].list = m.list} : s \in ToSet(list)
  <2>1. {e \in steady \cap Entries : Module[e].list = m.list} \subseteq Of(steady, m.list)
    BY HeadOfFacts DEF Of
  <2> QED BY <1>5, <2>1 DEF Complete
<1> QED BY <1>5, <1>6, OnceIs DEF Complete

----------------------------------------------------------------------------
(* What was there all the time *)

(* A module that was there all the time is there, and so was its process.  *)
SteadyInv ==
    /\ faults \in Nat
    /\ \A e \in steady \cap Entries : e \in loaded /\ Module[e].list[1] \in steady \cup {Kernel}

LEMMA SteadyShrinks == GuestNext => steady' \subseteq steady
<1>1. ASSUME NEW p \in Procs, Spawn(p) \/ Exit(p) \/ Delete(p) \/ Free(p) PROVE steady' \subseteq steady
  BY <1>1 DEF Spawn, Exit, Delete, Free
<1>2. ASSUME NEW e \in Entries, Load(e) \/ Unload(e) PROVE steady' \subseteq steady
  BY <1>2 DEF Load, Unload
<1> QED BY <1>1, <1>2 DEF GuestNext

LEMMA LoadedIsLive ==
    ASSUME Tidy, NEW e \in loaded
    PROVE  /\ e \in Entries /\ Live(state, Module[e].list) /\ Module[e].list \in ModHeads
           /\ Module[e].list[1] \in Procs \cup {Kernel} /\ Running(Module[e].list[1])
           /\ Readable(e) /\ flink[e] \in Nodes
           /\ Module[e].list[1] # Kernel => state[Module[e].list[1]] = "alive"
<1>1. PICK r \in Ranks : Good(flink, state, loaded, r)
  BY DEF Tidy
<1>2. e \in Entries /\ state \in [Procs -> States] /\ Live(state, Module[e].list)
  BY <1>1 DEF Good, GuestTypes, DeadSpaces
<1>3. Module[e].list \in ModHeads /\ HeadOf(e) = Module[e].list
  BY <1>2, HeadOfFacts
<1>4. Readable(e)
  BY <1>2, <1>3, ReadableIs
<1>5. flink[e] \in Nodes
  BY <1>1, OwnList
<1>6. /\ Module[e].list[1] \in Procs \cup {Kernel}
      /\ Module[e].list[1] = Kernel \/ state[Module[e].list[1]] = "alive"
  BY <1>2, <1>3, LiveFacts
<1> QED BY <1>2, <1>3, <1>4, <1>5, <1>6 DEF Running

LEMMA FaultsStay ==
    ASSUME faults \in Nat, Reading \/ Calling
    PROVE  faults' \in Nat
<1>1. \A n : Fault \/ ReadFails(n) \/ faults' = faults => faults' \in Nat
  BY DEF Fault, ReadFails
<1>2. ASSUME Reading PROVE faults' \in Nat
  <2>1. CASE WalkFlink \/ WalkBlink \/ ModFlink
    BY <1>1, <2>1 DEF WalkFlink, WalkBlink, ModFlink
  <2>2. CASE EprocessFields \/ ProcessContext \/ ModInfo \/ ReadKbase
    BY <1>1, <2>2 DEF EprocessFields, ProcessContext, ModInfo, ReadKbase
  <2>3. CASE InfosDone \/ Candidate \/ NextList \/ ModulesDone \/ Tried \/ KernelModules
    BY <2>3 DEF InfosDone, Candidate, NextList, ModulesDone, Tried, KernelModules
  <2> QED BY <1>2, <2>1, <2>2, <2>3 DEF Reading
<1>3. ASSUME Calling PROVE faults' \in Nat
  <2>1. PICK r \in Requests : \/ CallWalk(r) \/ CallKernel(r) \/ CallModules(r)
                              \/ \E down \in {{}, {0}, {r.vk}} : KeyState(r, down)
    BY <1>3 DEF Calling
  <2>2. CASE CallWalk(r) \/ CallModules(r)
    BY <2>2 DEF CallWalk, CallModules
  <2>3. CASE CallKernel(r) \/ \E down \in {{}, {0}, {r.vk}} : KeyState(r, down)
    BY <1>1, <2>3 DEF CallKernel, KeyState
  <2> QED BY <2>1, <2>2, <2>3
<1> QED BY <1>2, <1>3

LEMMA SteadyStep == Tidy /\ SteadyInv /\ [Win32Next]_wvars => SteadyInv'
<1> SUFFICES ASSUME Tidy, SteadyInv, [Win32Next]_wvars PROVE SteadyInv'
  OBVIOUS
<1>1. CASE GuestNext
  <2>1. faults' \in Nat
    BY <1>1, GuestKeeps DEF SteadyInv
  <2> SUFFICES ASSUME NEW e \in steady' \cap Entries
               PROVE  e \in loaded' /\ Module[e].list[1] \in steady' \cup {Kernel}
    BY <2>1 DEF SteadyInv
  <2>2. e \in steady /\ e \in loaded /\ Module[e].list[1] \in steady \cup {Kernel}
    BY <1>1, SteadyShrinks DEF SteadyInv
  <2>3. /\ Module[e].list[1] \in Procs \cup {Kernel} /\ e \notin Procs
        /\ Module[e].list[1] # Kernel => state[Module[e].list[1]] = "alive"
        /\ Kernel \notin Procs /\ Procs \cap Entries = {}
    BY <2>2, LoadedIsLive, NodesAssumption
  <2>4. ASSUME NEW p \in Procs, Spawn(p)
        PROVE  e \in loaded' /\ Module[e].list[1] \in steady' \cup {Kernel}
    BY <2>2, <2>4 DEF Spawn
  <2>5. ASSUME NEW p \in Procs, Exit(p)
        PROVE  e \in loaded' /\ Module[e].list[1] \in steady' \cup {Kernel}
    BY <2>2, <2>3, <2>5 DEF Exit
  <2>6. ASSUME NEW p \in Procs, Delete(p)
        PROVE  e \in loaded' /\ Module[e].list[1] \in steady' \cup {Kernel}
    BY <2>2, <2>3, <2>6 DEF Delete
  <2>7. ASSUME NEW p \in Procs, Free(p)
        PROVE  e \in loaded' /\ Module[e].list[1] \in steady' \cup {Kernel}
    BY <2>2, <2>7 DEF Free
  <2>8. ASSUME NEW x \in Entries, Load(x)
        PROVE  e \in loaded' /\ Module[e].list[1] \in steady' \cup {Kernel}
    BY <2>2, <2>8 DEF Load
  <2>9. ASSUME NEW x \in Entries, Unload(x)
        PROVE  e \in loaded' /\ Module[e].list[1] \in steady' \cup {Kernel}
    BY <2>2, <2>3, <2>9 DEF Unload
  <2> QED BY <1>1, <2>4, <2>5, <2>6, <2>7, <2>8, <2>9 DEF GuestNext
<1>2. CASE Calling
  <2>1. loaded' = loaded /\ steady' = Linked \cup loaded /\ faults' \in Nat
    BY <1>2, CallingKeeps, FaultsStay DEF SteadyInv
  <2>2. ASSUME NEW e \in loaded PROVE Module[e].list[1] \in Linked \cup {Kernel}
    BY LoadedIsLive DEF Linked
  <2>3. Linked \cap Entries = {}
    BY NodesAssumption DEF Linked
  <2> QED BY <2>1, <2>2, <2>3 DEF SteadyInv
<1>3. CASE Reading
  <2>1. loaded' = loaded /\ steady' = steady /\ faults' \in Nat
    BY <1>3, ReadingKeeps, FaultsStay DEF SteadyInv
  <2> QED BY <2>1 DEF SteadyInv
<1>4. CASE UNCHANGED wvars
  BY <1>4 DEF wvars, guest, past, SteadyInv
<1> QED BY <1>1, <1>2, <1>3, <1>4, NextIs

----------------------------------------------------------------------------
(* The search for a process *)

(* A module that process_info must come to ... *)
Target(e) ==
    LET p == Module[e].list[1] IN
    /\ e \in steady \cap Entries /\ p # Kernel /\ ~Process[p].kernel
    /\ Module[e].list[2] = "wow64" => (Process[p].wow64 /\ Process[p].teb)
    /\ Module[e].name = Head(names) /\ has_name(e)
    /\ Process[p].name = short[Head(names)]

(* ... where nothing kept it from reading. *)
Clean == call.op = "info" /\ faults = 0 /\ ~aborted /\ ~broken

Known(i, p)     == i.address = p /\ i.native # Junk
KnownIn(seq, p) == \E k \in DOMAIN seq : Known(seq[k], p)

(* Its list is walked or still to be walked, it is to be looked at, or it  *)
(* was seen.                                                               *)
Ahead(e) == \E k \in DOMAIN module_infos \ {1} :
               module_infos[k].list = Module[e].list /\ module_infos[k].base # Junk
Pursued(e) ==
    \/ Has(Head(names)) \/ Ahead(e)
    \/ /\ pc = "mod_flink" /\ Head(module_infos).list = Module[e].list
       /\ Head(module_infos).base # Junk
    \/ pc = "mod_info" /\ e \in ToSet(list)

Chased(e) ==
    LET p == Module[e].list[1] IN
    /\ pc \in {"eprocess", "context"} => p \in ToSet(list) \/ KnownIn(infos, p)
    /\ pc = "candidate" => KnownIn(candidates, p)
    /\ pc \in ModulePcs =>
           \/ KnownIn(Tail(candidates), p)
           \/ Known(Head(candidates), p) /\ Pursued(e)
    /\ pc = "idle" => result.status # "error"

ChaseInv ==
    /\ call.op = "info" => Len(names) = 1
    /\ pc = "context" => list # <<>> /\ info = Fields(Head(list))
    /\ Clean => /\ pc \in {"eprocess", "context"} => list \in Seq(Procs)
                /\ \A e : Target(e) => Chased(e)

LEMMA TargetFacts ==
    ASSUME Tidy, SteadyInv, NEW e, Target(e)
    PROVE  LET p == Module[e].list[1] IN
           /\ e \in Entries /\ p \in Procs /\ p \in steady /\ state[p] = "alive" /\ Running(p)
           /\ HasPeb(p) /\ ~Process[p].kernel
           /\ Readable(e) /\ flink[e] \in Nodes
           /\ Module[e].list \in ModHeads /\ Live(state, Module[e].list)
           /\ \/ Module[e].list = Natives(p)
              \/ Module[e].list = Wow64s(p) /\ Process[p].wow64 /\ Process[p].teb
<1> DEFINE p == Module[e].list[1]
<1>1. /\ e \in steady \cap Entries /\ p # Kernel /\ ~Process[p].kernel
      /\ Module[e].list[2] = "wow64" => (Process[p].wow64 /\ Process[p].teb)
  BY DEF Target
<1>2. e \in loaded /\ p \in steady
  BY <1>1 DEF SteadyInv
<1>3. /\ e \in Entries /\ Live(state, Module[e].list) /\ Module[e].list \in ModHeads
      /\ p \in Procs /\ Running(p) /\ Readable(e) /\ flink[e] \in Nodes /\ state[p] = "alive"
  BY <1>1, <1>2, LoadedIsLive
<1>4. \E a \in Procs \cup {Kernel} : \E k \in {"native", "wow64"} : Module[e].list = <<a, k>>
  BY <1>3 DEF ModHeads
<1>5. PICK k \in {"native", "wow64"} : Module[e].list = <<p, k>>
  BY <1>4
<1>6. \/ Module[e].list = Natives(p)
      \/ Module[e].list = Wow64s(p) /\ Process[p].wow64 /\ Process[p].teb
  BY <1>1, <1>5 DEF Natives, Wow64s
<1> QED BY <1>1, <1>2, <1>3, <1>6 DEF HasPeb

(* A call that could read everything until now could do so before. *)
LEMMA ReadingClean ==
    ASSUME SteadyInv, ChaseInv, Reading, Clean'
    PROVE  /\ Clean /\ Len(names) = 1 /\ names' = names /\ ~Fault /\ aborted' = aborted
           /\ \A e : Target(e)' => Target(e)
<1>1. /\ call' = call /\ broken' = broken /\ steady' = steady
      /\ call.op = "info" /\ faults' = 0 /\ ~aborted' /\ ~broken /\ faults \in Nat
  BY ReadingKeeps DEF Clean, SteadyInv
<1>2. Len(names) = 1
  BY <1>1 DEF ChaseInv
<1>3. ~Fault
  BY <1>1 DEF Fault
<1>4. Fail => names' = names
  BY <1>2 DEF Fail
<1>5. /\ names' = names /\ aborted' = aborted
      /\ faults' = faults \/ Fault \/ \E n : ReadFails(n)
  <2>1. CASE WalkFlink \/ WalkBlink \/ ModFlink
    BY <1>1, <1>4, <2>1 DEF WalkFlink, WalkBlink, ModFlink
  <2>2. CASE EprocessFields \/ ProcessContext \/ ModInfo \/ ReadKbase
    BY <2>2 DEF EprocessFields, ProcessContext, ModInfo, ReadKbase
  <2>3. CASE InfosDone \/ Candidate \/ NextList \/ ModulesDone \/ Tried
    BY <1>4, <2>3 DEF InfosDone, Candidate, NextList, ModulesDone, Tried
  <2>4. ~KernelModules
    BY <1>1 DEF KernelModules
  <2> QED BY <2>1, <2>2, <2>3, <2>4 DEF Reading
<1>6. faults = 0
  BY <1>1, <1>3, <1>5 DEF ReadFails
<1>7. Clean
  BY <1>1, <1>5, <1>6 DEF Clean
<1>8. \A e : Target(e)' => Target(e)
  BY <1>1, <1>5 DEF Target
<1> QED BY <1>2, <1>3, <1>5, <1>7, <1>8

(* What the walk stands at can be read. *)
LEMMA WalkCanRead ==
    ASSUME ListsInv, pc \in {"flink", "blink"}, ~broken
    PROVE  Readable(entry)
<1>1. PICK r \in Ranks : Followed(r)
  BY DEF ListsInv
<1>2. Sought(steady, ever, r, PsHead, eprocs, entry) /\ ever \in SUBSET Items
  BY <1>1 DEF Followed, Walking, Kept, Owned
<1>3. entry \in Procs \cup {PsHead}
  BY <1>2, PsHeadFacts DEF Sought
<1> QED BY <1>3, NodesAssumption DEF Readable, Nodes, Heads

(* Who was there all the time is in the list of a complete walk. *)
LEMMA FoundIsAll ==
    ASSUME NEW r, NEW E \in SUBSET Items, NEW S \in SUBSET E, NEW seq, Found(S, E, r, PsHead, seq)
    PROVE  seq \in Seq(Procs) /\ S \cap Procs \subseteq ToSet(seq)
<1>1. Of(E, PsHead) = E \cap Procs /\ Of(S, PsHead) = S \cap Procs
  BY PsHeadFacts
<1>2. seq \in Seq(E \cap Procs) /\ \A s \in S \cap Procs : s \in ToSet(seq)
  BY <1>1 DEF Found
<1> QED BY <1>2

LEMMA CompleteIsAll ==
    ASSUME NEW S, NEW E, NEW h, NEW seq, Complete(S, E, h, seq),
           NEW e \in S \cap Entries, Module[e].list = h
    PROVE  e \in ToSet(seq)
<1>1. e \in Of(S, h)
  BY HeadOfFacts DEF Of
<1> QED BY <1>1 DEF Complete

LEMMA LookCounts ==
    ASSUME ListsInv, pc = "mod_flink", ~broken
    PROVE  iter = Len(list)
<1>1. PICK r \in Ranks : Followed(r)
  BY DEF ListsInv
<1> QED BY <1>1 DEF Followed, LookingNow, Looking, ModulePcs

(* The first element of a sequence, and the others. *)
LEMMA HeadAndTail ==
    ASSUME NEW T, NEW s \in Seq(T), s # <<>>
    PROVE  /\ Head(s) = s[1] /\ 1 \in DOMAIN s /\ Tail(s) \in Seq(T) /\ Head(s) \in T
           /\ \A x \in ToSet(s) : x = Head(s) \/ x \in ToSet(Tail(s))
           /\ \A k \in DOMAIN s : k = 1 \/ (k - 1 \in DOMAIN Tail(s) /\ Tail(s)[k - 1] = s[k])
           /\ Len(s) = 1 => Tail(s) = <<>>
<1> DEFINE t == Tail(s)
<1>1. /\ Len(s) \in Nat /\ Len(s) # 0 /\ t \in Seq(T) /\ Len(t) = Len(s) - 1 /\ DOMAIN t = 1..Len(t)
      /\ \A k \in 1..Len(t) : t[k] = s[k + 1]
      /\ Head(s) = s[1] /\ DOMAIN s = 1..Len(s)
  OBVIOUS
<1>2. 1 \in DOMAIN s /\ Head(s) \in T
  BY <1>1
<1> HIDE DEF t
<1>3. \A k \in DOMAIN s : k = 1 \/ (k - 1 \in DOMAIN t /\ t[k - 1] = s[k])
  <2> SUFFICES ASSUME NEW k \in DOMAIN s, k # 1 PROVE k - 1 \in DOMAIN t /\ t[k - 1] = s[k]
    OBVIOUS
  <2>1. k - 1 \in 1..Len(t) /\ (k - 1) + 1 = k
    BY <1>1
  <2> QED BY <1>1, <2>1
<1>4. \A x \in ToSet(s) : x = Head(s) \/ x \in ToSet(t)
  <2> SUFFICES ASSUME NEW x \in ToSet(s) PROVE x = Head(s) \/ x \in ToSet(t)
    OBVIOUS
  <2>1. PICK k \in DOMAIN s : s[k] = x
    BY DEF ToSet
  <2>2. k = 1 \/ (k - 1 \in DOMAIN t /\ t[k - 1] = x)
    BY <1>3, <2>1
  <2> QED BY <1>1, <2>1, <2>2 DEF ToSet
<1>5. Len(s) = 1 => t = <<>>
  BY <1>1
<1> QED BY <1>1, <1>2, <1>3, <1>4, <1>5 DEF t

LEMMA KnownInFacts ==
    ASSUME NEW T, NEW s \in Seq(T), NEW p
    PROVE  /\ s # <<>> /\ KnownIn(s, p) => Known(Head(s), p) \/ KnownIn(Tail(s), p)
           /\ \A i \in T : KnownIn(s, p) \/ Known(i, p) => KnownIn(Append(s, i), p)
           /\ ~KnownIn(<<>>, p)
<1>1. s # <<>> /\ KnownIn(s, p) => Known(Head(s), p) \/ KnownIn(Tail(s), p)
  BY HeadAndTail DEF KnownIn
<1>2. ASSUME NEW i \in T, KnownIn(s, p) \/ Known(i, p) PROVE KnownIn(Append(s, i), p)
  <2> DEFINE t == Append(s, i)
  <2>1. /\ DOMAIN t = 1..(Len(s) + 1) /\ DOMAIN s = 1..Len(s) /\ Len(s) \in Nat
        /\ t[Len(s) + 1] = i /\ \A k \in DOMAIN s : t[k] = s[k]
    OBVIOUS
  <2> HIDE DEF t
  <2>2. Len(s) + 1 \in DOMAIN t /\ DOMAIN s \subseteq DOMAIN t
    BY <2>1
  <2>3. CASE KnownIn(s, p)
    <3>1. PICK k \in DOMAIN s : Known(s[k], p)
      BY <2>3 DEF KnownIn
    <3>2. k \in DOMAIN t /\ t[k] = s[k]
      BY <2>1, <2>2
    <3>3. KnownIn(t, p)
      BY <3>1, <3>2 DEF KnownIn
    <3> QED BY <3>3 DEF t
  <2>4. CASE Known(i, p)
    <3>1. KnownIn(t, p)
      BY <2>1, <2>2, <2>4 DEF KnownIn
    <3> QED BY <3>1 DEF t
  <2> QED BY <1>2, <2>3, <2>4
<1>3. ~KnownIn(<<>>, p)
  BY DEF KnownIn
<1> QED BY <1>1, <1>2, <1>3

(* What a step of a call knows if it leaves everything readable. *)
CleanRead(A) == /\ ListsInv /\ SearchInv /\ SteadyInv /\ ChaseInv /\ A /\ Reading
                /\ ListsInv' /\ SearchInv' /\ Clean'
Chasing == \A e : Target(e) => Chased(e)

LEMMA ChasedFlink ==
    ASSUME CleanRead(WalkFlink)
    PROVE  pc' = "blink"
<1>1. pc = "flink" /\ ~broken /\ ~Fault
  BY ReadingClean DEF CleanRead, WalkFlink, Clean
<1>2. Readable(entry)
  BY <1>1, WalkCanRead DEF CleanRead
<1> QED BY <1>1, <1>2 DEF CleanRead, WalkFlink, ReadFails

LEMMA ChasedBlink ==
    ASSUME CleanRead(WalkBlink)
    PROVE  \/ pc' = "flink"
           \/ pc' = "eprocess" /\ list' \in Seq(Procs) /\ Chasing'
<1>1. pc = "blink" /\ ~broken /\ ~Fault /\ ~broken' /\ steady' = steady
  BY ReadingClean, ReadingKeeps DEF CleanRead, WalkBlink, Clean
<1>2. Readable(entry)
  BY <1>1, WalkCanRead DEF CleanRead
<1>3. pc' = "flink" \/ (pc' = "eprocess" /\ list' = eprocs')
  BY <1>1, <1>2 DEF CleanRead, WalkBlink, ReadFails
<1>4. CASE pc' = "eprocess" /\ list' = eprocs'
  <2>1. PICK r \in Ranks : Followed(r)'
    BY <1>1, <1>4 DEF CleanRead, ListsInv
  <2>2. /\ Walking(steady', ever', r, pc', entry', flink_entry', iter', eprocs')
        /\ Kept(flink', state', loaded', steady', ever', r)
    BY <2>1 DEF Followed
  <2>3. Found(steady', ever', r, PsHead, eprocs') /\ ever' \in SUBSET Items /\ steady' \in SUBSET ever'
    BY <1>4, <2>2 DEF Walking, Kept, Owned
  <2>4. eprocs' \in Seq(Procs) /\ steady' \cap Procs \subseteq ToSet(eprocs')
    BY <2>3, FoundIsAll
  <2>5. ASSUME NEW e, Target(e)' PROVE Chased(e)'
    <3>1. Target(e)
      BY <2>5, ReadingClean DEF CleanRead
    <3>2. Module[e].list[1] \in Procs /\ Module[e].list[1] \in steady
      BY <3>1, TargetFacts, ListsAreTidy DEF CleanRead
    <3>3. Module[e].list[1] \in ToSet(list')
      BY <1>1, <1>4, <2>4, <3>2
    <3> QED BY <1>4, <3>3 DEF Chased, ModulePcs
  <2> QED BY <1>4, <2>4, <2>5 DEF Chasing
<1> QED BY <1>3, <1>4

LEMMA ChasedFields ==
    ASSUME CleanRead(EprocessFields)
    PROVE  list' \in Seq(Procs) /\ Chasing'
<1>1. pc = "eprocess" /\ list # <<>> /\ ~Fault /\ infos' = infos
  BY ReadingClean DEF CleanRead, EprocessFields
<1>2. list \in Seq(Procs)
  BY <1>1, ReadingClean DEF CleanRead, ChaseInv
<1> DEFINE q == Head(list)
<1>3. \/ pc' = "context" /\ list' = list
      \/ ~HasPeb(q) /\ pc' = pc /\ list' = Tail(list)
  BY <1>1 DEF CleanRead, EprocessFields
<1> HIDE DEF q
<1>4. list' \in Seq(Procs)
  BY <1>1, <1>2, <1>3
<1>5. ASSUME NEW e, Target(e)' PROVE Chased(e)'
  <2> DEFINE p == Module[e].list[1]
  <2>1. Target(e) /\ Clean
    BY <1>5, ReadingClean DEF CleanRead
  <2>2. HasPeb(p)
    BY <2>1, TargetFacts, ListsAreTidy DEF CleanRead
  <2>3. Chased(e)
    BY <2>1 DEF CleanRead, ChaseInv
  <2>4. p \in ToSet(list) \/ KnownIn(infos, p)
    BY <1>1, <2>3 DEF Chased
  <2>5. pc' \in {"eprocess", "context"} /\ pc' \notin ModulePcs
    BY <1>1, <1>3 DEF ModulePcs
  <2> HIDE DEF p
  <2>6. p \in ToSet(list) => p = q \/ p \in ToSet(Tail(list))
    BY <1>1, <1>2, HeadAndTail DEF q
  <2>7. p \in ToSet(list') \/ KnownIn(infos', p)
    BY <1>1, <1>3, <2>2, <2>4, <2>6
  <2> QED BY <2>5, <2>7 DEF Chased, p
<1> QED BY <1>4, <1>5 DEF Chasing

LEMMA ChasedContext ==
    ASSUME CleanRead(ProcessContext)
    PROVE  pc' = "eprocess" /\ list' \in Seq(Procs) /\ Chasing'
<1>1. pc = "context" /\ ~Fault /\ list' = Tail(list) /\ pc' = "eprocess" /\ flink' = flink
  BY ReadingClean DEF CleanRead, ProcessContext, Reader, guest
<1>2. list # <<>> /\ info = Fields(Head(list)) /\ list \in Seq(Procs)
  BY <1>1, ReadingClean DEF CleanRead, ChaseInv
<1> DEFINE q == Head(list)
           w == IF Process[q].wow64 /\ Process[q].teb THEN flink[Wow64s(q)] ELSE Null
           i == Filled(q, flink[Natives(q)], w)
<1>3. q \in Procs /\ list' \in Seq(Procs)
  BY <1>1, <1>2
<1>4. info.address = q /\ info.wow64 = Process[q].wow64 /\ info.teb = Process[q].teb
  BY <1>2, FieldsIs DEF InfoWith
<1>5. Running(q) => infos' = Append(infos, i)
  <2> SUFFICES ASSUME Running(q) PROVE infos' = Append(infos, i)
    OBVIOUS
  <2>1. infos' = Append(infos, [info EXCEPT
                !.native = flink[Natives(info.address)],
                !.wow = IF info.wow64 /\ info.teb THEN flink[Wow64s(info.address)] ELSE Null])
    BY <1>1, <1>4 DEF CleanRead, ProcessContext
  <2>2. infos' = Append(infos, [Fields(q) EXCEPT !.native = flink[Natives(q)], !.wow = w])
    BY <1>2, <1>4, <2>1
  <2> QED BY <2>2 DEF Filled
<1>6. infos' = infos \/ \E x : infos' = Append(infos, x)
  BY DEF CleanRead, ProcessContext
<1>7. infos \in Seq(Origins)
  BY <1>1 DEF CleanRead, SearchInv, WalkTyped, WalkPcs
<1>8. ASSUME NEW p, KnownIn(infos, p) PROVE KnownIn(infos', p)
  <2>1. CASE infos' = infos
    BY <1>8, <2>1
  <2>2. ASSUME NEW x, infos' = Append(infos, x) PROVE KnownIn(infos', p)
    <3> DEFINE T == Origins \cup {x}
    <3>1. infos \in Seq(T) /\ x \in T
      BY <1>7
    <3> HIDE DEF T
    <3>2. KnownIn(Append(infos, x), p)
      BY <1>8, <3>1, KnownInFacts
    <3> QED BY <2>2, <3>2
  <2> QED BY <1>6, <2>1, <2>2
<1>9. ASSUME Running(q), ~Process[q].kernel PROVE KnownIn(infos', q)
  <2>1. i \in Origins /\ i.address = q
    BY <1>3, <1>9, ProcessIsKnown, FieldsFilled, ListsAreTidy DEF CleanRead, InfoWith
  <2>2. i.native = flink[Natives(q)]
    BY FieldsFilled DEF InfoWith
  <2> HIDE DEF q, w, i
  <2>3. flink[Natives(q)] # Junk
    <3>1. Tidy /\ q \in Procs
      BY <1>3, ListsAreTidy DEF CleanRead
    <3>2. /\ Natives(q) \in ModHeads /\ Natives(q)[1] = q /\ Loads[Natives(q)] # <<>>
      BY <1>9, <3>1, LoadsAssumption DEF Natives, ModHeads
    <3>3. state \in [Procs -> States] /\ q # Kernel
      BY <3>1, TidyFacts, NodesAssumption
    <3>4. Live(state, Natives(q))
      BY <1>9, <3>2, <3>3, LiveFacts DEF Running
    <3>5. flink[Natives(q)] \in Entries
      BY <3>1, <3>2, <3>4, TidyFacts, FirstEntry
    <3> QED BY <3>5, NodesAssumption DEF Nodes
  <2>4. Known(i, q)
    BY <2>1, <2>2, <2>3 DEF Known
  <2>5. KnownIn(Append(infos, i), q)
    BY <1>7, <2>1, <2>4, KnownInFacts
  <2> QED BY <1>5, <1>9, <2>5
<1> HIDE DEF q, w, i
<1>10. ASSUME NEW e, Target(e)' PROVE Chased(e)'
  <2> DEFINE p == Module[e].list[1]
  <2>1. Target(e) /\ Clean
    BY <1>10, ReadingClean DEF CleanRead
  <2>2. Running(p) /\ ~Process[p].kernel
    BY <2>1, TargetFacts, ListsAreTidy DEF CleanRead
  <2>3. Chased(e)
    BY <2>1 DEF CleanRead, ChaseInv
  <2>4. p \in ToSet(list) \/ KnownIn(infos, p)
    BY <1>1, <2>3 DEF Chased
  <2> HIDE DEF p
  <2>6. p \in ToSet(list) => p = q \/ p \in ToSet(Tail(list))
    BY <1>2, HeadAndTail DEF q
  <2>7. p \in ToSet(list') \/ KnownIn(infos', p)
    BY <1>1, <1>8, <1>9, <2>2, <2>4, <2>6
  <2> QED BY <1>1, <2>7 DEF Chased, ModulePcs, p
<1> QED BY <1>1, <1>3, <1>10 DEF Chasing

LEMMA ChasedInfos ==
    ASSUME CleanRead(InfosDone)
    PROVE  pc' = "candidate" /\ Chasing'
<1>1. pc = "eprocess" /\ list = <<>> /\ call.op = "info" /\ names' = names
  BY ReadingClean DEF CleanRead, InfosDone, Clean
<1>2. pc' = "candidate" /\ candidates' = named(Head(names))
  BY <1>1 DEF CleanRead, InfosDone
<1>3. infos \in Seq(Origins)
  BY <1>1 DEF CleanRead, SearchInv, WalkTyped, WalkPcs
<1>4. ASSUME NEW e, Target(e)' PROVE Chased(e)'
  <2> DEFINE p == Module[e].list[1]
  <2>1. Target(e) /\ Clean
    BY <1>4, ReadingClean DEF CleanRead
  <2>2. p \in Procs /\ Process[p].name = short[Head(names)]
    BY <2>1, TargetFacts, ListsAreTidy DEF CleanRead, Target
  <2>3. Chased(e) /\ ToSet(list) = {}
    BY <1>1, <2>1 DEF CleanRead, ChaseInv, ToSet
  <2>4. KnownIn(infos, p)
    BY <1>1, <2>3 DEF Chased
  <2> HIDE DEF p
  <2>5. PICK k \in DOMAIN infos : infos[k].address = p /\ infos[k].native # Junk
    BY <2>4 DEF KnownIn, Known
  <2>6. infos[k].name = short[Head(names)]
    BY <1>3, <2>2, <2>5 DEF Origins
  <2>7. \E j \in DOMAIN named(Head(names)) : named(Head(names))[j] = infos[k]
    BY <1>3, <2>6, NamedIs
  <2>8. KnownIn(candidates', p)
    BY <1>2, <2>5, <2>7 DEF KnownIn, Known
  <2> QED BY <1>2, <2>8 DEF Chased, ModulePcs, p
<1> QED BY <1>2, <1>4 DEF Chasing

LEMMA ChasedCandidate ==
    ASSUME CleanRead(Candidate)
    PROVE  pc' \in {"idle", "mod_flink"} /\ Chasing'
<1>1. pc = "candidate" /\ names' = names /\ Len(names) = 1 /\ Clean
  BY ReadingClean DEF CleanRead, Candidate
<1>2. names # <<>> /\ Named(candidates, Head(names)) /\ candidates \in Seq(Origins)
  BY <1>1 DEF CleanRead, SearchInv, CandidatesNamed, Named
<1>3. CASE candidates = <<>>
  <2>1. pc' = "idle"
    BY <1>1, <1>3 DEF CleanRead, Candidate, Fail, Return
  <2>2. ASSUME NEW e, Target(e)' PROVE FALSE
    <3>1. Target(e) /\ Chased(e)
      BY <2>2, ReadingClean DEF CleanRead, ChaseInv
    <3>2. KnownIn(<<>>, Module[e].list[1])
      BY <1>1, <1>3, <3>1 DEF Chased
    <3> QED BY <3>2 DEF KnownIn
  <2> QED BY <2>1, <2>2 DEF Chasing
<1>4. CASE candidates # <<>>
  <2> DEFINE i == Head(candidates)
  <2>1. i \in Origins /\ StartModules(i) /\ candidates' = candidates
    BY <1>2, <1>4 DEF CleanRead, Candidate
  <2>2. pc' = "mod_flink" /\ module_infos' = ListsOf(i)
    BY <2>1 DEF StartModules
  <2> HIDE DEF i
  <2>3. ASSUME NEW e, Target(e)' PROVE Chased(e)'
    <3> DEFINE p == Module[e].list[1]
    <3>1. Target(e) /\ Chased(e)
      BY <2>3, ReadingClean DEF CleanRead, ChaseInv
    <3>2. /\ p \in Procs
          /\ \/ Module[e].list = Natives(p)
             \/ Module[e].list = Wow64s(p) /\ Process[p].wow64 /\ Process[p].teb
      BY <3>1, TargetFacts, ListsAreTidy DEF CleanRead
    <3>3. Known(i, p) \/ KnownIn(Tail(candidates), p)
      BY <1>1, <1>2, <1>4, <3>1, KnownInFacts DEF Chased, i
    <3>4. ASSUME Known(i, p) PROVE Pursued(e)'
      <4> HIDE DEF p
      <4>1. i.address = p /\ i.native # Junk
        BY <3>4 DEF Known
      <4>2. CASE Module[e].list = Natives(p)
        <5>1. Head(module_infos').list = Module[e].list /\ Head(module_infos').base # Junk
          BY <2>1, <2>2, <4>1, <4>2, ListsOfIs
        <5> QED BY <2>2, <5>1 DEF Pursued
      <4>3. CASE Module[e].list = Wow64s(p) /\ Process[p].wow64 /\ Process[p].teb
        <5>1. i.wow # Null /\ i.wow \in Entries \cup {Null}
          BY <2>1, <3>2, <4>1, <4>3 DEF Origins, Infos
        <5>2. i.wow # Junk
          BY <5>1, NodesAssumption DEF Nodes
        <5>3. /\ Len(module_infos') = 2 /\ module_infos' \in Seq(Bases)
              /\ module_infos'[2].list = Module[e].list /\ module_infos'[2].base # Junk
          BY <2>1, <2>2, <4>1, <4>3, <5>1, <5>2, ListsOfIs
        <5>4. 2 \in DOMAIN module_infos' \ {1}
          BY <5>3
        <5>5. Ahead(e)'
          BY <5>3, <5>4 DEF Ahead
        <5> QED BY <5>5 DEF Pursued
      <4> QED BY <3>2, <4>2, <4>3 DEF p
    <3>5. KnownIn(Tail(candidates'), p) \/ (Known(Head(candidates'), p) /\ Pursued(e)')
      BY <2>1, <3>3, <3>4 DEF i
    <3> QED BY <2>2, <3>5 DEF Chased
  <2> QED BY <2>2, <2>3 DEF Chasing
<1> QED BY <1>3, <1>4

LEMMA ChasedModFlink ==
    ASSUME CleanRead(ModFlink)
    PROVE  pc' \in ModulePcs /\ Chasing'
<1>1. /\ pc = "mod_flink" /\ ~broken /\ aborted' = aborted /\ Clean /\ ~broken' /\ ~aborted'
      /\ state' = state /\ steady' = steady /\ names' = names
  BY ReadingClean, ReadingKeeps DEF CleanRead, ModFlink, Clean
<1>2. /\ list' = Append(list, entry) /\ iter' = iter + 1
      /\ pc' = "mod_info" \/ pc' = pc
      /\ module_infos' = module_infos /\ modules' = modules /\ candidates' = candidates
  BY <1>1 DEF CleanRead, ModFlink
<1>3. iter = Len(list)
  BY <1>1, LookCounts DEF CleanRead
<1>4. list \in Seq(NodesOf(Head(module_infos).list))
  BY <1>1, FirstModuleList DEF CleanRead, ModulePcs
<1>5. Len(list') = iter'
  <2>1. Len(Append(list, entry)) = Len(list) + 1
    BY <1>4
  <2> QED BY <1>2, <1>3, <2>1
<1>6. ASSUME NEW e, Target(e)' PROVE Chased(e)'
  <2> DEFINE p == Module[e].list[1]
  <2>1. Target(e) /\ Chased(e)
    BY <1>6, ReadingClean DEF CleanRead, ChaseInv
  <2>2. /\ e \in steady \cap Entries /\ Live(state, Module[e].list)
    BY <2>1, TargetFacts, ListsAreTidy DEF CleanRead, Target
  <2>3. \/ KnownIn(Tail(candidates), p)
        \/ Known(Head(candidates), p) /\ Pursued(e)
    BY <1>1, <2>1 DEF Chased, ModulePcs
  <2> HIDE DEF p
  <2>4. ASSUME Pursued(e) PROVE Pursued(e)'
    <3>1. CASE Has(Head(names)) \/ Ahead(e)
      BY <1>1, <1>2, <3>1 DEF Pursued, Has, Ahead
    <3>2. CASE pc' = pc
      BY <1>1, <1>2, <2>4, <3>2 DEF Pursued, Has, Ahead
    <3>3. CASE pc' = "mod_info" /\ ~(Has(Head(names)) \/ Ahead(e))
      <4> DEFINE h == Head(module_infos').list
      <4>1. h = Module[e].list /\ Head(module_infos').base # Junk
        BY <1>1, <1>2, <2>4, <3>3 DEF Pursued
      <4>2. PICK r \in Ranks : Followed(r)'
        BY <1>1, <3>3 DEF CleanRead, ListsInv
      <4>3. Looking(state', steady', ever', r, "mod_info", h, Head(module_infos').base, entry', iter', list')
        BY <3>3, <4>2 DEF Followed, LookingNow, ModulePcs
      <4>4. Complete(steady', ever', h, list')
        BY <1>1, <1>5, <2>2, <4>1, <4>3 DEF Looking
      <4> HIDE DEF h
      <4>5. e \in ToSet(list')
        BY <1>1, <2>2, <4>1, <4>4, CompleteIsAll
      <4> QED BY <3>3, <4>5 DEF Pursued
    <3> QED BY <1>2, <3>1, <3>2, <3>3
  <2>5. \/ KnownIn(Tail(candidates'), p)
        \/ Known(Head(candidates'), p) /\ Pursued(e)'
    BY <1>2, <2>3, <2>4
  <2>6. pc' \in ModulePcs
    BY <1>1, <1>2 DEF ModulePcs
  <2> QED BY <2>5, <2>6 DEF Chased, ModulePcs, p
<1>7. pc' \in ModulePcs
  BY <1>1, <1>2 DEF ModulePcs
<1> QED BY <1>6, <1>7 DEF Chasing

LEMMA ChasedModInfo ==
    ASSUME CleanRead(ModInfo)
    PROVE  pc' = "mod_info" /\ Chasing'
<1>1. pc = "mod_info" /\ ~Fault /\ list # <<>> /\ names' = names /\ Clean
  BY ReadingClean DEF CleanRead, ModInfo
<1>2. /\ list' = Tail(list) /\ pc' = pc /\ module_infos' = module_infos /\ candidates' = candidates
      /\ \E m \in InfoOf(Head(list)) : modules' = modules \o m
  BY <1>1 DEF CleanRead, ModInfo
<1>3. PICK m \in InfoOf(Head(list)) : modules' = modules \o m
  BY <1>2
<1>4. list \in Seq(NodesOf(Head(module_infos).list))
  BY <1>1, FirstModuleList DEF CleanRead, ModulePcs
<1>5. PICK a \in Procs \cup {Kernel} : modules \in Seq(Sightings(a))
  BY <1>1 DEF CleanRead, SearchInv, ModulesTyped, ModulesOf, ModulePcs
<1>6. \E T : modules \in Seq(T) /\ m \in Seq(T) /\ Len(m) \in {0, 1}
  <2> DEFINE x(n) == [entry |-> Head(list), name |-> n]
             T == Sightings(a) \cup {x(Junk), x(Module[Head(list)].name)}
  <2>1. m \in {<<>>, <<x(Junk)>>, <<x(Module[Head(list)].name)>>}
    BY DEF InfoOf
  <2>2. modules \in Seq(T)
    BY <1>5
  <2>3. <<>> \in Seq(T) /\ \A y \in T : <<y>> \in Seq(T) /\ Len(<<y>>) = 1
    OBVIOUS
  <2>4. x(Junk) \in T /\ x(Module[Head(list)].name) \in T /\ Len(<<>>) = 0
    OBVIOUS
  <2> HIDE DEF x, T
  <2>5. m \in Seq(T) /\ Len(m) \in {0, 1}
    BY <2>1, <2>3, <2>4
  <2> QED BY <2>2, <2>5
<1>7. PICK T : modules \in Seq(T) /\ m \in Seq(T) /\ Len(m) \in {0, 1}
  BY <1>6
<1>8. /\ Len(modules') = Len(modules) + Len(m) /\ modules' \in Seq(T) /\ Len(modules) \in Nat
      /\ \A k \in 1..(Len(modules) + Len(m)) :
            modules'[k] = IF k <= Len(modules) THEN modules[k] ELSE m[k - Len(modules)]
  BY <1>3, <1>7, ConcatProperties
<1>9. /\ DOMAIN modules' = 1..(Len(modules) + Len(m)) /\ DOMAIN modules = 1..Len(modules)
  BY <1>7, <1>8
<1>10. \A n : Has(n) => Has(n)'
  <2> SUFFICES ASSUME NEW n, Has(n) PROVE Has(n)'
    OBVIOUS
  <2>1. PICK k \in DOMAIN modules : modules[k].name = n
    BY DEF Has
  <2>2. k \in DOMAIN modules' /\ modules'[k] = modules[k]
    BY <1>7, <1>8, <1>9, <2>1
  <2> QED BY <2>1, <2>2 DEF Has
<1>11. ASSUME NEW n, m = <<[entry |-> Head(list), name |-> n]>> PROVE Has(n)'
  <2>1. Len(m) = 1 /\ m[1].name = n
    BY <1>11
  <2> DEFINE k == Len(modules) + 1
  <2>2. k \in DOMAIN modules' /\ modules'[k] = m[1]
    BY <1>8, <1>9, <2>1
  <2> HIDE DEF k
  <2> QED BY <2>1, <2>2 DEF Has
<1>12. ASSUME NEW e, Target(e)' PROVE Chased(e)'
  <2> DEFINE p == Module[e].list[1]
  <2>1. Target(e) /\ Chased(e)
    BY <1>12, ReadingClean DEF CleanRead, ChaseInv
  <2>2. /\ e \in Entries /\ Readable(e) /\ flink[e] \in Nodes /\ Module[e].name = Head(names) /\ has_name(e)
    BY <2>1, TargetFacts, ListsAreTidy DEF CleanRead, Target
  <2>3. \/ KnownIn(Tail(candidates), p)
        \/ Known(Head(candidates), p) /\ Pursued(e)
    BY <1>1, <2>1 DEF Chased, ModulePcs
  <2> HIDE DEF p
  <2>4. ASSUME Pursued(e) PROVE Pursued(e)'
    <3>1. CASE Has(Head(names))
      BY <1>1, <1>10, <3>1 DEF Pursued
    <3>2. CASE Ahead(e)
      BY <1>2, <3>2 DEF Pursued, Ahead
    <3>3. CASE e \in ToSet(list)
      <4>1. e = Head(list) \/ e \in ToSet(Tail(list))
        BY <1>1, <1>4, <3>3, HeadAndTail
      <4>2. CASE e = Head(list)
        <5>1. m = <<[entry |-> Head(list), name |-> Head(names)]>>
          BY <2>2, <4>2 DEF InfoOf
        <5>2. \E k \in DOMAIN modules' : modules'[k].name = Head(names')
          BY <1>1, <1>11, <5>1 DEF Has
        <5> QED BY <5>2 DEF Pursued, Has
      <4>3. CASE e \in ToSet(Tail(list))
        BY <1>1, <1>2, <4>3 DEF Pursued
      <4> QED BY <4>1, <4>2, <4>3
    <3> QED BY <1>1, <2>4, <3>1, <3>2, <3>3 DEF Pursued
  <2>5. \/ KnownIn(Tail(candidates'), p)
        \/ Known(Head(candidates'), p) /\ Pursued(e)'
    BY <1>2, <2>3, <2>4
  <2> QED BY <1>1, <1>2, <2>5 DEF Chased, ModulePcs, p
<1> QED BY <1>1, <1>2, <1>12 DEF Chasing

LEMMA ChasedNextList ==
    ASSUME CleanRead(NextList)
    PROVE  pc' = "mod_flink" /\ Chasing'
<1>1. /\ pc = "mod_info" /\ names' = names /\ list = <<>> /\ pc' = "mod_flink"
      /\ modules' = modules /\ module_infos' = Tail(module_infos) /\ candidates' = candidates
  BY ReadingClean DEF CleanRead, NextList
<1>2. module_infos \in Seq(Bases) /\ module_infos # <<>>
  BY <1>1 DEF CleanRead, SearchInv, ModulesTyped, ModulesOf, ModulePcs
<1> DEFINE t == Tail(module_infos)
<1>3. /\ t \in Seq(Bases)
      /\ \A k \in DOMAIN module_infos : k = 1 \/ (k - 1 \in DOMAIN t /\ t[k - 1] = module_infos[k])
  BY <1>2, HeadAndTail
<1>4. module_infos' = t
  BY <1>1
<1> HIDE DEF t
<1>5. ASSUME NEW e, Target(e)' PROVE Chased(e)'
  <2> DEFINE p == Module[e].list[1]
  <2>1. Target(e) /\ Chased(e)
    BY <1>5, ReadingClean DEF CleanRead, ChaseInv
  <2>3. \/ KnownIn(Tail(candidates), p)
        \/ Known(Head(candidates), p) /\ Pursued(e)
    BY <1>1, <2>1 DEF Chased, ModulePcs
  <2> HIDE DEF p
  <2>4. ASSUME Pursued(e) PROVE Pursued(e)'
    <3>1. CASE Has(Head(names))
      BY <1>1, <3>1 DEF Pursued, Has
    <3>2. CASE Ahead(e)
      <4>1. PICK k \in DOMAIN module_infos \ {1} :
                module_infos[k].list = Module[e].list /\ module_infos[k].base # Junk
        BY <3>2 DEF Ahead
      <4>2. k - 1 \in DOMAIN t /\ t[k - 1].list = Module[e].list /\ t[k - 1].base # Junk
        BY <1>3, <4>1
      <4>3. CASE k - 1 = 1
        <5>1. Head(t) = t[1]
          BY <1>3, <4>2, <4>3
        <5> QED BY <1>1, <1>4, <4>2, <4>3, <5>1 DEF Pursued
      <4>4. CASE k - 1 # 1
        <5>1. k - 1 \in DOMAIN t \ {1}
          BY <4>2, <4>4
        <5> QED BY <1>4, <4>2, <5>1 DEF Pursued, Ahead
      <4> QED BY <4>3, <4>4
    <3>3. e \notin ToSet(list)
      BY <1>1 DEF ToSet
    <3> QED BY <1>1, <2>4, <3>1, <3>2, <3>3 DEF Pursued
  <2>5. \/ KnownIn(Tail(candidates'), p)
        \/ Known(Head(candidates'), p) /\ Pursued(e)'
    BY <1>1, <2>3, <2>4
  <2> QED BY <1>1, <2>5 DEF Chased, ModulePcs, p
<1> QED BY <1>1, <1>5 DEF Chasing

LEMMA ChasedTried ==
    ASSUME CleanRead(Tried)
    PROVE  pc' \in {"idle", "candidate"} /\ Chasing'
<1>1. /\ pc = "mod_info" /\ names' = names /\ list = <<>> /\ Len(module_infos) = 1
      /\ call.op = "info"
  BY ReadingClean DEF CleanRead, Tried, AllRead, Clean
<1>2. CASE Try
  <2>1. pc' = "idle" /\ result' = Ok(<<Head(candidates)>>)
    BY <1>1, <1>2 DEF CleanRead, Tried, Return
  <2>2. result'.status # "error"
    BY <2>1 DEF Ok
  <2> QED BY <2>1, <2>2 DEF Chasing, Chased, ModulePcs
<1>3. CASE ~Try
  <2>1. pc' = "candidate" /\ candidates' = Tail(candidates)
    BY <1>1, <1>3 DEF CleanRead, Tried
  <2>2. module_infos \in Seq(Bases)
    BY <1>1 DEF CleanRead, SearchInv, ModulesTyped, ModulesOf, ModulePcs
  <2>3. DOMAIN module_infos \ {1} = {}
    BY <1>1, <2>2
  <2>4. ASSUME NEW e, Target(e)' PROVE Chased(e)'
    <3> DEFINE p == Module[e].list[1]
    <3>1. Target(e) /\ Chased(e)
      BY <2>4, ReadingClean DEF CleanRead, ChaseInv
    <3>2. \/ KnownIn(Tail(candidates), p)
          \/ Known(Head(candidates), p) /\ Pursued(e)
      BY <1>1, <3>1 DEF Chased, ModulePcs
    <3> HIDE DEF p
    <3>3. e \notin ToSet(list)
      BY <1>1 DEF ToSet
    <3>4. ~Pursued(e)
      BY <1>1, <1>3, <2>3, <3>3 DEF Pursued, Ahead, Try
    <3> QED BY <2>1, <3>2, <3>4 DEF Chased, ModulePcs, p
  <2> QED BY <2>1, <2>4 DEF Chasing
<1> QED BY <1>2, <1>3

(* What the call asks for stays one name, and the fields that were read    *)
(* are those of the first process.                                         *)
LEMMA ContextStays ==
    ASSUME ChaseInv, Reading
    PROVE  /\ call'.op = "info" => Len(names') = 1
           /\ pc' = "context" => list' # <<>> /\ info' = Fields(Head(list'))
<1>1. call' = call /\ (call.op = "info" => Len(names) = 1)
  BY ReadingKeeps DEF ChaseInv
<1>2. CASE WalkFlink \/ WalkBlink \/ ModFlink \/ Candidate
  BY <1>1, <1>2 DEF WalkFlink, WalkBlink, ModFlink, Candidate, Fail, Return, StartWalk, StartModules
<1>3. CASE EprocessFields
  <2>1. call' = call /\ names' = names
    BY <1>1, <1>3 DEF EprocessFields
  <2>2. ASSUME pc' = "context" PROVE list' # <<>> /\ info' = Fields(Head(list'))
    <3>1. /\ list # <<>> /\ list' = list
          /\ info' = [NoInfo EXCEPT !.address = Head(list), !.name = Process[Head(list)].name,
                         !.pid = Process[Head(list)].pid, !.wow64 = Process[Head(list)].wow64,
                         !.teb = Process[Head(list)].teb]
      BY <1>3, <2>2 DEF EprocessFields
    <3> QED BY <3>1 DEF Fields
  <2> QED BY <1>1, <2>1, <2>2
<1>4. CASE ProcessContext \/ ModInfo \/ NextList \/ InfosDone
  BY <1>1, <1>4 DEF ProcessContext, ModInfo, NextList, InfosDone, Return
<1>5. CASE ModulesDone \/ Tried \/ KernelModules \/ ReadKbase
  BY <1>1, <1>5 DEF ModulesDone, Tried, KernelModules, ReadKbase, Return, AllRead, StartWalk
<1> QED BY <1>2, <1>3, <1>4, <1>5 DEF Reading

LEMMA ReadingChase ==
    ASSUME ListsInv, SearchInv, SteadyInv, ChaseInv, ListsInv', SearchInv', Reading
    PROVE  ChaseInv'
<1>1. ASSUME Clean'
      PROVE  (pc' \in {"eprocess", "context"} => list' \in Seq(Procs)) /\ Chasing'
  <2>1. ~ModulesDone /\ ~KernelModules /\ ~ReadKbase
    <3>1. call.op = "info"
      BY <1>1, ReadingClean DEF Clean
    <3> QED BY <3>1 DEF ModulesDone, KernelModules, ReadKbase, SearchInv, CandidatesNamed
  <2>2. CASE WalkFlink
    <3>1. pc' = "blink"
      BY <1>1, <2>2, ChasedFlink DEF CleanRead
    <3> QED BY <3>1 DEF Chasing, Chased, ModulePcs
  <2>3. CASE WalkBlink
    <3>1. \/ pc' = "flink"
          \/ pc' = "eprocess" /\ list' \in Seq(Procs) /\ Chasing'
      BY <1>1, <2>3, ChasedBlink DEF CleanRead
    <3>2. pc' = "flink" => Chasing'
      BY DEF Chasing, Chased, ModulePcs
    <3> QED BY <3>1, <3>2
  <2>4. CASE EprocessFields
    BY <1>1, <2>4, ChasedFields DEF CleanRead
  <2>5. CASE ProcessContext
    BY <1>1, <2>5, ChasedContext DEF CleanRead
  <2>6. CASE InfosDone
    BY <1>1, <2>6, ChasedInfos DEF CleanRead
  <2>7. CASE Candidate
    BY <1>1, <2>7, ChasedCandidate DEF CleanRead
  <2>8. CASE ModFlink
    BY <1>1, <2>8, ChasedModFlink DEF CleanRead, ModulePcs
  <2>9. CASE ModInfo
    BY <1>1, <2>9, ChasedModInfo DEF CleanRead
  <2>10. CASE NextList
    BY <1>1, <2>10, ChasedNextList DEF CleanRead
  <2>11. CASE Tried
    BY <1>1, <2>11, ChasedTried DEF CleanRead
  <2> QED BY <2>1, <2>2, <2>3, <2>4, <2>5, <2>6, <2>7, <2>8, <2>9, <2>10, <2>11 DEF Reading
<1> QED BY <1>1, ContextStays DEF ChaseInv, Chasing

LEMMA ChaseStep ==
    ListsInv /\ SearchInv /\ SteadyInv /\ ChaseInv /\ ListsInv' /\ SearchInv' /\ [Win32Next]_wvars
    => ChaseInv'
<1> SUFFICES ASSUME ListsInv, SearchInv, SteadyInv, ChaseInv, ListsInv', SearchInv', [Win32Next]_wvars
             PROVE  ChaseInv'
  OBVIOUS
<1>1. CASE GuestNext \/ UNCHANGED wvars
  <2>1. /\ UNCHANGED <<faults, pc, call, names, infos, info, candidates, module_infos, list, modules,
                       result, aborted>>
        /\ (~broken' => ~broken) /\ steady' \subseteq steady
    <3>1. CASE GuestNext
      BY <3>1, GuestKeeps, SteadyShrinks DEF lists, client
    <3>2. CASE UNCHANGED wvars
      BY <3>2 DEF wvars, lists, client, past
    <3> QED BY <1>1, <3>1, <3>2
  <2>2. Clean' => Clean
    BY <2>1 DEF Clean
  <2>3. ASSUME NEW e, Target(e)' PROVE Target(e)
    BY <2>1, <2>3 DEF Target
  <2>4. ASSUME NEW e, Chased(e) PROVE Chased(e)'
    <3>1. Pursued(e) => Pursued(e)'
      BY <2>1 DEF Pursued, Has, Ahead
    <3> QED BY <2>1, <2>4, <3>1 DEF Chased
  <2>5. Clean' => /\ pc' \in {"eprocess", "context"} => list' \in Seq(Procs)
                  /\ \A e : Target(e)' => Chased(e)'
    BY <2>1, <2>2, <2>3, <2>4 DEF ChaseInv
  <2> QED BY <2>1, <2>5 DEF ChaseInv
<1>2. CASE Calling
  <2>1. PICK r \in Requests : \/ CallWalk(r) \/ CallKernel(r) \/ CallModules(r)
                              \/ \E down \in {{}, {0}, {r.vk}} : KeyState(r, down)
    BY <1>2 DEF Calling
  <2>2. Call(r)
    BY <2>1 DEF CallWalk, CallKernel, CallModules, KeyState
  <2>3. call' = r /\ names' = IF r.op = "keyboard" THEN <<>> ELSE r.names
    BY <2>2 DEF Call
  <2>4. call'.op = "info" => Len(names') = 1
    BY <2>3, RequestsAssumption
  <2>5. pc' # "context"
    BY <1>2, CallingKeeps DEF StartWalk, StartModules
  <2>6. call'.op = "info" => pc' = "flink"
    <3>1. CASE CallWalk(r)
      BY <3>1 DEF CallWalk, StartWalk
    <3>2. CASE CallKernel(r) \/ CallModules(r) \/ \E down \in {{}, {0}, {r.vk}} : KeyState(r, down)
      BY <2>3, <3>2 DEF CallKernel, CallModules, KeyState
    <3> QED BY <2>1, <3>1, <3>2
  <2>7. pc' = "flink" => \A e : Chased(e)'
    BY DEF Chased, ModulePcs
  <2> QED BY <2>4, <2>5, <2>6, <2>7 DEF ChaseInv, Clean
<1>3. CASE Reading
  BY <1>3, ReadingChase
<1> QED BY <1>1, <1>2, <1>3, NextIs

LEMMA ChaseAtFirst == Win32Init => ChaseInv
BY DEF Win32Init, ChaseInv, Clean, NoCall

(* A search that fails where nothing kept it from reading. *)
LEMMA SearchIsRight == SearchInv /\ ChaseInv => SearchIsTrue
<1> SUFFICES ASSUME SearchInv, ChaseInv, pc = "idle" PROVE SearchIsTrue
  BY DEF SearchIsTrue
<1>1. ASSUME call.op \in {"info", "keyboard"}, result.status = "ok"
      PROVE  Seen(IF call.op = "info" THEN process ELSE keyboard)
  BY <1>1 DEF SearchInv, SeenIsSeen
<1>2. ASSUME call.op = "info", result.status = "error", faults = 0, ~aborted, ~broken,
             NEW e \in steady \cap Entries,
             LET p == Module[e].list[1] IN
             /\ p # Kernel /\ ~Process[p].kernel
             /\ Module[e].list[2] = "wow64" => (Process[p].wow64 /\ Process[p].teb)
             /\ Module[e].name = Head(names) /\ has_name(e)
             /\ Process[p].name = short[Head(names)]
      PROVE  FALSE
  <2>1. Clean /\ Target(e)
    BY <1>2 DEF Clean, Target
  <2>2. Chased(e)
    BY <2>1 DEF ChaseInv
  <2> QED BY <1>2, <2>2 DEF Chased
<1> QED BY <1>1, <1>2 DEF SearchIsTrue, Seen

----------------------------------------------------------------------------
(* The keyboard *)

(* The two bits of a key are where is_down looks for them. *)
LEMMA KeyIsFound ==
    ASSUME NEW vk \in Nat, vk < 256, NEW down \in {{}, {0}, {vk}}
    PROVE  is_down(Buffer(down), vk) = IF vk \in down THEN "down" ELSE "up"
<1> DEFINE byte == (vk * 2) \div 8
           bit  == (vk % 4) * 2
<1>1. byte < 64 /\ ~(vk < 0 \/ vk > 256) /\ ~(byte >= 64)
  OBVIOUS
<1>2. bit = (vk * 2) % 8
  OBVIOUS
<1>3. (byte = 0 /\ bit = 0) => vk = 0
  OBVIOUS
<1>4. Buffer({}) = {} /\ Buffer({vk}) = {<<byte, (vk * 2) % 8>>} /\ Buffer({0}) = {<<0, 0>>}
  <2>1. (0 * 2) \div 8 = 0 /\ (0 * 2) % 8 = 0
    OBVIOUS
  <2>2. \A x : Buffer({x}) = {<<(x * 2) \div 8, (x * 2) % 8>>}
    BY DEF Buffer
  <2>3. Buffer({0}) = {<<(0 * 2) \div 8, (0 * 2) % 8>>}
    BY <2>2
  <2> QED BY <2>1, <2>2, <2>3 DEF Buffer
<1>5. is_down(Buffer(down), vk) = IF <<byte, bit>> \in Buffer(down) THEN "down" ELSE "up"
  BY <1>1 DEF is_down, get_ks_byte, get_ks_down_bit
<1>6. vk = 0 => byte = 0 /\ bit = 0
  OBVIOUS
<1> HIDE DEF byte, bit
<1>7. <<byte, bit>> \in Buffer(down) <=> vk \in down
  <2>1. CASE down = {}
    BY <1>4, <2>1
  <2>2. CASE down = {vk}
    BY <1>2, <1>4, <2>2
  <2>3. CASE down = {0}
    <3>1. <<byte, bit>> \in Buffer(down) <=> (byte = 0 /\ bit = 0)
      BY <1>4, <2>3
    <3> QED BY <1>3, <1>6, <2>3, <3>1
  <2> QED BY <2>1, <2>2, <2>3
<1> QED BY <1>5, <1>7

KeysInv == (pc # "idle" => call.op # "keys") /\ KeysAreTrue

LEMMA KeysStep == KeysInv /\ [Win32Next]_wvars => KeysInv'
<1> SUFFICES ASSUME KeysInv, [Win32Next]_wvars PROVE KeysInv'
  OBVIOUS
<1>1. CASE GuestNext \/ UNCHANGED wvars
  <2>1. UNCHANGED <<pc, call, result>>
    BY <1>1, GuestKeeps DEF wvars, client
  <2> QED BY <2>1 DEF KeysInv, KeysAreTrue
<1>2. CASE Reading
  <2>1. call' = call /\ call.op # "keys"
    BY <1>2, ReadingKeeps DEF KeysInv
  <2> QED BY <2>1 DEF KeysInv, KeysAreTrue
<1>3. CASE Calling
  <2>1. PICK r \in Requests : \/ CallWalk(r) \/ CallKernel(r) \/ CallModules(r)
                              \/ \E down \in {{}, {0}, {r.vk}} : KeyState(r, down)
    BY <1>3 DEF Calling
  <2>2. call' = r /\ r.vk \in Nat
    BY <2>1, RequestsAssumption DEF CallWalk, CallKernel, CallModules, KeyState, Call
  <2>3. CASE CallWalk(r) \/ CallKernel(r) \/ CallModules(r)
    <3>1. call'.op # "keys"
      BY <2>2, <2>3 DEF CallWalk, CallKernel, CallModules
    <3> QED BY <3>1 DEF KeysInv, KeysAreTrue
  <2>4. ASSUME NEW down \in {{}, {0}, {r.vk}}, KeyState(r, down) PROVE KeysInv'
    <3>1. /\ pc' = "idle"
          /\ result' = Ok(<<is_down(Buffer(down), r.vk), r.vk \in down>>) \/ result' = Error
      BY <2>4 DEF KeyState, Return
    <3>2. ASSUME r.vk < 256, result'.status = "ok"
          PROVE  result'.value[1] = IF result'.value[2] THEN "down" ELSE "up"
      <4>1. is_down(Buffer(down), r.vk) = IF r.vk \in down THEN "down" ELSE "up"
        BY <2>2, <3>2, KeyIsFound
      <4>2. result' = Ok(<<is_down(Buffer(down), r.vk), r.vk \in down>>)
        BY <3>1, <3>2 DEF Error
      <4>3. /\ result'.value[1] = is_down(Buffer(down), r.vk)
            /\ result'.value[2] = (r.vk \in down)
        BY <4>2 DEF Ok
      <4> QED BY <4>1, <4>3
    <3> QED BY <2>2, <3>1, <3>2 DEF KeysInv, KeysAreTrue
  <2> QED BY <2>1, <2>3, <2>4
<1> QED BY <1>1, <1>2, <1>3, NextIs

----------------------------------------------------------------------------
(* What holds at every step of every call. *)
IInv == SearchInv /\ ListsInv /\ SteadyInv /\ ChaseInv /\ KeysInv

(* Every step of the guest, of a call and of its reads keeps the           *)
(* invariant, from a guest that has just started (kernel.rs, process.rs).  *)
THEOREM Win32Invariance == Win32Spec => []IInv
<1>1. Win32Init => IInv
  BY SearchAtFirst, ListsAtFirst, ChaseAtFirst
     DEF Win32Init, IInv, SteadyInv, KeysInv, KeysAreTrue, NoCall
<1>2. IInv /\ [Win32Next]_wvars => IInv'
  <2> SUFFICES ASSUME IInv, [Win32Next]_wvars PROVE IInv'
    OBVIOUS
  <2>1. Tidy /\ SearchInv /\ ListsInv /\ SteadyInv /\ ChaseInv /\ KeysInv
    BY ListsAreTidy DEF IInv
  <2>2. SearchInv' /\ SteadyInv' /\ KeysInv'
    BY <2>1, SearchStep, SteadyStep, KeysStep
  <2>3. ListsInv'
    BY <2>1, <2>2, ListsStep
  <2>4. ChaseInv'
    BY <2>1, <2>2, <2>3, ChaseStep
  <2> QED BY <2>2, <2>3, <2>4 DEF IInv
<1> QED BY <1>1, <1>2, PTL DEF Win32Spec

(* eprocess_list_extend (kernel.rs) walks a list that the guest changes at *)
(* every read: a walk that ends without an error has every process that    *)
(* was there all the time, once, unless memory was reused meanwhile.       *)
THEOREM ProcessesAreFound == Win32Spec => []WalkFindsSurvivors
<1>1. IInv => WalkFindsSurvivors
  BY WalkIsTrue DEF IInv
<1> QED BY <1>1, Win32Invariance, PTL

(* The same of module_entry_list (process.rs), for any number of modules   *)
(* that come and go.                                                       *)
THEOREM ModulesAreFound == Win32Spec => []ModulesFindSurvivors
<1>1. IInv => ModulesFindSurvivors
  BY ModulesAreTrue DEF IInv
<1> QED BY <1>1, Win32Invariance, PTL

(* process_info and Keyboard::try_with (kernel.rs, keyboard.rs) take a     *)
(* process only with a module of the very name that is asked for, and      *)
(* process_info does not miss one that was there all the time.             *)
THEOREM SearchesAreTrue == Win32Spec => []SearchIsTrue
<1>1. IInv => SearchIsTrue
  BY SearchIsRight DEF IInv
<1> QED BY <1>1, Win32Invariance, PTL

(* is_down (keyboard.rs) reads the bit that the guest sets for a key.      *)
THEOREM KeysAreRead == Win32Spec => []KeysAreTrue
<1>1. IInv => KeysAreTrue
  BY DEF IInv, KeysInv
<1> QED BY <1>1, Win32Invariance, PTL
=============================================================================
